------------------------------ MODULE Shipper -------------------------------
(***************************************************************************)
(* The sensor's shipper (honeypot/shipper/src/shipper.ts) with its durable *)
(* spool (spool.ts): it tails Cowrie's log, appends the events it finds to *)
(* a disk-backed FIFO, advances a checkpoint file, and POSTs the head of   *)
(* the FIFO to ingest until it is acknowledged.                            *)
(*                                                                         *)
(* Lines are numbered in the order Cowrie writes them; the number is also  *)
(* the event's deterministic id.  Offsets count complete lines, not bytes. *)
(* The process is single-threaded: the tailer and the flusher interleave   *)
(* only where the code awaits, so nothing but a crash comes between        *)
(* spool.append and saveCheckpoint.  SIGTERM runs both loops once more     *)
(* (each returns at once if it is already running) and exits, which is     *)
(* what the loops and Crash do here.                                       *)
(***************************************************************************)
EXTENDS Integers, IngestApi

CONSTANTS
    MaxLines,       \* bound: lines Cowrie writes
    MaxRotations,   \* bound: times Cowrie rotates its log
    MaxCrashes,     \* bound: crashes, exits and power losses
    MaxFaults,      \* bound: disk writes that fail
    Noise,          \* the lines parseLine or SHIPPER_REPLAY_SINCE drops
    BatchSize,      \* BATCH_SIZE, in events
    MaxSpool,       \* SHIPPER_MAX_SPOOL_BYTES, in records
    MaxAttempts,    \* postBatch's attempts (6 in the code)
    ReplaySince,    \* SHIPPER_REPLAY_SINCE is set
    PowerLoss       \* a crash may lose the checkpoint file, never fsynced

ASSUME ShipperAssumption ==
    /\ {MaxLines, MaxRotations, MaxCrashes, MaxFaults} \subseteq Nat
    /\ {BatchSize, MaxSpool, MaxAttempts} \subseteq Nat \ {0}
    /\ Noise \cup Refused \subseteq 1 .. MaxLines
    /\ {ReplaySince, PowerLoss} \subseteq BOOLEAN

VARIABLES
    written,    \* how many lines Cowrie has written
    start,      \* start[g]: how many of them before log file g was created
    active,     \* the file COWRIE_LOG names now
    checkpoint, \* in memory: which file, and how many lines of it are done
    tail,       \* readNewLines: "idle", "opening" the stream, "reading" from
                \* it, or about to "save" after an append
    fd, read,   \* the file its stream reads, and how many lines it is past
    pending,    \* DurableSpool.pending
    flush,      \* flush: "idle" or "posting"
    batch,      \* the batch being posted
    attempt,    \* its failed attempts
    saved,      \* the checkpoint on disk
    spool,      \* the records in pending.ndjson
    torn,       \* pending.ndjson ends in a partial record
    up,         \* the process runs
    crashes, faults,    \* only bound Crash and the disk faults
    stored,     \* the ids ingest has stored
    taken,      \* history: the lines the tailer has finished with
    strays,     \* history: the lines it read under another file's checkpoint
    lost        \* history: a crash found memory and spool file different

log     == <<written, start, active>>
stream  == <<fd, read>>
history == <<taken, strays>>
tailer  == <<checkpoint, tail, stream, history>>
flusher == <<flush, batch, attempt>>
queue   == <<pending, spool, torn>>
process == <<up, crashes, lost>>
vars    == <<log, tailer, flusher, queue, saved, process, faults, stored>>

Lines == 1 .. MaxLines
Files == 1 .. MaxRotations + 1

NoCheckpoint == [file |-> 0, offset |-> 0]      \* null
Corrupt == 0            \* a complete spool record that JSON.parse refuses

Size(g) == (IF g = active THEN written ELSE start[g + 1]) - start[g]
Line == start[fd] + read + 1                    \* the line the stream is at

\* (mutants) Everything, and one element too many.
Suffix_All(s, n) == <<>>
Suffix_More(s, n) == SubSeq(s, n + 2, Len(s))

Suffix(s, n) == SubSeq(s, n + 1, Len(s))

Init ==
    /\ written = 0
    /\ start = [g \in Files |-> 0]
    /\ active = 1
    /\ checkpoint = NoCheckpoint
    /\ tail = "idle"
    /\ fd = 1
    /\ read = 0
    /\ pending = <<>>
    /\ flush = "idle"
    /\ batch = <<>>
    /\ attempt = 0
    /\ saved = NoCheckpoint
    /\ spool = <<>>
    /\ torn = FALSE
    /\ up = TRUE
    /\ crashes = 0
    /\ faults = 0
    /\ stored = {}
    /\ taken = {}
    /\ strays = {}
    /\ lost = FALSE

-----------------------------------------------------------------------------
(* Cowrie.                                                                 *)

WriteLine ==
    /\ written < MaxLines
    /\ written' = written + 1
    /\ UNCHANGED <<start, active, tailer, flusher, queue, saved, process,
                   faults, stored>>

\* The log is renamed and a new, empty one takes its name.
Rotate ==
    /\ active < MaxRotations + 1
    /\ active' = active + 1
    /\ start' = [start EXCEPT ![active + 1] = written]
    /\ UNCHANGED <<written, tailer, flusher, queue, saved, process, faults,
                   stored>>

-----------------------------------------------------------------------------
(* readNewLines, once a second unless it is still running.                 *)

\* (mutant) SHIPPER_REPLAY_SINCE is not looked at.
FirstCheckpoint_Tail == [file |-> active, offset |-> Size(active)]

FirstCheckpoint ==
    [file |-> active, offset |-> IF ReplaySince THEN 0 ELSE Size(active)]

\* (mutants) Without the inode, and with >= for >.
Rotated_BySize(c) == c.offset > Size(active)
Rotated_AtEnd(c) == c.file # active \/ c.offset >= Size(active)

Rotated(c) == c.file # active \/ c.offset > Size(active)

\* statSync and the checkpoint; the stream is created, but not open yet.
StartRead ==
    /\ up
    /\ tail = "idle"
    /\ LET first == checkpoint = NoCheckpoint
           c == IF first THEN FirstCheckpoint ELSE checkpoint
           from == IF Rotated(c) THEN [file |-> active, offset |-> 0] ELSE c
       IN  /\ checkpoint' = from
           /\ saved' = IF first THEN c ELSE saved
           /\ tail' = IF from.offset = Size(active) THEN "idle" ELSE "opening"
    /\ UNCHANGED <<log, stream, flusher, queue, process, faults, stored,
                   history>>

\* The path is opened later, and may name another file by then: its lines
\* count for the old file's checkpoint.  Of that file's first bytes, as many
\* as the offset says are skipped; a line cut by that is no event.
OpenStream ==
    /\ tail = "opening"
    /\ fd' = active
    /\ read' \in IF checkpoint.file = active \/ checkpoint.offset = 0
                 THEN {checkpoint.offset} ELSE Lines
    /\ tail' = "reading"
    /\ UNCHANGED <<log, checkpoint, history, flusher, queue, saved, process,
                   faults, stored>>

\* Or the rotation has not created the new log yet (ENOENT).
OpenFails ==
    /\ tail = "opening"
    /\ checkpoint.file # active
    /\ tail' = "idle"
    /\ UNCHANGED <<log, checkpoint, stream, history, flusher, queue, saved,
                   process, faults, stored>>

\* The stream has delivered another complete line.
NextLine == up /\ tail = "reading" /\ read < Size(fd)

Strayed == IF fd = checkpoint.file THEN strays ELSE strays \cup {Line}

DropLine ==
    /\ NextLine
    /\ Line \in Noise
    /\ tail' = "save"
    /\ UNCHANGED <<log, checkpoint, stream, history, flusher, queue, saved,
                   process, faults, stored>>

\* spool.append: written, fsynced, then pushed.  After a partial record the
\* new one continues the same line of the file.
AppendEvent ==
    /\ NextLine
    /\ Line \notin Noise
    /\ Len(spool) < MaxSpool
    /\ spool' = Append(spool, IF torn THEN Corrupt ELSE Line)
    /\ torn' = FALSE
    /\ pending' = Append(pending, Line)
    /\ strays' = Strayed
    /\ tail' = "save"
    /\ UNCHANGED <<log, checkpoint, stream, taken, flusher, saved, process,
                   faults, stored>>

\* writeSync wrote fewer bytes than the record has; nobody looks at its result.
AppendShort ==
    /\ NextLine
    /\ Line \notin Noise
    /\ Len(spool) < MaxSpool
    /\ faults < MaxFaults
    /\ faults' = faults + 1
    /\ torn' = TRUE
    /\ pending' = Append(pending, Line)
    /\ strays' = Strayed
    /\ tail' = "save"
    /\ UNCHANGED <<log, checkpoint, stream, taken, flusher, spool, saved,
                   process, stored>>

\* append throws at the size limit: the tailer pauses until the next tick.
SpoolFull ==
    /\ NextLine
    /\ Line \notin Noise
    /\ Len(spool) >= MaxSpool
    /\ tail' = "idle"
    /\ UNCHANGED <<log, checkpoint, stream, history, flusher, queue, saved,
                   process, faults, stored>>

\* (mutant) The newline is counted as a line of its own.
Advanced_Twice == [checkpoint EXCEPT !.offset = @ + 2]

Advanced == [checkpoint EXCEPT !.offset = @ + 1]

SaveCheckpoint ==
    /\ tail = "save"
    /\ checkpoint' = Advanced
    /\ read' = read + 1
    /\ saved' = Advanced
    /\ taken' = taken \cup {Line}
    /\ tail' = "reading"
    /\ UNCHANGED <<log, fd, strays, flusher, queue, process, faults, stored>>

\* saveCheckpoint throws after the offset in memory has moved.
SaveFails ==
    /\ tail = "save"
    /\ faults < MaxFaults
    /\ faults' = faults + 1
    /\ checkpoint' = Advanced
    /\ taken' = taken \cup {Line}
    /\ tail' = "idle"
    /\ UNCHANGED <<log, stream, strays, flusher, queue, saved, process, stored>>

EndOfFile ==
    /\ up
    /\ tail = "reading"
    /\ read >= Size(fd)
    /\ tail' = "idle"
    /\ UNCHANGED <<log, checkpoint, stream, history, flusher, queue, saved,
                   process, faults, stored>>

-----------------------------------------------------------------------------
(* flush and postBatch.                                                    *)

\* The flusher resumes: no synchronous stretch of the tailer is under way.
Scheduled == up /\ tail # "save"

StartFlush ==
    /\ Scheduled
    /\ flush = "idle"
    /\ pending # <<>>
    /\ flush' = "posting"
    /\ batch' = Prefix(pending, BatchSize)
    /\ attempt' = 0
    /\ UNCHANGED <<log, tailer, queue, saved, process, faults, stored>>

\* Back to peek, or out of the loop.
ContinueFlush ==
    /\ batch' = Prefix(pending', BatchSize)
    /\ attempt' = 0
    /\ flush' = IF pending' = <<>> THEN "idle" ELSE "posting"

\* 2xx: spool.ack rewrites the file from memory, then shortens memory.
PostAccepted ==
    /\ Scheduled
    /\ flush = "posting"
    /\ Status(batch, stored) = 202
    /\ stored' = stored \cup Inserted(batch, stored)
    /\ pending' = Suffix(pending, Len(batch))
    /\ spool' = pending'
    /\ torn' = FALSE
    /\ ContinueFlush
    /\ UNCHANGED <<log, tailer, saved, process, faults>>

GiveUp ==
    /\ flush' = "idle"
    /\ batch' = <<>>
    /\ attempt' = 0

\* 429, 5xx, a timeout or a lost response: any of the chunks may be stored.
PostFailed ==
    /\ Scheduled
    /\ flush = "posting"
    /\ stored' \in PartlyInserted(batch, stored)
    /\ IF attempt + 1 < MaxAttempts
       THEN attempt' = attempt + 1 /\ UNCHANGED <<flush, batch>>
       ELSE GiveUp
    /\ UNCHANGED <<log, tailer, queue, saved, process, faults>>

\* Another 4xx (the 400 of Status, a token being rotated): nothing stored,
\* the batch stays at the head of the FIFO, the loop ends.
PostRejected ==
    /\ Scheduled
    /\ flush = "posting"
    /\ GiveUp
    /\ UNCHANGED <<log, tailer, queue, saved, process, faults, stored>>

-----------------------------------------------------------------------------
(* Crashes and restarts.                                                   *)

\* Memory is lost.  A request under way may still be carried out, an append
\* under way may leave a partial record.
Crash ==
    /\ up
    /\ crashes < MaxCrashes
    /\ crashes' = crashes + 1
    /\ up' = FALSE
    /\ lost' = IF pending = spool THEN lost ELSE TRUE
    /\ checkpoint' = NoCheckpoint
    /\ tail' = "idle"
    /\ pending' = <<>>
    /\ GiveUp
    /\ stored' \in PartlyInserted(batch, stored)
    /\ torn' \in IF NextLine THEN {torn, TRUE} ELSE {torn}
    /\ saved' \in IF PowerLoss THEN {saved, NoCheckpoint} ELSE {saved}
    /\ UNCHANGED <<log, stream, history, spool, faults>>

\* (mutant) The partial record is ignored, but not cut off the file.
Restart_KeepTail ==
    /\ ~up
    /\ Corrupt \notin Range(spool)
    /\ up' = TRUE
    /\ checkpoint' = saved
    /\ pending' = spool
    /\ UNCHANGED <<log, tail, stream, history, flusher, spool, torn, saved,
                   crashes, lost, faults, stored>>

\* load() trims a partial last record and throws on any other bad one.
Restart ==
    /\ ~up
    /\ Corrupt \notin Range(spool)
    /\ up' = TRUE
    /\ checkpoint' = saved
    /\ pending' = spool
    /\ torn' = FALSE
    /\ UNCHANGED <<log, tail, stream, history, flusher, spool, saved, crashes,
                   lost, faults, stored>>

Read == StartRead \/ OpenStream \/ OpenFails \/ DropLine \/ AppendEvent
        \/ SpoolFull \/ SaveCheckpoint \/ EndOfFile

Post == PostAccepted \/ PostFailed \/ PostRejected

Next ==
    \/ WriteLine
    \/ Rotate
    \/ Read
    \/ AppendShort
    \/ SaveFails
    \/ StartFlush
    \/ Post
    \/ Crash
    \/ Restart

Spec == Init /\ [][Next]_vars

\* The one-second timer, the hourly timer and the container's restart policy
\* keep the loops going, an attempt ends (AbortSignal.timeout), and ingest in
\* the end answers a batch that it is offered again and again.
FairSpec ==
    /\ Spec
    /\ WF_vars(Read)
    /\ WF_vars(StartFlush)
    /\ WF_vars(Post)
    /\ SF_vars(PostAccepted)
    /\ WF_vars(Restart)

-----------------------------------------------------------------------------
(* Properties.                                                             *)

Checkpoints == [file : 0 .. MaxRotations + 1, offset : 0 .. MaxLines]

\* The shape of the state, which includes that postBatch never counts past
\* its last attempt.
TypeOK ==
    /\ written \in 0 .. MaxLines
    /\ start \in [Files -> 0 .. MaxLines]
    /\ active \in Files
    /\ checkpoint \in Checkpoints
    /\ tail \in {"idle", "opening", "reading", "save"}
    /\ fd \in Files
    /\ read \in 0 .. MaxLines
    /\ pending \in Seq(Lines)
    /\ flush \in {"idle", "posting"}
    /\ batch \in Seq(Lines)
    /\ attempt \in 0 .. MaxAttempts - 1
    /\ saved \in Checkpoints
    /\ spool \in Seq(Lines \cup {Corrupt})
    /\ torn \in BOOLEAN
    /\ up \in BOOLEAN
    /\ crashes \in 0 .. MaxCrashes
    /\ faults \in 0 .. MaxFaults
    /\ stored \in SUBSET Lines
    /\ taken \in SUBSET Lines
    /\ strays \in SUBSET Lines
    /\ lost \in BOOLEAN

\* An event the tailer is done with is in the spool file until ingest has it:
\* it survives a crash between any two steps ("Appends are fsynced before the
\* Cowrie read checkpoint advances").
TakenIsSafe == taken \ (Noise \cup Refused) \subseteq Range(spool) \cup stored

\* No event leaves the spool file before ingest has stored it (or refused it
\* for good), although the tailer appends to the FIFO while a batch of it is
\* being posted and a lost answer makes the batch go out again.
AckedIsStored ==
    [][\A e \in Lines :
          e \in Range(spool) \ Range(spool') => e \in stored' \cup Refused]_vars

\* The FIFO stays one: memory agrees with the file, and the file is in the
\* order of the log, at most with a record repeated in place after a crash.
\* Only a line read under another file's checkpoint may come too early, and is
\* read again: a rotation came between statSync and the open of the stream.
SpoolInOrder ==
    /\ \A i \in 1 .. Len(spool) - 1 :
          spool[i] <= spool[i + 1] \/ spool[i] \in strays
    /\ up => pending = spool

\* The event lines of the active log that a shipper starting now would read.
Ahead == {l \in Lines \ (Noise \cup Refused) :
            /\ saved # NoCheckpoint
            /\ start[active] + (IF saved.file = active THEN saved.offset ELSE 0)
                  < l
            /\ l <= written}

\* The log was rotated before the tailer was done with line l.
LeftBehind(l) == l <= start[active] /\ l \notin taken

\* A short write had kept an event in memory only when the process ended.
MemoryLost == lost

\* Every event the shipper has yet to read reaches the store in the end,
\* through a full spool, refused and lost posts, crashes and restarts, and
\* across a rotation that comes after the tailer has taken it.
Delivered ==
    \A l \in Lines :
        l \in Ahead ~> l \in stored \/ LeftBehind(l) \/ MemoryLost

\* "A power loss can leave only the final append torn" (spool.ts): as long as
\* no write was short without a crash, whatever the crashes cut off, load()
\* never meets a bad record that it would die of at every start.
Restartable == faults = 0 => Corrupt \notin Range(spool)
=============================================================================
