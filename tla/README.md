# TLA+ models of Hunang

Hunang is an SSH honeypot with a public dashboard. A sensor runs Cowrie; a
*shipper* beside it tails Cowrie's JSON log and posts events to *ingest*; ingest
keeps raw events for a limited time in Postgres, folds them into lifetime
aggregates, and serves the dashboard; a static site shows the result and can
archive it.

This directory holds TLA+ specifications of that pipeline, the TLC
configurations that model-check them on small instances, and proofs, checked by
TLAPS, for every value of the constants. All paths below are relative to `src/`.

    tlc -workers 2 -config Shipper.cfg MCShipper      # one run
    tlapm Shipper_proofs.tla                          # the proofs of one module

`PROJECT.json` is the index: components, runs, the code lines behind every
definition (`map`), the hazards, the findings and, for every property, a mutant of
the code that breaks it.

---------------------------------------------------------------------------

## 1. The system

### 1.1 Components

| Component | State | Operations | Talks to |
|---|---|---|---|
| Cowrie (external) | `cowrie.json` and its rotated files | writes a line, rotates | the shipper, through the file |
| Shipper, tailer (`honeypot/shipper/src/shipper.ts`) | in-memory checkpoint (inode, offset), checkpoint file | `readNewLines` once a second, `saveCheckpoint`, `loadCheckpoint` | spool |
| Shipper, spool (`spool.ts`) | `pending.ndjson`, its copy in memory | `append`, `peek`, `ack`, `load` | disk |
| Shipper, flusher (`shipper.ts`) | whether it is running, attempt | `flush` on a timer, `postBatch` with retries and a timeout | ingest, HTTP |
| Shipper, mapping (`map.ts`) | none | Cowrie record → wire event with a deterministic id | |
| Replay tool (`replay.ts`) | a batch, an attempt, counts | reads log files, posts batches | ingest, HTTP |
| Ingest write API (`ingest/src/server.ts`, `schema.ts`, `privacy.ts`, `geo.ts`) | `events`, `meta.sensor_live_ts` | `POST /v1/events` | rate limiter, Postgres |
| Rate limiter (`ratelimit.ts`) | a bounded table of token buckets | `take` | the two APIs |
| Lifetime store (`repository.ts`) | `events`, lifetime boards, `meta` | `insertEvents`, `foldNewEvents`, `resetCumulative`, `deleteEventsBefore` | Postgres |
| Aggregation job (`aggregate.ts`, `run-aggregate.ts`, `api/cron/aggregate.ts`) | none of its own | `aggregate`, `enforceRetention`, on a timer, by cron and by hand | lifetime store, rollups |
| Ingest service (`index.ts`) | a timer, the flag `running`, open requests | start, first cycle, timer, SIGTERM | everything in ingest |
| Functions (`api/`, `runtime.ts`) | cached promises of an instance | build a runtime when first asked | Postgres |
| Rollups read API (`rollups.ts`, `read-server.ts`) | none | `buildDashboard` | Postgres |
| Postgres access (`db.ts`, `sql-pg.ts`) | schema, connections | `migrate`, `transaction`, `close` | Postgres |
| Archive export (`web/scripts/export-archive.mjs`) | an archive file | fetches the dashboard, checks it, saves it | read API |
| ATT&CK table, web site, seed data, infrastructure | — | — | see section 7 |

### 1.2 How they interact, and what is hard

* The **tailer and the flusher share the spool** and interleave wherever one of
  them awaits. A batch is peeked, posted (seconds may pass, the tailer appends
  meanwhile) and then acknowledged by *count*.
* **Two files must agree over a crash**: an event is fsynced to the spool before
  the checkpoint moves; ack rewrites the spool after ingest has answered. Every
  crash in between repeats something, and deterministic ids must absorb it.
* **Answers get lost**, and requests outlive their callers. A batch may be stored,
  in whole or in part, without its sender knowing; it is posted again while the
  first request may still be in the handler, and ingest's answer to a *repeated*
  batch is not its answer to a new one.
* **Inserts run beside the fold.** The fold is a transaction of a dozen
  statements at READ COMMITTED: each has a snapshot of its own, so a row that is
  inserted meanwhile is seen by the later ones only.
* **The job may run twice at a time** (a cron retry, `run-aggregate` by hand
  beside the timer). The fold takes an advisory lock; the test of
  `cumulative_ready`, the retention pass and the publication of totals do not.
* **A page is read with ten statements** while all this goes on, and a cycle
  itself reads its figures one after the other.
* Nothing is kept for ever: retention deletes raw rows, and with them the
  memory of which ids have been seen, while windows are still drawn from them.
* **A process comes by its database in two ways.** The service connects once and
  is restarted when it fails; a function builds its runtime when a request asks
  for it, keeps the *promise*, and several start at the same time.
* **Clocks go back**, and a limiter subtracts readings of one.

### 1.3 What makes each part correct

* Lifetime store: a stored row is counted at most once per board; what was
  counted of purged rows is never lost; boards may skew in one direction only;
  every row is folded in the end, and every expired row purged; to a reader the
  fold is one atomic step.
* Figures: a chart lacks nothing of its window but what the retention period
  leaves out; the figures of a page fit each other and become current; published
  time stamps never move forward.
* Service: a failed cycle does not stop the next, a shutdown cuts no POST (it may
  cut the pages of the read listener).
* Shipper: an event the tailer has passed is on disk or in the store; nothing
  leaves the disk before ingest has it; memory agrees with the file, and the FIFO
  stays in order unless the log is rotated just when it is being opened; the file can be loaded again after any crash; everything still
  to be read is delivered in the end.
* Replay tool: it comes to an end, gives up for cause only, and when it says
  "complete" every event that ingest takes is stored once and its counts add up.
* Write API: stored rows are what the schema lets through, under the prefix of
  the source's address, however it is spelled; without the token a request
  neither builds a runtime nor learns that the database is down.
* Rate limiter: no order of requests, evictions and clock readings hands out more
  than capacity and refill; what a clock that goes back can do is bounded.
* Publication: a page never shows a headline larger than its parts; the
  published total settles on the counters.

The `hazards` list in `PROJECT.json` names the places where this can go wrong,
each with the properties that would show it, or why none does.

---------------------------------------------------------------------------

## 2. Modules

    FoldPlan <--- AtomicFold          IngestApi <--- Shipper <--- Shipper_proofs
        ^             ^                                 ^
        |             | (INSTANCE)                      +-- MCShipper
        +------- LifetimeStore <--- LifetimeStore_proofs
                      ^
                      +-- MCLifetimeStore

    Publication <--- Publication_proofs     RateLimiter <--- RateLimiter_proofs
        ^                                        ^ ^  (INSTANCE, twice)   ^
        +-- MCPublication                   Admission <--- Admission_proofs
                                                 ^                 |
                                                 +-- MCAdmission   |
                                                                   v
    Figures <--- Service <--- Service_proofs ----------------> FoldTheorems
                    ^                                              ^
                    +-- MCService                                  |
                                                                   |
    CowrieMap <--- Schema <--- Replay <---+                        |
                                          +--- WritePath <--- WritePath_proofs
    Handlers <--- Runtime <---------------+        ^
                                                   +-- MCWritePath

An arrow points at the module that is extended. Operators whose name has a suffix
(`CommitFold_NoRetention`) and a comment "(mutant)" are faulty variants that
stand beside the definition they alter; no specification uses them.

### 2.1 FoldPlan, AtomicFold, LifetimeStore

`FoldPlan` lists the statements of `foldNewEvents` in their order and says which
rows each one takes (`Takes`: the event type and the `IS NOT NULL` tests). An
event is a model value with a type and the set of its non-null columns.

`LifetimeStore` is the store at the grain of SQL statements:

| Variable | Code |
|---|---|
| `rows[e]` | the row of `events`: absent, `folded = FALSE`, `folded = TRUE` |
| `tally[s][e]` | what the board fed by statement `s` holds because of event `e` |
| `ready` | `meta.cumulative_ready` |
| `lock` | `pg_advisory_xact_lock(FOLD_LOCK_KEY)` |
| `pc[r]`, `step[r]`, `seen[r]`, `marked[r]` | a run of the job, its next statement, its uncommitted writes |
| `expired` | `ts < now - retention` |
| `accepted[e]` | history: how often an INSERT created the row |

| Action | Code |
|---|---|
| `InsertChunk` | one `INSERT … ON CONFLICT (id) DO NOTHING` of `insertEvents` |
| `StartRun` | `aggregate`, the test of `cumulative_ready` |
| `ResetCumulative`, `SetReady` | `resetCumulative`, `setMeta` |
| `LockFold`, `FoldStatement`, `MarkFolded`, `CommitFold` | `foldNewEvents` |
| `EnforceRetention` | `deleteEventsBefore` |
| `FailRun` | ROLLBACK in `sql-pg.ts`, or the death of the process |
| `Expire` | time passes |

`ResetCumulative` and `EnforceRetention` are single steps. A reset holds the
lock from its first statement and nothing of it is visible before COMMIT; the
only concurrent writers are inserts, which it commutes with, and a DELETE, which
either precedes its UPDATE or waits for it and then tests `folded` again. The
DELETE is one statement.

The lifetime counters are per event here (`tally[s][e]`), not sums: sums follow,
and two events never mix.

`AtomicFold` is what readers may rely on: a fold retires a set of rows in ONE
step, and each row has a statement from which on it was counted.
`LifetimeStore` implements it (`ImplementsAtomicFold`).

### 2.2 IngestApi, Shipper

`IngestApi` says what a batch adds to the store (`Inserted`), how it is answered
(`Status`: 400 when something was refused and nothing was new, else 202), and
what a request that dies on the way may leave behind (`PartlyInserted`:
`insertEvents` commits chunk by chunk).

`Shipper` is one sensor's shipper. A line of the log is its number, which is
also the id of its event. `Noise` are the lines that are no events, `Refused`
the events ingest's schema refuses.

| Variable | Code |
|---|---|
| `written`, `start`, `active` | the log: lines written, the first line of each file, the file that has the name |
| `checkpoint`, `tail` | `readNewLines`: the checkpoint in memory, and where it is |
| `fd`, `read` | the file its stream has open, and how many lines of it are read |
| `saved` | the checkpoint file |
| `pending`, `spool`, `torn` | `DurableSpool.pending`, `pending.ndjson`, a partial last record in it |
| `flush`, `batch`, `attempt` | `flush`, `postBatch` |
| `up`, `crashes`, `faults` | the process, and the bounds |
| `stored` | ids ingest has stored |
| `taken`, `strays`, `lost` | history: the lines the tailer has finished with, those it read under another file's checkpoint, and whether a crash took a record that was in memory only |

| Action | Code |
|---|---|
| `StartRead` | the head of `readNewLines`, up to `createReadStream`: `statSync`, first start, rotation, nothing new |
| `OpenStream`, `OpenFails` | the stream opens the path, or does not find it |
| `DropLine`, `AppendEvent`, `SpoolFull`, `SaveCheckpoint`, `EndOfFile` | its loop over lines, with `spool.append` |
| `AppendShort`, `SaveFails` | a short `writeSync`, a `saveCheckpoint` that throws |
| `StartFlush`, `PostAccepted`, `PostFailed`, `PostRejected` | `flush` and `postBatch` with `spool.ack` |
| `Crash`, `Restart` | the process ends at any step; `load` and `loadCheckpoint` |
| `WriteLine`, `Rotate` | Cowrie |

`createReadStream` opens a *path*, and later than `statSync` looked at it. If Cowrie
rotates in between, the stream reads the new file from the old one's offset, and
the checkpoint counts its lines for the old one: `checkpoint.file` and `fd` differ.
At the next tick the identities differ, and the new file is read again from its
start. So nothing is lost, the ids absorb the repetition, but the spool holds
such lines (`strays`) too early; when the offset falls into the middle of a line,
the rest of it is no event. `OpenStream` has all of this. A rotation that has renamed
the old log and not created the new one yet is `OpenFails`.

The code between `spool.append` and `saveCheckpoint` is synchronous:
`tail = "save"` is that stretch, and only Cowrie and a crash can come into it
(`Scheduled` keeps the flusher out).

Offsets count complete lines; the byte arithmetic of `readNewLines`, a last line
without its newline included, is not modelled. The renames of `ack` and
`saveCheckpoint` are atomic. They are not followed by an fsync of the directory:
with `PowerLoss = TRUE` a crash may lose the checkpoint file. An old spool file
that comes back only holds acknowledged events, whose replay is harmless, and is
not modelled.

### 2.3 Publication

`Publication` is the way of one number, the lifetime login attempts, from the
boards to a page. Every row is a login attempt, a board is its sum, and the fold
is taken from `AtomicFold`: `CommitFold` picks how much each of three boards
counted, growing in the order of the statements, at least the rows that were
there when the lock was taken.

`ReadCounter`, `DeleteTotals`, `ReplaceTotals` are `getCounter` and
`replaceRollup` of `rollup_totals`. A second DELETE waits for the row locks of
the first (`writer`); its snapshot does not have the rows the first inserts, so
its own INSERTs fail on the primary key and its run fails. (When it starts after
that COMMIT it is just the next replacement, hence the choice of `W`.)
`OpenPage`, `ReadTotals`, `ReadBoard` are `buildDashboard`, which awaits
`rollup_totals` first and then reads the boards with `Promise.all`.

`replaceHourlyTimeseries` and the other `replaceRollup` calls can fail in the same
way before the totals; for this module that is a run that fails (`FailRun`).

### 2.4 RateLimiter, Admission

`RateLimiter` is `TokenBucket`: `live` are the keys of its `Map`, `tokens` and
`updated` what a bucket holds. `Take(k, ok)` is `take`, with `evictOldest`
(`Evicted`), the lazily computed refill (`Elapsed`, `Topped`) and the charge.
Tokens are counted in fractions of a token so that a refill of 0.5 per second is
an integer. The clock is an action of its own and takes *any* reading; `back`,
`backSteps`, `spent` and `created` are history.

`Admission` is the head of the two handlers: `global.take("global") ||
perIp.take(ip)`, two instances of `RateLimiter` on one clock. `Admit`,
`RefuseClient` and `RefuseAll` are the three outcomes. In each the global token
is asked for first, and in `RefuseClient` it is gone although the request is
refused.

### 2.5 Figures, Service

`Figures` is a cycle of the job at the grain of what it reads and writes: `now`,
the fold, the hourly query, `replaceHourlyTimeseries`, the 24-hour query, the two
time stamps, `replaceRollup("rollup_totals", …)`, retention with a `now` of its
own. Rows have time stamps, and a count is the set of rows it counts. Nothing
relates the retention period to the windows, since the configuration does not. The fold is
the one of `AtomicFold`, with one detail more: `MIN(ts)` is read in a later
snapshot than the counters.

`Service` runs it in `index.ts`:

| Variable | Code |
|---|---|
| `proc` | `down`; `boot` (config, migrate, enricher); `first` (`await runJobs()`); `up`; `closing` (`server.close`); `ending` (`sql.close`) |
| `timer`, `running` | `setInterval`, the flag of `runJobs` |
| `pc`, `cycle` | the cycle under way and what it has read |
| `post[e]` | the POST that carries event `e`: in the handler before `recordSensorLive`, before `insertEvents`, before the answer; answered |
| `open`, `cut` | pages that were open when the pool ended; history: the requests that the last shutdown cut |

`server.close` waits for the POSTs of the one listener (`Drained`), and then the pool
ends. `readServer.close()` is not waited for (`index.ts:85`): whatever pages are open
at that moment are answered with what connections they have (`AnswerPage`), refused
by the pool (`PageRefused`), or gone with the process (`Exit`). A page earlier than
that changes nothing here, so `EndPool` picks the ones that are open; `Publication` has
their queries. `Store` and `Reply` are two steps: a process that dies between them
leaves a row whose event is posted again.

`Exit` waits for a connection that is in use (an open fold), as `pool.end()` does;
a cycle that asks for another one then fails (`JobFails`). `Crash` is a throw in
top-level `await`, a signal before its handler is installed, or SIGKILL. Since
`running` admits one cycle, one cycle is all the run needs; `Publication` has the
ones that overlap.

### 2.6 CowrieMap, Schema, Handlers, Runtime, Replay, WritePath

* `CowrieMap` is `map.ts`: which wire event a record becomes. A record is a
  function from the fields it has to values; a text is its length and its number
  of control characters; a line that is no JSON is `NotJson`, and the line `null` is
  `JsonNull`, on which `mapCowrieEvent` throws (`map.ts:60`, outside the try of
  `parseLine`). A wire event has every field, with `None` for one that
  is undefined in the code.
* `Schema` is `eventSchema`, `batchSchema`, `normalizeEvent`, `truncateIp` (by
  hextets, with `::` anywhere and with a dotted tail) and `buildEnricher` with a database that is
  absent, good or broken.
* `Handlers` has the checks a request passes, in their order, as sequences of
  statuses (`Refuse`, 0 for a check that passes; `FirstOf` is the early return):
  the two handlers, the two listeners, the node:http bridge and the wrappers of
  the functions. The bridge answers 500, before any handler has run, to whatever it
  cannot make a `Request` of: a target or Host header that is no URL, a body above its
  ceiling, a method that `new Request` refuses.
* `Runtime` is how a process comes by its database: `memo` is the cached promise
  of a function (or the start of the service), `Migrate` and `CommitMigration`
  are `migrate` under its lock, `Failed` is what differs between the two
  deployments: a function keeps the rejected promise, the service exits and is
  started again. `GoDown`, `ComeUp`, `Recycle` are the environment.
* `Replay` is the tool: `AddLine`, `SkipLine`, `LineThrows` (nobody catches it, and the
  process exits), `BeginSend`, `Taken`, `Refused`.
* `WritePath` puts them together: the tool on one side, then the listener or the
  function, the runtime, the handler, chunked inserts and the answer on the way
  back; next to the tool a reader, the cron job and a stranger without the token.
  A request that the tool gave up on (`TimesOut`) goes on as the caller `late`.

| Action of `WritePath` | Code |
|---|---|
| `CallFunction`, `CallService` | `POST`/`GET` in `api/`; `buildServer`, `buildReadServer`, `serveWithNodeHttp` |
| `Enter`, `NotAdmitted`, `NoRuntime` | `await getWriteRuntime()`; the handler's checks; 429; the rejected promise |
| `RecordLive`, `InsertChunk`, `Accepted` | `createEventsHandler` after its checks, `insertEvents` |
| `Read`, `Aggregate`, `QueryFails` | `buildDashboard`, the cron job, a query while the database is down |
| `ToolHears`, `TimesOut`, `LoseResponse` | `sendBatch` |
| `Dies`, `Elsewhere(…)` | recycled instances, initialization, outages |

---------------------------------------------------------------------------

### 2.7 Assumptions on the constants

They are named ASSUMEs, which TLC evaluates in the runs and the proofs cite:

* `WindowsAssumption` (Figures): the windows and the retention period are numbers,
  in any order.
* `MappingAssumption`, `SchemaAssumption` and `PathAssumption`: the limits of the
  mapping and of the schema are lengths, and a mapped field is cut to what the
  schema takes, field by field, as `map.ts:67-108` and `schema.ts:41-49` have it; a
  stranger's request does not carry the token.
* `ReplayAssumption` (`IsLine`): a text of a log is made of characters, and a
  `src_ip` that `isIP` takes is an address (at most eight hextets).
* `ShipperAssumption`, `AdmissionAssumption`, `ShapeAssumption` and the others:
  the types of the constants.

`Configured` (WritePath) is not assumed but a hypothesis of one theorem:
`config.ts` finds what it requires, the tool has a sensor name that the envelope
takes, and its batches (`MAX_BATCH_EVENTS` 500, `MAX_BATCH_BYTES` 900 000) are within
what the API takes (500, `MAX_BODY_BYTES` 1 000 000); an event alone fits into a
batch, as the mapping's limits see to. `MCWritePath` asks TLC whether the
instances of its runs satisfy it.

---------------------------------------------------------------------------

## 3. Runs

Every constant named `Max…` is a bound of the model, not of the code, except
`MaxAttempts` (`postBatch` retries), `MaxSpool` (the spool's size limit, here
counted in records), `MaxKeys` (`maxKeys`), `MaxBatchEvents`, `MaxBatchBytes`,
`MaxEvents`, `MaxBody`, `MaxRead` and `MaxLength` (limits of the code, made
small).

### 3.1 Runs that pass

| Run (cfg) | Properties | What it shows | Instance |
|---|---|---|---|
| `lifetime_store` | `TypeOK`, `AtMostOncePerRow`, `LaterBoardsCountMore`, `ImplementsAtomicFold` | no board counts a stored row twice; the boards disagree in one direction only; the fold is atomic | 2 events, 2 runners, each id accepted once, 1 failure |
| `lifetime_service` | `PurgedCountsStay`, `EventuallyFolded`, `ExpiredEventuallyPurged` | with one runner nothing counted of purged rows is lost, rows are folded and purged | 2 events that may be purged and accepted again, 1 runner, 1 failure |
| `shipper` | `TypeOK`, `TakenIsSafe`, `Restartable`, `SpoolInOrder`, `AckedIsStored` | no event is lost between checkpoint, spool and store, and no crash makes the spool file unreadable | 5 lines (1 noise, 1 refused), 1 rotation, 2 crashes, batches of 2, spool of 3 |
| `shipper_delivery` | `Delivered` | what is ahead of the checkpoint gets to the store, with the two exceptions below | 4 lines (1 noise), 1 rotation, 2 crashes that may take the checkpoint file, 1 disk fault, spool of 2 |
| `publication` | `TypeOK`, `HeadlineNeverOverstates`, `HeadlineCatchesUp` | no page shows a headline larger than its parts; two runners that fail each other still end with the right total | 3 attempts, 2 runners, 1 failure |
| `rate_limiter` | `TypeOK`, `DebtBounded`, `NoFreeTokens`, `TableBounded`, `RefusedOnlyInACrowd` | see 2.4 | 3 clients, a table of 2, 5 requests, clock 0…3 that goes back twice |
| `service` | `TypeOK`, `ChartIsComplete`, `DayWithinTotal`, `FirstIsEarliest`, `ShutdownCutsNoPost`, `NeverLater`, `BecomesCurrent` | see 2.5 | 2 events one tick apart, windows of 1 and 2 ticks, retention of 1, 3 readings of the clock, 1 page, 1 failure or crash, 1 SIGTERM |
| `write_path` | `TypeOK`, `CountsAddUp`, `CompleteMeansStored`, `NoTwins`, `DiesForCause`, `StrangersLearnNothing`, `MigrationsDoNotCollide`, `MappedRecordsFit`, `PrefixOfAddress`, `RunsEnd`, `ServiceRecovers` | see 2.6 | 15 logs of up to 4 lines, both deployments, 2 casts of callers, 9 strange requests, 2 faults, 2 runs of the tool |

`Delivered` has two exceptions, and the run shows that there is no third:

* `LeftBehind`: the log is rotated before the tailer is done with a line. It goes
  to the new file and never comes back; the operator replays rotated files by hand
  (`docs/RUNBOOK.md`). An event that was taken before the rotation is delivered.
* `MemoryLost`: a crash while memory and spool file differ, which takes a short write
  before it: the event is in memory only. A crash after a checkpoint write that
  failed loses nothing.

`shipper_delivery` has `SHIPPER_REPLAY_SINCE` set, so that a lost checkpoint file
is harmless too. Without it the code differs at one place, the first checkpoint,
which is then the end of the log (`FirstCheckpoint`): nothing before it is
*ahead*, and what is ahead of a checkpoint that exists is delivered all the
same. What a lost checkpoint file does in that case is in section 6.

`HeadlineCatchesUp` says "in the end" and not "never goes back", because of two
overlapping runs the one that read the counters first can publish last.
`BecomesCurrent` leaves out the rows of `raced`, which come in between the two
reads of a fold (`fold_race`), and `DayWithinTotal` those and the rows of `late`, which
come in after the fold of *this* cycle has read the rows: the 24-hour figure may
see them, the total does not yet. `raced` rows are an exception for good, `late` ones
in the cycle that is publishing only.

`SpoolInOrder` leaves out `strays`, lines of a stream that was opened after a
rotation (2.2). Such a line comes too early; nothing that was read otherwise does.

`AtMostOncePerRow` lets the boards count a redelivered event again once
retention has forgotten its row (`accepted` goes up): the id is unique only
among the rows that are there.
`lifetime_store` has two runners and no redelivery, `lifetime_service` redelivery and
one runner; the theorem `CountedAtMostOnce` covers both together.

`ChartIsComplete` says of the moment at which a chart is put up that it has every
attempt of its window that was there before the cycle's fold, but for what the
retention period of that moment leaves out. It assumes no order of the two: the
run has a retention shorter than the chart, as `RETENTION_DAYS=1` would be. What could
go wrong is the *now*: the chart's is older than that of the purge which ends a
cycle, so a purge under way beside the chart would take rows that the chart owes.

`NoTwins` holds for a tool that runs under the sensor's name; its default
(`hp-hel1`) is not the shipper's, and then every line becomes a second row.

Why the bounds are enough to be interesting:

* Two events in the store: a complete login attempt, which most boards take, and
  a command of a source without geography. They differ in every condition of
  `Takes` that a row can fail. Boards never relate two events, so a second event
  serves to have a row arrive while another is being folded. Two runners meet at
  the lock, between marker and reset, and between fold and retention; a third
  adds nobody new to wait for.
* Five lines with batches of two and a spool of three: full and partial batches,
  appends while a batch is under way, a full spool, a noise line before and a
  refused event inside a batch, a file boundary at any place, and a crash during
  the recovery from a crash.
* Three arrivals with two runners: rows before, between and after the statements
  of a fold, and two different totals in the hands of two runs.
* Three clients for a table of two: evictions, and a table in which every bucket
  is dated later than now. The theorems of section 4.3 take the bounds away.
* A chart of two ticks, a day of one and a retention of one, with a clock to two:
  events inside, at the edge of and outside of the day and of retention, a chart
  that is longer than retention, and an event that expires while a cycle with an
  older `now` is under way.
* The logs of `write_path`: a batch full by count and one full by bytes, repeated
  lines, a refused event in front of, between and instead of good ones, and one
  log for each way in which a record can be odd (texts too long, of the wrong
  type, full of control characters, a line that is `null`; addresses with `::` on both
  sides, with a dotted tail after `::`, and with one that leaves one zero only). The
  strange requests have no token or another one, a method or path of no handler, a
  body that is too large or no JSON, or a URL that is none. Two faults: an outage and a recycled instance, a timeout and a lost answer.

In `lifetime_store` the runners and in `rate_limiter` the clients are symmetric; no
symmetry is used where liveness is checked.

Deadlock is checked but in three runs. In `shipper_delivery` the system really may
stop: after a short write, a further append and a crash, `load` refuses the file
at every start. In `rate_limiter` the bounds on requests and clock are reached. In
`write_path` the tool ends, and has no further run.

### 3.2 Fairness

* `LifetimeStore`, `Publication`: weak fairness of every runner's next statement.
  The interval timer or the cron schedule keeps starting runs, a run that fails
  is followed by another, and Postgres executes what it is asked. Nothing is
  assumed of inserts or of failures. The advisory lock needs no strong fairness
  where it is checked: `lifetime_service` has one runner.
* `Shipper`: weak fairness of the tailer, of the start of a flush, of the end of
  a post and of the restart (the one-second timer, the flush timer,
  `AbortSignal.timeout`, the container's restart policy), and strong fairness of
  `PostAccepted`: ingest in the end accepts a batch that is offered again and
  again *and that it would answer with 202*. A batch it always answers with 400
  gets nothing from this. Nothing is assumed of Cowrie, of crashes or of faults,
  which are bounded: delivery is claimed for a system that in the end stops
  crashing.
* `Service`: weak fairness of what Node has begun (the cycle, the requests, the
  shutdown), of the timer and of the container's restart. Nothing is assumed of
  requests to come, of signals, or of the clock.
* `WritePath`: weak fairness of each process' initialization, of each caller and
  each request. Nobody is assumed to bring the database back, to recycle an
  instance or to run the tool again; `RunsEnd` holds without, `ServiceRecovers`
  claims something only for a database that stays up from some time on.

### 3.3 Runs that find a disagreement

Each checks one statement of a comment, a document or a script against what the
code does, and TLC finds it violated.

| Run | Statement | What happens |
|---|---|---|
| `fold_race` | "Fold every not-yet-folded event … exactly once" (`repository.ts`) | a row inserted between two statements is marked folded by the final UPDATE and never reaches the boards of the statements before |
| `rebuild_race` | "never diminished by the purge", "safe by construction" (`api/cron/aggregate.ts`) | two first runs both decide to rebuild; the second rebuild follows the first purge |
| `poisoned_batch` | "deterministic event IDs make that replay harmless" (`spool.ts`) | a full batch with one refused event, stored but not acknowledged, is answered 400 for ever and blocks the FIFO |
| `stuck_instance` | "A datastore outage should read as 'temporarily unavailable'" (`api/v1/rollups.ts`) | a database that is down for a moment while a function starts leaves a rejected promise behind, and the instance answers 503 for as long as it lives |

`LaterBoardsCountMore` and `HeadlineNeverOverstates` say what is left when the fold
has raced: the error goes in one direction. `ServiceRecovers` is the property that
`stuck_instance` refutes, for the deployment in which it holds.

---------------------------------------------------------------------------

## 4. Proofs

The theorems hold for all values of the constants that satisfy the ASSUMEs of the
module: any set of events and runners, any shape of events, any number of lines,
rotations, crashes, any batch and spool size, any limits and any clock, any logs,
requests and casts of callers. A hypothesis beyond the ASSUMEs is part of the
theorem and named in the tables below.

Every invariant that a passing run checks is a theorem, and so is every action
property and refinement; what is left to TLC is liveness (4.7).

### 4.1 `LifetimeStore_proofs`

| Theorem | Statement |
|---|---|
| `TypeCorrect` | `Spec => []TypeOK` |
| `CountedAtMostOnce` | `Spec => []AtMostOncePerRow` |
| `BoardsSkewOneWay` | `Spec => []LaterBoardsCountMore` |
| `FoldIsAtomic` | `Spec => ImplementsAtomicFold` |
| `OneRunnerKeepsPurgedCounts` | with one runner, `Spec => PurgedCountsStay` |

`AtMostOncePerRow` is not inductive: a commit adds what the transaction *has
seen*, so one must know what an open transaction may have seen. `TxInv` says it,
in parts:

* `LockIsTransaction`, `OutsideClean`: the lock is held exactly by the runner with
  an open transaction, and nobody else has uncommitted writes;
* `SeenUnfolded`, `SeenTaken`, `AheadEmpty`: what was counted is still unfolded
  (nobody else folds, rebuilds or purges it), satisfies the statement's
  condition, and statements to come have counted nothing;
* `SeenNested`: a row one statement counted is counted by each later statement
  that takes it. Snapshots only grow, because unfolded rows do not go away while
  the lock is held;
* `MarkedCovers`: the final UPDATE marks everything that was counted.

`IInv` is `TypeOK /\ TxInv /\ StoredAccepted /\ AtMostOncePerRow /\
LaterBoardsCountMore`. For `FoldIsAtomic` the refinement mapping is the identity
on the four visible variables; the statement from which on a row was counted is
the least statement that saw it (`JoinPoint`), which `SeenNested` makes enough.

`PurgedCountsStay` needs `RebuildFirst`: until `cumulative_ready` is set the boards
are empty and no run is past the rebuild, and once it is set no run is before it.
So the one rebuild takes nothing off a board. The hypothesis of one runner cannot
go: `rebuild_race` has two, and the second rebuild follows the first purge.

### 4.2 `Shipper_proofs`

| Theorem | Statement |
|---|---|
| `TypeCorrect` | `Spec => []TypeOK` |
| `NothingTakenIsLost` | `Spec => [](faults = 0 => TakenIsSafe)` |
| `AlwaysRestartable` | `Spec => []Restartable` |
| `OnlyStoredIsAcked` | if `MaxFaults = 0` then `Spec => AckedIsStored` |
| `SpoolStaysInOrder` | if `PowerLoss = FALSE` then `Spec => [](faults = 0 => SpoolInOrder)` |

`TypeOK` needs more than types: that a checkpoint does not run past its file
(`ReadInv`) and that the log's files lie in order (`LogInv`); `TInv` is their
conjunction. `SInv` adds what the delivery argument needs:

* `MemInv`: while the process runs, memory holds what the file holds, and there
  is no bad record in it;
* `BatchInv`: a batch under way is the head of the FIFO, whatever has been
  appended meanwhile, so that acknowledging *by count* drops what was posted;
* `SaveInv`: between append and saveCheckpoint the line at hand is noise, refused,
  or in the spool.

`SInv` holds until the first fault (`SafeInvariance`), a short write or a failing
checkpoint write. That condition cannot go: after a short write an event is in
memory only, and a crash loses it. It is the code's own limit, not the proof's
(section 6). `AckedIsStored` is about steps, and a fault may be one of them: its
theorem takes runs without faults. Crashes, rotations, lost answers and lost
checkpoint files are unrestricted.

`SpoolInOrder` is about where the tailer goes on after a crash. `OInv` says it in
terms of lines of the log: nothing in the spool but strays is later than the line
at which the saved checkpoint resumes (`SavedInv`), which is also the tailer's own
unless it has just found the log rotated, and never past the stream's
(`ReaderInv`). A restart then repeats the last record at most, which is in order.
That a stream opened after a rotation is never behind its checkpoint is part of
`ReadInv`: files begin where earlier ones end (`LogInv`). If a checkpoint file is lost (`PowerLoss`) with `SHIPPER_REPLAY_SINCE` set,
the tailer starts anew before what the spool holds, and the order is gone: the ids
absorb that, not the FIFO.

### 4.3 `RateLimiter_proofs`, `Admission_proofs`

| Theorem | Statement, for constants that satisfy `LimiterConstants` |
|---|---|
| `NoFreeTokens` | `Spec => []WithinAllowance` |
| `DebtIsBounded` | `Spec => []DebtBounded` |
| `TableIsBounded` | `Spec => []TableBounded` |

and in `Admission_proofs`, for any clients and limits:

| Theorem | Statement |
|---|---|
| `TypeCorrect` | `Spec => []TypeOK` |
| `NobodyMintsTokens` | `Spec => []NoFreeTokens` |
| `DebtIsBounded` | `Spec => []DebtBounded` |
| `TableIsBounded` | `Spec => []TableBounded` |
| `OnlyACrowdIsRefused` | `Spec => []RefusedOnlyInACrowd` |

A bucket is an account. `Accounts` says that what a live bucket holds *and* has
paid out is covered by its creations and the refill up to its last update; only
then does `WithinAllowance`, about what was paid out alone, survive an eviction.
Time enters as `now + back`, the ticks the clock went forward, which never shrink,
so a clock that goes back and forth is nothing special. `Owed` relates a bucket
that is dated later than now to the ticks that are missing. `Room` says that a
table as large as its bound has a bucket that is not dated later than now: each
step of the clock back raises the bound by one, and that is why `evictOldest`,
which may find nothing, always finds one when it must.

`Admission` is stated with two instances of the same module. By the lemma
`EachIsALimiter`, which only unfolds the actions, `RateLimiter_proofs` can be
instantiated twice, and its invariant holds of each limiter.

What the two promise together is `AInv`: a token of a client's bucket is handed
out with one of the global bucket, and that with a request (`Handed`); while the
clock has not gone back the global bucket lacks no more than it has handed out
(`Full`). `Handed` adds up over all clients, by the lemmas on sums of
`FoldTheorems`.

### 4.4 `Publication_proofs`

| Theorem | Statement |
|---|---|
| `TypeCorrect` | `Spec => []TypeOK` |
| `NoPageOverstates` | `Spec => []HeadlineNeverOverstates` |

The number travels from the counters to a run, to `rollup_totals`, to a page.
`CopiesAreOld`: every copy on the way is at most the counter, because the counter
only grows. `BoardsInOrder`: the boards that a page compares it with are at least
the counter. `PageCovers`: once a page has its headline, every board it has read
covers it, and every board still to be read will.

### 4.5 `Service_proofs`

| Theorem | Statement |
|---|---|
| `TypeCorrect` | `Spec => []TypeOK` |
| `ChartsAreComplete` | `Spec => ChartIsComplete` |
| `DayNeverExceedsTotal` | `Spec => DayWithinTotal` |
| `FirstEventIsFirst` | `Spec => []FirstIsEarliest` |
| `PublishedNeverMovesForward` | `Spec => NeverLater` |
| `OrderlyShutdown` | `Spec => []ShutdownCutsNoPost` |

To the figures, a step of the service is one of a few things (`FiguresStep`): a
start of a cycle when none is under way, a statement or the failure of a cycle, a
write of a request, a tick, or the loss of all cycles with the process. The flag
`running` enters there and nowhere else (`StepOfFigures`), and makes `OneCycle`
inductive: `running <=> Busy # {}` holds through every failure of a cycle, because
the flag is cleared in `finally`. On that rest:

* `PurgedAreOld`: no purge has reached further than the retention period, by the clock
  and by the *now* of every cycle under way. A row is deleted with a clock that is read
  after the cycle's own, but then that cycle is over, and no other one is under
  way. `HourlyRead`: what a cycle has read for its chart lacks nothing that it owes.
* `Gathered`, from statement to statement: a marked row is counted or has raced with
  its fold; a row that is new after a fold is late; so the day's rows are counted,
  late, or raced.
* `MetaIsEarliest`: what a cycle has read of `first_event_ts` and `sensor_live_ts`,
  and what is published of them, is no earlier than what `meta` has now, since `meta`
  only moves back; and it covers every event of the total it is published with.
* `PoolLast`: no POST is accepted once the listener is closed, and the pool ends when
  none is in flight. Of pages nothing of the kind holds (section 6).

### 4.6 `WritePath_proofs`

| Theorem | Statement |
|---|---|
| `TypeCorrect` | `Spec => []TypeOK` |
| `MigrationsAgree` | `Spec => []MigrationsDoNotCollide` |
| `NothingLearnt` | `Spec => []StrangersLearnNothing` |
| `EachCountedOnce` | `Spec => []CountsAddUp` |
| `CompleteIsStored` | `Spec => []CompleteMeansStored` |
| `OneRowPerLine` | `Spec => []NoTwins` |
| `PrefixIsOfAddress` | `Spec => []PrefixOfAddress` |
| `RecordsFit` | `Spec => []MappedRecordsFit` |
| `GivesUpForCause` | if `Configured` then `Spec => []DiesForCause` |

`Next` has more than twenty actions, most of which touch a request. The proof
does not go through them once for every invariant: `Steps` lists them, `AllMove`
says what any of them does to a request (it stays, is made, turned away, goes on,
inserts a chunk, is answered, dropped, or given up by the tool), `ReplaySteps`
what it does to the tool, `RowSteps` what it does to the rows. The invariants are
proved from those.

* `RInv`: one migration at a time; one that found no tables is the first. That is
  the advisory lock, and the test of the tables comes after it.
* `SInv`: a stranger waits at the service only (a function looks at the token
  before it asks for its runtime), and his request passes no handler. The bridge may
  answer it 500, for what is no request, whatever the database does
  (`BridgeReturns`). It rests on the order of the checks: `FirstFails` and its companions say that `FirstOf`
  answers with the first check that fails.
* `ToolInv`, `AskInv`, `StoreInv`: what the tool has read is in its batch or stored
  (`Behind`); the request it waits for is for that batch, and its 202 accounts for
  every event of it (`ForBatch`); of every request on its way, of the ones given up
  too, the part inserted so far is stored (`RequestOk`); every row is that of a line
  that the schema takes, under one of the two sensor names (`RowsInv`). Rows are
  never deleted here, so what is stored stays so while requests overlap.
  `CompleteMeansStored` is `Behind` at the end of the log. `NoTwins` follows from
  `RowsInv`, because the id is a function of sensor and line.
* `PrefixOfAddress` and `MappedRecordsFit` are facts about the operators
  (`TailFacts`, `FirstHextets`, `SpecificFits`) that these invariants carry to every row and
  every line.
* `CleanInv` is about runs in which nothing has failed so far and the log holds no
  line that throws and no event that is refused: the process that serves the tool is on its way to its
  runtime, the batch fits (`BatchInv`), the request passes every check, and its
  answer is a 202; so the tool does not give up. For this the deployment has to be
  `Configured` (2.7): without a token the API refuses everybody.

### 4.7 `FoldTheorems`, and what is model-checked only

`FoldTheorems` has the induction the other proofs need. The library's induction
theorems take an operator, which the provers cannot instantiate; the lemmas here
take the least counterexample instead: of the numbers (`LeastNat`) or of the
subsets (`SmallestSet`) for which a claim fails, one is the smallest. From that
follow that the sum over a finite set is the recursive one and exists
(`SumsUpto`, `SumIsRecursive`), grows with a term (`SumGrows`) and is at least each
term (`SumCovers`); in `WritePath_proofs`, that the filter of a batch
(`ValidPart`) has exactly its valid events.

Liveness under fairness is out of the prover's reach and stays with TLC:
`EventuallyFolded`, `ExpiredEventuallyPurged`, `Delivered`, `HeadlineCatchesUp`,
`BecomesCurrent`, `RunsEnd`, `ServiceRecovers`. The four statements that runs refute
(3.3) have no theorem, of course; `OneRunnerKeepsPurgedCounts` is the part of
`PurgedCountsStay` that holds.

---------------------------------------------------------------------------

## 5. Plan

Done: the store and its abstract fold; the shipper with ingest; publication; rate
limiting; the service with its figures; the write path with the replay tool, the
handlers and the runtime; the proofs of section 4.

What is left:

1. `OnlyStoredIsAcked` up to the first fault, as its neighbours.
2. Safety parts of the liveness properties as invariants: that a started run, a
   post or an initialization has always a next step.
3. Pages in `Service` from their first query on, and not only from the end of the pool.

---------------------------------------------------------------------------

## 6. Simplifications, and known limits of the code

Simplifications:

* Statements of a fold are atomic, and a statement sees exactly the rows committed
  when it starts: that is Postgres' READ COMMITTED.
* One sensor. Several sensors have disjoint ids, and the store does not
  distinguish them.
* `InsertChunk` of `LifetimeStore` takes any set of events: what ingest validated
  and in which batches it came is the matter of the other modules.
* Time is the action `Expire` in the store, a clock in `Figures` and
  `RateLimiter`, and choice everywhere else: backoff delays, timeouts and timer
  periods have no length. In `WritePath` the current time stands still.
* SIGTERM makes the shipper run both loops once more and exit, which is what the
  loops and `Crash` do.
* In `WritePath` a limiter is a refusal that may come at any time, and a page is
  one read: `Admission` and `Publication` have the detail. The answers 429 count
  as faults, to bound them.
* Among equally old buckets `evictOldest` takes the one inserted last; the model
  takes any.

* A line of the log that is the JSON value `null` is in `Replay` and not in `Shipper`, whose
  lines are Cowrie's own, one object each. There it would stop the tailer, which
  comes back to it at every tick.
* node:http does not hand a CONNECT to the handler at all (there is no listener for
  it); `Forbidden` has it with TRACE, as `new Request` does.

Limits of the code that the models show and that no run refutes:

* Without `SHIPPER_REPLAY_SINCE` a checkpoint file lost in a power failure makes
  the shipper start at the end of the log (`shipper.ts`, `readNewLines`): what was
  written meanwhile is left to the replay tool. `shipper.ts:83-84` calls a missing
  checkpoint safe, which is so of what is *stored*, by the ids, and not of what is read.
* A rotation between `statSync` and the opening of the stream puts lines into the spool
  out of order and twice (2.2), without any fault.
* A shutdown cuts the pages that are open when the last POST has been answered
  (`index.ts:85`).
* `config.ts` takes `RETENTION_DAYS=1`, and 0.5 as 0. Retention is then shorter than the
  chart, and "both windows sit well inside the retention window, so they are always
  complete" (`aggregate.ts:16-18`) is not so. The default of 30 days satisfies it.
* An event that is delivered again after retention has removed its row is counted a
  second time: its id is not known any more.
* A line `null` in a log ends the replay tool (`map.ts:60`).
* After a short write to the spool (a full disk) the next record continues the
  partial line. The file then has a bad record in its middle, and `load` throws at
  every start. `Restartable` excludes it by `faults = 0`.
* A row that raced a fold leaves the daily and country sums above the total for
  good, and `export-archive.mjs` then refuses to save.
* Refused requests use up the global bucket of the write API.
* A replay of a batch of which one event is refused and the others are stored is
  answered 400, six times, and the tool stops there.

## 7. Not modelled

* **ATT&CK classification** (`attck.ts`): a table of regular expressions applied
  to a command. Matching strings is all it does, and texts here are lengths.
* **Configuration**, in part: numbers and ports (`intFrom`), TLS of the
  connection. `intFrom` floors after its test, so that `RETENTION_DAYS=0.5`
  becomes 0 (section 6). Also the client
  address behind a proxy, the copying of headers, the `healthz` function.
* **Archive export**: one pass over one page without state.
* **Web site**: renders a page it is given, in two languages.
* **Seed data**, the **download of geo databases**: a development and a build step.
* **Infrastructure, Cowrie**: configuration of other programs. Cowrie's log is an
  environment action of `Shipper` and the input of `Replay`.
