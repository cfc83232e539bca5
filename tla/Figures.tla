-------------------------------- MODULE Figures --------------------------------
(***************************************************************************)
(* What one cycle of the aggregation job publishes (aggregate in           *)
(* ingest/src/aggregate.ts): the hourly chart and the last-24h figure,     *)
(* recomputed from the rows that retention has left, and the totals with   *)
(* the two timestamps kept in meta.                                        *)
(*                                                                         *)
(* Every row is a login attempt with a time stamp.  Counts are the sets of *)
(* rows they count.  The fold is taken from AtomicFold: the counters see   *)
(* the rows of an early snapshot, MIN(ts) those of a later one, and all    *)
(* rows that are unfolded at the end are marked.  cumulative_ready is set. *)
(***************************************************************************)
EXTENDS Integers, FiniteSets, FiniteSetsExt

CONSTANTS
    Events, Cycles,     \* rows; cycles that may be under way at a time
    Ts,                 \* the time stamp of an event
    DayWindow,          \* ticks in the last-24h figure
    ChartWindow,        \* ticks in the hourly chart (48 h)
    Retention,          \* RETENTION_DAYS, in ticks
    None,               \* no value
    MaxTime             \* bound

\* The settings order them in no way: RETENTION_DAYS may be shorter than the
\* chart, and 0.
ASSUME WindowsAssumption == {DayWindow, ChartWindow, Retention} \subseteq Nat

ASSUME TimeAssumption ==
    /\ MaxTime \in Nat /\ None \notin 0 .. MaxTime
    /\ Ts \in [Events -> 0 .. MaxTime]

VARIABLES
    clock,          \* Date.now()
    row,            \* the row of an event
    counted,        \* the rows in the lifetime counters
    first, live,    \* meta: first_event_ts, sensor_live_ts
    chart,          \* rollup_timeseries, granularity hour
    totals,         \* rollup_totals
    pc, cycle,      \* a cycle: its next step, and what it has read so far
    raced           \* history: rows inserted between the two reads of a fold

figures == <<clock, row, counted, first, live, chart, totals, pc, cycle, raced>>

Time == 0 .. MaxTime
Step == {"idle", "fold", "commit", "hourly", "chart", "day", "first", "live", "totals", "purge"}

\* late is history: the rows inserted since the cycle's fold has read the rows.
Blank == [at |-> 0, seen |-> {}, late |-> {}, hourly |-> {}, day |-> {},
          first |-> None, live |-> None]

Unpublished == [total |-> {}, day |-> {}, first |-> None, live |-> None]

FiguresInit ==
    /\ clock = 0
    /\ row = [e \in Events |-> "absent"]
    /\ counted = {} /\ first = None /\ live = None
    /\ chart = {} /\ totals = Unpublished
    /\ pc = [c \in Cycles |-> "idle"]
    /\ cycle = [c \in Cycles |-> Blank]
    /\ raced = {}

Stored == {e \in Events : row[e] \in {"new", "folded"}}

\* The rows of the running tick are left for the next cycle (mutant).
Unfolded_Past == {e \in Events : row[e] = "new" /\ Ts[e] < clock}

Unfolded == {e \in Events : row[e] = "new"}

\* keepEarliestMeta keeps the later value (mutant).
KeepEarliest_Latest(stored, t) == IF stored = None \/ t > stored THEN t ELSE stored

\* keepEarliestMeta: a restarted sensor must not push the value forward.
KeepEarliest(stored, t) == IF stored = None \/ t < stored THEN t ELSE stored

-------------------------------------------------------------------------------
(* What the write API does to these tables *)

\* recordSensorLive
RecordSensorLive(t) ==
    /\ live' = KeepEarliest(live, t)
    /\ UNCHANGED <<clock, row, counted, first, chart, totals, pc, cycle, raced>>

\* insertEvents, one event.  Its id is unknown again once retention has
\* deleted its row.
InsertEvent(e) ==
    /\ row' = [row EXCEPT ![e] = IF e \in Stored THEN @ ELSE "new"]
    /\ raced' = IF e \notin Stored /\ \E c \in Cycles : pc[c] = "commit"
                THEN raced \cup {e} ELSE raced
    /\ cycle' = [c \in Cycles |->
                    IF e \notin Stored /\ pc[c] \notin {"idle", "fold"}
                    THEN [cycle[c] EXCEPT !.late = @ \cup {e}] ELSE cycle[c]]
    /\ UNCHANGED <<clock, counted, first, live, chart, totals, pc>>

Tick ==
    /\ clock < MaxTime
    /\ clock' = clock + 1
    /\ UNCHANGED <<row, counted, first, live, chart, totals, pc, cycle, raced>>

-------------------------------------------------------------------------------
(* One cycle: aggregate(repo), then enforceRetention(repo, retentionDays). *)

Goto(c, from, to) == pc[c] = from /\ pc' = [pc EXCEPT ![c] = to]

Reads(c, field, value) ==
    /\ cycle' = [cycle EXCEPT ![c][field] = value]
    /\ UNCHANGED <<clock, row, counted, first, live, chart, totals, raced>>

\* aggregate() takes its now when it is called.
StartCycle(c) ==
    /\ Goto(c, "idle", "fold")
    /\ Reads(c, "at", clock)

\* foldNewEvents takes the lock and reads the rows for the counters ...
BeginFold(c) ==
    /\ Goto(c, "fold", "commit")
    /\ \A d \in Cycles : pc[d] # "commit"
    /\ Reads(c, "seen", Unfolded)

\* MIN(ts) is queried after the UPDATE and finds no unfolded row (mutant).
Earliest_AfterUpdate(c) == {}

\* The time stamps of rows that the counters and MIN(ts) both saw.
Earliest(c) == {Ts[e] : e \in cycle[c].seen}

\* ... and commits: counters, first_event_ts, folded = TRUE.  MIN(ts) is read
\* later than the counters and may have seen more rows.
CommitFold(c) ==
    /\ Goto(c, "commit", "hourly")
    /\ counted' = counted \cup cycle[c].seen
    /\ \E more \in SUBSET (Unfolded \ cycle[c].seen) :
        LET times == Earliest(c) \cup {Ts[e] : e \in more} IN
        first' = IF times = {} THEN first ELSE KeepEarliest(first, Min(times))
    /\ row' = [e \in Events |-> IF row[e] = "new" THEN "folded" ELSE row[e]]
    /\ UNCHANGED <<clock, live, chart, totals, cycle, raced>>

\* The rows of the last w ticks, as of the cycle's now.
InWindow(c, w) == {e \in Stored : Ts[e] >= cycle[c].at - w}

QueryHourly(c) ==
    /\ Goto(c, "hourly", "chart")
    /\ Reads(c, "hourly", InWindow(c, ChartWindow))

\* replaceHourlyTimeseries
ReplaceHourly(c) ==
    /\ Goto(c, "chart", "day")
    /\ chart' = cycle[c].hourly
    /\ UNCHANGED <<clock, row, counted, first, live, totals, cycle, raced>>

QueryDay(c) ==
    /\ Goto(c, "day", "first")
    /\ Reads(c, "day", InWindow(c, DayWindow))

ReadFirst(c) == Goto(c, "first", "live") /\ Reads(c, "first", first)

ReadLive(c) == Goto(c, "live", "totals") /\ Reads(c, "live", live)

\* The new row of totals, with getCounter.
Published(c) == [total |-> counted, day |-> cycle[c].day,
                 first |-> cycle[c].first, live |-> cycle[c].live]

\* replaceRollup("rollup_totals", ...)
PublishTotals(c) ==
    /\ Goto(c, "totals", "purge")
    /\ totals' = Published(c)
    /\ UNCHANGED <<clock, row, counted, first, live, chart, cycle, raced>>

\* RETENTION_DAYS is taken for hours (mutant).
Expired_TooSoon(e) == row[e] = "folded" /\ Ts[e] < clock - Retention \div 24

Expired(e) == row[e] = "folded" /\ Ts[e] < clock - Retention

\* deleteEventsBefore, with a now of its own.
EnforceRetention(c) ==
    /\ Goto(c, "purge", "idle")
    /\ row' = [e \in Events |-> IF Expired(e) THEN "purged" ELSE row[e]]
    /\ cycle' = [cycle EXCEPT ![c] = Blank]
    /\ UNCHANGED <<clock, counted, first, live, chart, totals, raced>>

\* A statement fails: ROLLBACK, and the cycle is over.
AbortCycle(c) ==
    /\ pc[c] # "idle"
    /\ pc' = [pc EXCEPT ![c] = "idle"]
    /\ cycle' = [cycle EXCEPT ![c] = Blank]
    /\ UNCHANGED <<clock, row, counted, first, live, chart, totals, raced>>

CycleStep(c) ==
    \/ BeginFold(c) \/ CommitFold(c)
    \/ QueryHourly(c) \/ ReplaceHourly(c)
    \/ QueryDay(c) \/ ReadFirst(c) \/ ReadLive(c) \/ PublishTotals(c)
    \/ EnforceRetention(c)
===============================================================================
