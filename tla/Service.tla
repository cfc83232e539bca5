-------------------------------- MODULE Service --------------------------------
(***************************************************************************)
(* The long-running ingest service (ingest/src/index.ts): it boots, runs   *)
(* the aggregation job once, then listens and runs the job on a timer; on  *)
(* SIGTERM it stops listening, lets the requests in flight finish, ends    *)
(* the pool and exits; the container starts it again.                      *)
(*                                                                         *)
(* A request is the POST of one event by the shipper, which posts it again *)
(* until it is answered, or the GET of a page from the read listener.      *)
(* Modules Figures and IngestApi have what the job and the handler do to   *)
(* the database.                                                           *)
(***************************************************************************)
EXTENDS Figures

CONSTANTS
    Boot,               \* sensor_boot_ts of the batch that carries an event
    Pages,              \* requests GET /v1/rollups that may be open at a time
    MaxFaults, MaxSignals                   \* bounds

ASSUME BootAssumption == Boot \in [Events -> Time]
ASSUME PagesAssumption == Pages \cap Events = {}

VARIABLES
    proc,           \* where the process is
    timer,          \* setInterval is on
    running,        \* the flag of runJobs
    post,           \* the request that carries an event
    open,           \* pages that were open when the pool ended
    cut,            \* history: requests that the last shutdown cut
    faults,         \* failed queries, and crashes
    signals         \* SIGTERMs

bounds == <<faults, signals>>
requests == <<post, open, cut>>
vars == <<figures, proc, timer, running, requests, bounds>>

Phase == {"down", "boot", "first", "up", "closing", "ending"}
Stage == {"idle", "record", "insert", "reply", "answered"}

Init ==
    /\ FiguresInit
    /\ proc = "down" /\ timer = FALSE /\ running = FALSE
    /\ post = [e \in Events |-> "idle"]
    /\ open = {} /\ cut = {}
    /\ faults = 0 /\ signals = 0

InFlight == {e \in Events : post[e] \in {"record", "insert", "reply"}}

Busy == {c \in Cycles : pc[c] # "idle"}

\* pool.end() was called: connections in use are given back, no more are lent.
PoolEnded == proc = "ending"

-------------------------------------------------------------------------------
(* The process *)

\* loadConfig, migrate, buildEnricher.
StartUp ==
    /\ proc = "down"
    /\ proc' = "boot" /\ cut' = {}
    /\ UNCHANGED <<figures, timer, running, post, open, bounds>>

\* The pool, the cycles and the requests of a process that is gone.
Gone ==
    /\ proc' = "down" /\ timer' = FALSE /\ running' = FALSE
    /\ pc' = [c \in Cycles |-> "idle"]
    /\ cycle' = [c \in Cycles |-> Blank]
    /\ post' = [e \in Events |-> IF e \in InFlight THEN "idle" ELSE post[e]]
    /\ open' = {}
    /\ UNCHANGED <<clock, row, counted, first, live, chart, totals, raced>>

\* A throw in top-level await (database down), a signal before its handler is
\* installed, SIGKILL.
Crash ==
    /\ proc # "down" /\ faults < MaxFaults
    /\ faults' = faults + 1
    /\ Gone
    /\ UNCHANGED <<cut, signals>>

\* runJobs skips rather than queues.
MayRun == ~running

\* runJobs: the first call before anything listens, the others on the timer.
RunJobs(c) ==
    /\ proc = "boot" \/ timer
    /\ MayRun
    /\ running' = TRUE
    /\ proc' = IF proc = "boot" THEN "first" ELSE proc
    /\ StartCycle(c)
    /\ UNCHANGED <<timer, requests, bounds>>

\* Signal handlers, timer and listeners are set up when the first cycle is
\* over, however it ended.
Listen ==
    /\ proc = "first" /\ ~running
    /\ proc' = "up" /\ timer' = TRUE
    /\ UNCHANGED <<figures, running, requests, bounds>>

\* SIGTERM: clearInterval, server.close.
Signal ==
    /\ proc = "up" /\ signals < MaxSignals
    /\ signals' = signals + 1
    /\ proc' = "closing" /\ timer' = FALSE
    /\ UNCHANGED <<figures, running, requests, faults>>

\* Node calls back without waiting for requests (mutant).
Drained_AtOnce == TRUE

\* server.close calls back when the last POST has been answered.
Drained == InFlight = {}

\* readServer.close() only ends the listening: the pool ends under whatever
\* pages are open.  (Until then a page has no part in what is modelled here:
\* Publication has its queries.)
EndPool ==
    /\ proc = "closing" /\ Drained
    /\ proc' = "ending"
    /\ open' \in SUBSET Pages
    /\ UNCHANGED <<figures, timer, running, post, cut, bounds>>

\* sql.close() is done when no connection is in use: the fold's transaction
\* has come to its end.  process.exit waits for nobody.
Exit ==
    /\ PoolEnded /\ \A c \in Cycles : pc[c] # "commit"
    /\ cut' = cut \cup InFlight \cup open
    /\ Gone
    /\ UNCHANGED bounds

-------------------------------------------------------------------------------
(* The cycle under way *)

\* The flag stays set when a cycle fails (mutant): no finally.
Released_OnSuccess(ok) == ~ok

\* The finally of runJobs.
Released(ok) == FALSE

\* A transaction that is open may go on after pool.end(), nothing else may.
JobStep(c) ==
    /\ PoolEnded => pc[c] = "commit"
    /\ CycleStep(c)
    /\ running' = IF pc'[c] = "idle" THEN Released(TRUE) ELSE running
    /\ UNCHANGED <<proc, timer, requests, bounds>>

\* A query fails, or is refused by a pool that has ended.
JobFails(c) ==
    /\ IF PoolEnded /\ pc[c] # "commit" THEN faults' = faults
       ELSE faults < MaxFaults /\ faults' = faults + 1
    /\ AbortCycle(c)
    /\ running' = Released(FALSE)
    /\ UNCHANGED <<proc, timer, requests, signals>>

-------------------------------------------------------------------------------
(* A request *)

\* The shipper posts an event that happened and was not answered yet.
Accept(e) ==
    /\ proc = "up" /\ post[e] = "idle" /\ Ts[e] <= clock
    /\ post' = [post EXCEPT ![e] = "record"]
    /\ UNCHANGED <<figures, proc, timer, running, open, cut, bounds>>

Answer(e, from, to) ==
    /\ post[e] = from
    /\ post' = [post EXCEPT ![e] = to]
    /\ UNCHANGED <<proc, timer, running, open, cut, bounds>>

\* recordSensorLive, before the events of the batch are looked at.
RecordBoot(e) ==
    /\ ~PoolEnded
    /\ Answer(e, "record", "insert")
    /\ RecordSensorLive(Boot[e])

\* insertEvents
Store(e) ==
    /\ ~PoolEnded
    /\ Answer(e, "insert", "reply")
    /\ InsertEvent(e)

\* 202
Reply(e) == Answer(e, "reply", "answered") /\ UNCHANGED figures

\* A query fails or is refused by a pool that has ended, 500; or the answer does
\* not arrive.
PostFails(e) ==
    /\ e \in InFlight
    /\ IF PoolEnded THEN faults' = faults ELSE faults < MaxFaults /\ faults' = faults + 1
    /\ cut' = IF PoolEnded THEN cut \cup {e} ELSE cut
    /\ post' = [post EXCEPT ![e] = "idle"]
    /\ UNCHANGED <<figures, proc, timer, running, open, signals>>

-------------------------------------------------------------------------------
(* A page that is still open when the pool ends: GET /v1/rollups *)

\* 200: its last queries have had their connections, and process.exit was not
\* faster than the answer.
AnswerPage(p) ==
    /\ p \in open
    /\ open' = open \ {p}
    /\ UNCHANGED <<figures, proc, timer, running, post, cut, bounds>>

\* 500: a query of buildDashboard is refused by the pool.
PageRefused(p) ==
    /\ p \in open
    /\ open' = open \ {p} /\ cut' = cut \cup {p}
    /\ UNCHANGED <<figures, proc, timer, running, post, bounds>>

TimePasses == Tick /\ UNCHANGED <<proc, timer, running, requests, bounds>>

Process == StartUp \/ (\E c \in Cycles : RunJobs(c)) \/ Listen \/ EndPool \/ Exit

Job == \E c \in Cycles : JobStep(c) \/ JobFails(c)

Request == \E e \in Events : RecordBoot(e) \/ Store(e) \/ Reply(e) \/ PostFails(e)

Page == \E p \in Pages : AnswerPage(p) \/ PageRefused(p)

Next ==
    \/ Process \/ Crash \/ Signal
    \/ Job
    \/ Request \/ (\E e \in Events : Accept(e))
    \/ Page
    \/ TimePasses

Spec == Init /\ [][Next]_vars

\* Node goes on with what it has begun, the interval timer fires again and
\* again, the container restarts the process.
FairSpec ==
    /\ Spec
    /\ WF_vars(StartUp) /\ WF_vars(Listen) /\ WF_vars(EndPool) /\ WF_vars(Exit)
    /\ WF_vars(\E c \in Cycles : RunJobs(c))
    /\ WF_vars(Job)
    /\ WF_vars(Request)

-------------------------------------------------------------------------------
(* Properties *)

OptTime == Time \cup {None}

TypeOK ==
    /\ clock \in Time
    /\ row \in [Events -> {"absent", "new", "folded", "purged"}]
    /\ counted \subseteq Events /\ chart \subseteq Events
    /\ first \in OptTime /\ live \in OptTime
    /\ totals \in [total : SUBSET Events, day : SUBSET Events,
                   first : OptTime, live : OptTime]
    /\ pc \in [Cycles -> Step]
    /\ proc \in Phase /\ timer \in BOOLEAN /\ running \in BOOLEAN
    /\ post \in [Events -> Stage] /\ open \subseteq Pages
    /\ timer => proc = "up"
    /\ running <=> Busy # {}

\* An hourly chart that is put up has every attempt of its window that was ever
\* stored before the cycle's fold, but for what the retention period of that
\* moment leaves out: no purge has reached further, whenever its now was taken.
Owed(c) ==
    {e \in Events : /\ row[e] # "absent" /\ e \notin cycle[c].late
                    /\ Ts[e] >= cycle[c].at - ChartWindow
                    /\ Ts[e] >= cycle[c].at - Retention}

ChartIsComplete ==
    [][\A c \in Cycles : ReplaceHourly(c) => Owed(c) \subseteq chart']_vars

\* The last-24h figure counts no attempt that the lifetime total published with
\* it leaves out, but for attempts that came in after this cycle's fold had read
\* the rows, and those that raced with an earlier fold and are in no total ever.
DayWithinTotal ==
    [][\A c \in Cycles : PublishTotals(c) =>
          totals'.day \subseteq totals'.total \cup cycle[c].late \cup raced]_vars

\* The first event is published with the total, and is no later than any
\* event the total counts, whether its row is still there or not.
FirstIsEarliest ==
    \A e \in totals.total : totals.first # None /\ totals.first <= Ts[e]

\* Once published, "live since" and the first event never move forward,
\* through restarts of sensor and service and cycles that fail.
Later(old, new) == old # None /\ (new = None \/ new > old)

NeverLater ==
    [][~Later(totals.first, totals'.first) /\ ~Later(totals.live, totals'.live)]_vars

\* SIGTERM cuts no POST: what the sensor's listener has accepted is answered
\* before the pool ends.  The pages it may cut are those of the read listener.
ShutdownCutsNoPost == cut \cap Events = {}

\* Jobs that fail, crashes and shutdowns do not keep the figures from
\* becoming current, with every answered event in them, but for those that
\* came in between the two reads of a fold.
BecomesCurrent ==
    \A e \in Events :
        post[e] = "answered" /\ e \notin raced ~> e \in totals.total
===============================================================================
