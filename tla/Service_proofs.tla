---------------------------- MODULE Service_proofs ----------------------------
(***************************************************************************)
(* What the service publishes, for any events and time stamps, any windows *)
(* and any retention period, any number of crashes and signals.            *)
(*                                                                         *)
(* To the figures a step of the service is one of a few things             *)
(* (FiguresStep); the flag of runJobs enters only as: a cycle is started   *)
(* when none is under way.                                                 *)
(***************************************************************************)
EXTENDS Service, FoldTheorems

(* The shape of the state. *)

\* What a cycle has read so far.
Reading == [at : Time, seen : SUBSET Events, late : SUBSET Events, hourly : SUBSET Events,
            day : SUBSET Events, first : OptTime, live : OptTime]

\* The tables, and what a cycle has read.
FiguresType ==
    /\ clock \in Time
    /\ row \in [Events -> {"absent", "new", "folded", "purged"}]
    /\ counted \subseteq Events /\ chart \subseteq Events
    /\ first \in OptTime /\ live \in OptTime
    /\ totals \in [total : SUBSET Events, day : SUBSET Events,
                   first : OptTime, live : OptTime]
    /\ pc \in [Cycles -> Step]
    /\ cycle \in [Cycles -> Reading]

\* runJobs skips rather than queues.
OneCycle == \A c, d \in Busy : c = d

-----------------------------------------------------------------------------
(* What a step of the service is to the figures. *)

\* The cycles of a process that is gone.
Restart ==
    /\ pc' = [c \in Cycles |-> "idle"]
    /\ cycle' = [c \in Cycles |-> Blank]
    /\ UNCHANGED <<clock, row, counted, first, live, chart, totals, raced>>

FiguresStep ==
    \/ UNCHANGED figures
    \/ Restart
    \/ \E c \in Cycles : Busy = {} /\ StartCycle(c)
    \/ \E c \in Cycles : CycleStep(c) \/ AbortCycle(c)
    \/ \E t \in Time : RecordSensorLive(t)
    \/ \E e \in Events : InsertEvent(e)
    \/ Tick

\* The process, its flag and its requests.
ProcessType ==
    /\ proc \in Phase /\ timer \in BOOLEAN /\ running \in BOOLEAN
    /\ post \in [Events -> Stage] /\ open \subseteq Pages
    /\ timer => proc = "up"
    /\ running <=> Busy # {}

\* Every step of the service is a FiguresStep; runJobs starts a cycle only when
\* none is under way, because the flag says so (ProcessType).
LEMMA StepOfFigures ==
    ASSUME ProcessType, [Next]_vars
    PROVE  FiguresStep
  <1>1. CASE UNCHANGED vars
    BY <1>1 DEF vars, FiguresStep
  <1>2. CASE StartUp \/ Listen \/ Signal \/ EndPool \/ Page \/ \E e \in Events : Accept(e)
    BY <1>2 DEF StartUp, Listen, Signal, EndPool, Page, AnswerPage, PageRefused, Accept,
       FiguresStep
  <1>3. CASE Exit \/ Crash
    BY <1>3 DEF Exit, Crash, Gone, Restart, FiguresStep
  <1>4. ASSUME NEW c \in Cycles, RunJobs(c)
        PROVE  FiguresStep
    BY <1>4 DEF RunJobs, MayRun, ProcessType, FiguresStep
  <1>5. ASSUME NEW c \in Cycles, JobStep(c) \/ JobFails(c)
        PROVE  FiguresStep
    BY <1>5 DEF JobStep, JobFails, FiguresStep
  <1>6. ASSUME NEW e \in Events, RecordBoot(e) \/ Store(e) \/ Reply(e) \/ PostFails(e)
        PROVE  FiguresStep
    BY <1>6, BootAssumption DEF RecordBoot, Store, Reply, PostFails, FiguresStep
  <1>7. CASE TimePasses
    BY <1>7 DEF TimePasses, FiguresStep
  <1>. QED
    BY <1>1, <1>2, <1>3, <1>4, <1>5, <1>6, <1>7 DEF Next, Process, Job, Request

-----------------------------------------------------------------------------
(* Types. *)

\* Some time stamp of a set is the earliest.
LEMMA MinOfTimes ==
    ASSUME NEW S \in SUBSET Time, S # {}
    PROVE  Min(S) \in S /\ \A t \in S : Min(S) <= t
  <1>1. PICK x \in S : \A y \in S : x <= y
    <2>1. S \in SUBSET Nat
      BY TimeAssumption DEF Time
    <2>. QED
      BY <2>1, LeastNat
  <1>. QED
    BY <1>1 DEF Min

\* A commit moves first_event_ts back, or leaves it, and to a time no later than
\* that of any row the counters have seen.
LEMMA FirstAfterFold ==
    ASSUME FiguresType, NEW c \in Cycles, CommitFold(c)
    PROVE  /\ first' \in OptTime
           /\ first # None => first' # None /\ first' <= first
           /\ \A e \in cycle[c].seen : first' # None /\ first' <= Ts[e]
  <1>. USE DEF FiguresType, Reading
  <1>1. PICK more \in SUBSET (Unfolded \ cycle[c].seen) :
          first' = IF Earliest(c) \cup {Ts[e] : e \in more} = {} THEN first
                   ELSE KeepEarliest(first, Min(Earliest(c) \cup {Ts[e] : e \in more}))
    BY DEF CommitFold
  <1>. DEFINE times == Earliest(c) \cup {Ts[e] : e \in more}
  <1>2. times \in SUBSET Time
    BY TimeAssumption DEF Earliest, Unfolded, Time
  <1>3. \A e \in cycle[c].seen : Ts[e] \in times
    BY DEF Earliest
  <1>4. CASE times = {}
    <2>1. first' = first /\ cycle[c].seen = {}
      BY <1>1, <1>3, <1>4
    <2>2. first # None => first \in Int
      BY TimeAssumption DEF OptTime, Time
    <2>. QED
      BY <2>1, <2>2
  <1>5. CASE times # {}
    <2>1. Min(times) \in times /\ \A t \in times : Min(times) <= t
      BY <1>2, <1>5, MinOfTimes
    <2>2. first' = KeepEarliest(first, Min(times))
      BY <1>1, <1>5
    <2>3. PICK m \in Time : m = Min(times)
      BY <1>2, <2>1
    <2>4. \A e \in cycle[c].seen : m <= Ts[e]
      BY <1>3, <2>1, <2>3
    <2>5. cycle[c].seen \subseteq Events /\ \A e \in Events : Ts[e] \in Time
      BY TimeAssumption DEF Time
    <2>6. first = None \/ first \in Time
      BY DEF OptTime
    <2>7. /\ first' = m \/ first' = first
          /\ first' # None /\ first' <= m
          /\ first # None => first' <= first
      <3>1. m # None /\ m \in Int
        BY <2>3, TimeAssumption DEF Time
      <3>2. CASE first = None
        BY <2>2, <2>3, <3>1, <3>2 DEF KeepEarliest
      <3>3. CASE first \in Time
        <4>1. first \in Int /\ first # None
          BY <3>3, TimeAssumption DEF Time
        <4>. QED
          BY <2>2, <2>3, <3>1, <4>1 DEF KeepEarliest
      <3>. QED
        BY <2>6, <3>2, <3>3
    <2>8. first' \in Time
      BY <2>3, <2>6, <2>7, TimeAssumption DEF Time
    <2>9. ASSUME NEW e \in cycle[c].seen
          PROVE  first' <= Ts[e]
      <3>1. e \in Events /\ Ts[e] \in Int /\ m \in Int /\ m <= Ts[e]
        BY <2>3, <2>4, <2>5, TimeAssumption DEF Time
      <3>2. first' \in Int /\ first' <= m
        BY <2>7, <2>8, TimeAssumption DEF Time
      <3>. QED
        BY <3>1, <3>2
    <2>. QED
      BY <2>7, <2>8, <2>9 DEF OptTime
  <1>. QED
    BY <1>4, <1>5

\* A cycle that has read one thing more.
LEMMA ReadingKept ==
    ASSUME cycle \in [Cycles -> Reading], NEW c \in Cycles
    PROVE  /\ \A t \in OptTime : [cycle EXCEPT ![c]["first"] = t] \in [Cycles -> Reading]
           /\ \A t \in OptTime : [cycle EXCEPT ![c]["live"] = t] \in [Cycles -> Reading]
           /\ \A E \in SUBSET Events : [cycle EXCEPT ![c]["hourly"] = E] \in [Cycles -> Reading]
           /\ \A E \in SUBSET Events : [cycle EXCEPT ![c]["day"] = E] \in [Cycles -> Reading]
  <1>1. \A t \in OptTime : [cycle EXCEPT ![c]["first"] = t] \in [Cycles -> Reading]
    BY DEF Reading
  <1>2. \A t \in OptTime : [cycle EXCEPT ![c]["live"] = t] \in [Cycles -> Reading]
    BY DEF Reading
  <1>3. \A E \in SUBSET Events : [cycle EXCEPT ![c]["hourly"] = E] \in [Cycles -> Reading]
    BY DEF Reading
  <1>4. \A E \in SUBSET Events : [cycle EXCEPT ![c]["day"] = E] \in [Cycles -> Reading]
    BY DEF Reading
  <1>. QED
    BY <1>1, <1>2, <1>3, <1>4

\* The tables and the readings of a cycle keep their types.
LEMMA FiguresTypeKept ==
    ASSUME FiguresType, FiguresStep
    PROVE  FiguresType'
  <1>. USE DEF FiguresType, Step
  <1>1. CASE UNCHANGED figures
    BY <1>1 DEF figures
  <1>2. CASE Restart
    BY <1>2, TimeAssumption DEF Restart, Blank, Reading, Time, OptTime
  <1>3. ASSUME NEW c \in Cycles, StartCycle(c)
        PROVE  FiguresType'
    BY <1>3 DEF StartCycle, Goto, Reads, Reading, Time, OptTime
  <1>4. ASSUME NEW c \in Cycles, CycleStep(c)
        PROVE  FiguresType'
    <2>1. CASE BeginFold(c)
      BY <2>1 DEF BeginFold, Goto, Reads, Unfolded, Reading
    <2>2. CASE CommitFold(c)
      <3>1. first' \in OptTime
        BY <2>2, FirstAfterFold
      <3>. QED
        BY <2>2, <3>1 DEF CommitFold, Goto, Reading, Time, OptTime
    <2>3. CASE QueryHourly(c) \/ QueryDay(c)
      <3>1. \A w : InWindow(c, w) \subseteq Events
        BY DEF InWindow, Stored
      <3>2. CASE QueryHourly(c)
        <4>1. cycle' \in [Cycles -> Reading]
          <5>1. cycle' = [cycle EXCEPT ![c]["hourly"] = InWindow(c, ChartWindow)]
            BY <3>2 DEF QueryHourly, Reads
          <5>. QED
            BY <3>1, <5>1, ReadingKept
        <4>. QED
          BY <3>2, <4>1 DEF QueryHourly, Goto, Reads
      <3>3. CASE QueryDay(c)
        <4>1. cycle' \in [Cycles -> Reading]
          <5>1. cycle' = [cycle EXCEPT ![c]["day"] = InWindow(c, DayWindow)]
            BY <3>3 DEF QueryDay, Reads
          <5>. QED
            BY <3>1, <5>1, ReadingKept
        <4>. QED
          BY <3>3, <4>1 DEF QueryDay, Goto, Reads
      <3>. QED
        BY <2>3, <3>2, <3>3
    <2>4. CASE ReplaceHourly(c)
      BY <2>4 DEF ReplaceHourly, Goto, Reading, Time, OptTime
    <2>5. CASE ReadFirst(c) \/ ReadLive(c)
      <3>1. CASE ReadFirst(c)
        <4>1. cycle' = [cycle EXCEPT ![c]["first"] = first]
          BY <3>1 DEF ReadFirst, Reads
        <4>2. cycle' \in [Cycles -> Reading]
          BY <4>1, ReadingKept
        <4>. QED
          BY <3>1, <4>2 DEF ReadFirst, Goto, Reads
      <3>2. CASE ReadLive(c)
        <4>1. cycle' = [cycle EXCEPT ![c]["live"] = live]
          BY <3>2 DEF ReadLive, Reads
        <4>2. cycle' \in [Cycles -> Reading]
          BY <4>1, ReadingKept
        <4>. QED
          BY <3>2, <4>2 DEF ReadLive, Goto, Reads
      <3>. QED
        BY <2>5, <3>1, <3>2
    <2>6. CASE PublishTotals(c)
      BY <2>6 DEF PublishTotals, Published, Goto, Reading
    <2>7. CASE EnforceRetention(c)
      BY <2>7, TimeAssumption DEF EnforceRetention, Goto, Blank, Expired, Reading, Time, OptTime
    <2>. QED
      BY <1>4, <2>1, <2>2, <2>3, <2>4, <2>5, <2>6, <2>7 DEF CycleStep
  <1>5. ASSUME NEW c \in Cycles, AbortCycle(c)
        PROVE  FiguresType'
    BY <1>5, TimeAssumption DEF AbortCycle, Blank, Reading, Time, OptTime
  <1>6. ASSUME NEW t \in Time, RecordSensorLive(t)
        PROVE  FiguresType'
    BY <1>6 DEF RecordSensorLive, KeepEarliest, OptTime
  <1>7. ASSUME NEW e \in Events, InsertEvent(e)
        PROVE  FiguresType'
    BY <1>7 DEF InsertEvent, Reading, Time, OptTime
  <1>8. CASE Tick
    BY <1>8, TimeAssumption DEF Tick, Time
  <1>. QED
    BY <1>1, <1>2, <1>3, <1>4, <1>5, <1>6, <1>7, <1>8 DEF FiguresStep
-----------------------------------------------------------------------------
(* One cycle. *)

\* A cycle that is under way stays alone.
LEMMA OneCycleKept ==
    ASSUME FiguresType, OneCycle, FiguresStep
    PROVE  OneCycle'
  <1>. USE DEF OneCycle, Busy, FiguresType
  <1>1. CASE UNCHANGED figures
    BY <1>1 DEF figures
  <1>2. CASE Restart
    BY <1>2 DEF Restart
  <1>3. ASSUME NEW c \in Cycles, Busy = {}, StartCycle(c)
        PROVE  OneCycle'
    BY <1>3 DEF StartCycle, Goto
  <1>4. ASSUME NEW c \in Cycles, CycleStep(c) \/ AbortCycle(c)
        PROVE  OneCycle'
    <2>1. pc[c] # "idle" /\ \E to \in Step : pc' = [pc EXCEPT ![c] = to]
      BY <1>4 DEF CycleStep, AbortCycle, Goto, Step, BeginFold, CommitFold, QueryHourly,
         ReplaceHourly, QueryDay, ReadFirst, ReadLive, PublishTotals, EnforceRetention
    <2>. QED
      BY <2>1
  <1>5. CASE \/ \E t \in Time : RecordSensorLive(t)
             \/ \E e \in Events : InsertEvent(e)
             \/ Tick
    BY <1>5 DEF RecordSensorLive, InsertEvent, Tick
  <1>. QED
    BY <1>1, <1>2, <1>3, <1>4, <1>5 DEF FiguresStep

-----------------------------------------------------------------------------
(* Retention and the hourly chart. *)

\* A purge has reached no further than the retention period, by the clock and by
\* the now of every cycle under way.
PurgedAreOld ==
    \A e \in Events : row[e] = "purged" =>
        /\ Ts[e] < clock - Retention
        /\ \A c \in Busy : Ts[e] < cycle[c].at - Retention

\* What a cycle has read for its chart lacks nothing that the chart owes.
HourlyRead == \A c \in Cycles : pc[c] = "chart" => Owed(c) \subseteq cycle[c].hourly

\* A row is deleted with the clock of the deletion, a chart is drawn with that
\* of the start of its cycle, and no cycle is under way when one deletes but
\* that one, which is over.
LEMMA PurgedKept ==
    ASSUME FiguresType, OneCycle, PurgedAreOld, FiguresStep
    PROVE  PurgedAreOld'
  <1>. USE TimeAssumption, WindowsAssumption DEF PurgedAreOld, Busy, FiguresType, Reading, Time
  <1>1. CASE UNCHANGED figures
    BY <1>1 DEF figures
  <1>2. CASE Restart
    BY <1>2 DEF Restart
  <1>3. ASSUME NEW c \in Cycles, StartCycle(c)
        PROVE  PurgedAreOld'
    BY <1>3 DEF StartCycle, Goto, Reads
  <1>4. ASSUME NEW c \in Cycles, CycleStep(c)
        PROVE  PurgedAreOld'
    <2>1. CASE EnforceRetention(c)
      <3>1. \A d \in Cycles : pc'[d] = "idle"
        BY <2>1 DEF EnforceRetention, Goto, OneCycle
      <3>. QED
        BY <2>1, <3>1 DEF EnforceRetention, Expired
    <2>2. CASE ~EnforceRetention(c)
      <3>1. /\ clock' = clock
            /\ \A e \in Events : row'[e] = "purged" => row[e] = "purged"
        BY <1>4, <2>2 DEF CycleStep, Reads, BeginFold, CommitFold, QueryHourly,
           ReplaceHourly, QueryDay, ReadFirst, ReadLive, PublishTotals
      <3>2. \A d \in Cycles : cycle'[d].at = cycle[d].at
        <4>1. CASE \E f \in {"seen", "hourly", "day", "first", "live"} : \E v : Reads(c, f, v)
          BY <4>1 DEF Reads
        <4>2. CASE UNCHANGED cycle
          BY <4>2
        <4>. QED
          BY <1>4, <2>2, <4>1, <4>2 DEF CycleStep, BeginFold, CommitFold, QueryHourly,
             ReplaceHourly, QueryDay, ReadFirst, ReadLive, PublishTotals
      <3>3. \A d \in Cycles : pc'[d] # "idle" => pc[d] # "idle"
        BY <1>4, <2>2 DEF CycleStep, Goto, BeginFold, CommitFold, QueryHourly,
           ReplaceHourly, QueryDay, ReadFirst, ReadLive, PublishTotals
      <3>. QED
        BY <3>1, <3>2, <3>3
    <2>. QED
      BY <2>1, <2>2
  <1>5. ASSUME NEW c \in Cycles, AbortCycle(c)
        PROVE  PurgedAreOld'
    BY <1>5 DEF AbortCycle
  <1>6. ASSUME NEW e \in Events, InsertEvent(e)
        PROVE  PurgedAreOld'
    <2>1. \A d \in Cycles : cycle'[d].at = cycle[d].at
      BY <1>6 DEF InsertEvent
    <2>2. \A f \in Events : row'[f] = "purged" => row[f] = "purged"
      BY <1>6 DEF InsertEvent
    <2>. QED
      BY <1>6, <2>1, <2>2 DEF InsertEvent
  <1>7. CASE (\E t \in Time : RecordSensorLive(t)) \/ Tick
    BY <1>7 DEF RecordSensorLive, Tick
  <1>. QED
    BY <1>1, <1>2, <1>3, <1>4, <1>5, <1>6, <1>7 DEF FiguresStep

\* Rows that come in after the hourly query are late; no row is deleted before
\* the chart is up.
LEMMA HourlyKept ==
    ASSUME FiguresType, OneCycle, PurgedAreOld, HourlyRead, FiguresStep
    PROVE  HourlyRead'
  <1>. USE DEF HourlyRead, Owed, FiguresType, Reading
  <1>1. CASE UNCHANGED figures
    BY <1>1 DEF figures
  <1>2. CASE Restart
    BY <1>2 DEF Restart
  <1>3. ASSUME NEW c \in Cycles, Busy = {}, StartCycle(c)
        PROVE  HourlyRead'
    BY <1>3 DEF StartCycle, Goto, Busy
  <1>4. ASSUME NEW c \in Cycles, CycleStep(c)
        PROVE  HourlyRead'
    <2>0. \A d \in Cycles \ {c} : pc'[d] = "idle"
      BY <1>4 DEF OneCycle, Busy, CycleStep, Goto, BeginFold, CommitFold, QueryHourly,
         ReplaceHourly, QueryDay, ReadFirst, ReadLive, PublishTotals, EnforceRetention
    <2>1. CASE QueryHourly(c)
      <3>1. /\ pc[c] = "hourly" /\ UNCHANGED row
            /\ cycle'[c].at = cycle[c].at /\ cycle'[c].late = cycle[c].late
            /\ cycle'[c].hourly = InWindow(c, ChartWindow)
        BY <2>1 DEF QueryHourly, Goto, Reads
      <3>2. ASSUME NEW e \in Events, row[e] # "absent",
                   Ts[e] >= cycle[c].at - ChartWindow, Ts[e] >= cycle[c].at - Retention
            PROVE  e \in InWindow(c, ChartWindow)
        <4>1. ~(Ts[e] < cycle[c].at - Retention)
          BY <3>2, TimeAssumption, WindowsAssumption DEF Time
        <4>2. row[e] # "purged"
          BY <3>1, <4>1 DEF PurgedAreOld, Busy
        <4>. QED
          BY <3>2, <4>2 DEF InWindow, Stored
      <3>. QED
        BY <2>0, <3>1, <3>2
    <2>2. CASE ~QueryHourly(c)
      <3>1. pc'[c] # "chart"
        BY <1>4, <2>2 DEF CycleStep, Goto, BeginFold, CommitFold, ReplaceHourly, QueryDay,
           ReadFirst, ReadLive, PublishTotals, EnforceRetention
      <3>. QED
        BY <2>0, <3>1
    <2>. QED
      BY <2>1, <2>2
  <1>5. ASSUME NEW c \in Cycles, AbortCycle(c)
        PROVE  HourlyRead'
    BY <1>5 DEF AbortCycle
  <1>6. ASSUME NEW e \in Events, InsertEvent(e)
        PROVE  HourlyRead'
    <2>. SUFFICES ASSUME NEW d \in Cycles, pc[d] = "chart", NEW f \in Events, f \in Owed(d)'
                  PROVE  f \in cycle'[d].hourly
      BY <1>6 DEF InsertEvent
    <2>1. /\ cycle'[d].at = cycle[d].at /\ cycle'[d].hourly = cycle[d].hourly
          /\ cycle[d].late \subseteq cycle'[d].late
          /\ e \notin Stored => e \in cycle'[d].late
      BY <1>6 DEF InsertEvent
    <2>2. row'[f] = row[f]
      BY <1>6, <2>1 DEF InsertEvent
    <2>. QED
      BY <2>1, <2>2
  <1>7. CASE (\E t \in Time : RecordSensorLive(t)) \/ Tick
    BY <1>7 DEF RecordSensorLive, Tick
  <1>. QED
    BY <1>1, <1>2, <1>3, <1>4, <1>5, <1>6, <1>7 DEF FiguresStep

-----------------------------------------------------------------------------
(* The last-24h figure and the total. *)

\* From a row to the counters and on to the figures of a cycle: a marked row is
\* counted or has raced with its fold, and what is not marked after the fold is
\* late.
Gathered ==
    /\ \A e \in Events : row[e] = "folded" => e \in counted \cup raced
    /\ \A c \in Cycles : pc[c] = "commit" =>
          \A e \in Events : row[e] = "new" => e \in cycle[c].seen \cup raced
    /\ \A c \in Cycles : pc[c] \in {"hourly", "chart", "day"} =>
          \A e \in Events : row[e] = "new" => e \in cycle[c].late
    /\ \A c \in Cycles : pc[c] \in {"first", "live", "totals"} =>
          cycle[c].day \subseteq counted \cup cycle[c].late \cup raced

\* Each step of a cycle hands on what the one before it has gathered.
LEMMA GatheredKept ==
    ASSUME FiguresType, OneCycle, Gathered, FiguresStep
    PROVE  Gathered'
  <1>. USE DEF Gathered, FiguresType, Reading
  <1>1. CASE UNCHANGED figures
    BY <1>1 DEF figures
  <1>2. CASE Restart
    BY <1>2 DEF Restart
  <1>3. ASSUME NEW c \in Cycles, Busy = {}, StartCycle(c)
        PROVE  Gathered'
    BY <1>3 DEF StartCycle, Goto, Reads, Busy
  <1>4. ASSUME NEW c \in Cycles, CycleStep(c)
        PROVE  Gathered'
    <2>0. \A d \in Cycles \ {c} : pc'[d] = "idle"
      BY <1>4 DEF OneCycle, Busy, CycleStep, Goto, BeginFold, CommitFold, QueryHourly,
         ReplaceHourly, QueryDay, ReadFirst, ReadLive, PublishTotals, EnforceRetention
    <2>1. CASE BeginFold(c)
      BY <2>0, <2>1 DEF BeginFold, Goto, Reads, Unfolded
    <2>2. CASE CommitFold(c)
      BY <2>0, <2>2 DEF CommitFold, Goto
    <2>3. CASE QueryHourly(c)
      BY <2>0, <2>3 DEF QueryHourly, Goto, Reads
    <2>9. CASE ReplaceHourly(c)
      BY <2>0, <2>9 DEF ReplaceHourly, Goto
    <2>4. CASE QueryDay(c)
      BY <2>0, <2>4 DEF QueryDay, Goto, Reads, InWindow, Stored
    <2>5. CASE ReadFirst(c)
      BY <2>0, <2>5 DEF ReadFirst, Goto, Reads
    <2>8. CASE ReadLive(c)
      BY <2>0, <2>8 DEF ReadLive, Goto, Reads
    <2>6. CASE PublishTotals(c)
      BY <2>0, <2>6 DEF PublishTotals, Published, Goto
    <2>7. CASE EnforceRetention(c)
      BY <2>0, <2>7 DEF EnforceRetention, Goto
    <2>. QED
      BY <1>4, <2>1, <2>2, <2>3, <2>4, <2>5, <2>6, <2>7, <2>8, <2>9 DEF CycleStep
  <1>5. ASSUME NEW c \in Cycles, AbortCycle(c)
        PROVE  Gathered'
    BY <1>5 DEF AbortCycle
  <1>6. ASSUME NEW e \in Events, InsertEvent(e)
        PROVE  Gathered'
    BY <1>6 DEF InsertEvent, Stored, Step
  <1>7. CASE (\E t \in Time : RecordSensorLive(t)) \/ Tick
    BY <1>7 DEF RecordSensorLive, Tick
  <1>. QED
    BY <1>1, <1>2, <1>3, <1>4, <1>5, <1>6, <1>7 DEF FiguresStep

-----------------------------------------------------------------------------
(* The first event and "live since". *)

\* a, once it is there, is no later than b, and it is there if b is.
Upto(a, b) == b # None => a # None /\ a <= b

\* What is published was read from meta, which has moved back since at most.
MetaIsEarliest ==
    /\ \A e \in counted : first # None /\ first <= Ts[e]
    /\ \A c \in Cycles : pc[c] \in {"live", "totals"} => cycle[c].first = first
    /\ \A c \in Cycles : pc[c] = "totals" =>
          Upto(live, cycle[c].live) /\ Upto(cycle[c].live, totals.live)
    /\ Upto(first, totals.first)
    /\ Upto(live, totals.live)
    /\ FirstIsEarliest

\* Upto is reflexive and transitive, and says that a replaces b without moving
\* it forward.
LEMMA UptoFacts ==
    /\ \A a \in OptTime : Upto(a, a) /\ Upto(a, None)
    /\ \A a, b, c \in OptTime : Upto(a, b) /\ Upto(b, c) => Upto(a, c)
    /\ \A a, b \in OptTime : Upto(a, b) => ~Later(b, a)
  BY TimeAssumption DEF Upto, Later, OptTime, Time

\* keepEarliestMeta
LEMMA KeptIsEarliest ==
    ASSUME NEW old \in OptTime, NEW t \in Time
    PROVE  KeepEarliest(old, t) \in OptTime /\ Upto(KeepEarliest(old, t), old)
  BY TimeAssumption DEF KeepEarliest, Upto, OptTime, Time

\* first_event_ts and sensor_live_ts only move back, and so does what a cycle
\* publishes of them.
LEMMA MetaKept ==
    ASSUME FiguresType, OneCycle, MetaIsEarliest, FiguresStep
    PROVE  MetaIsEarliest'
                           /\ Upto(totals'.first, totals.first)
                           /\ Upto(totals'.live, totals.live)
  <1>. USE DEF MetaIsEarliest, FirstIsEarliest, FiguresType, Reading
  <1>0. FiguresType'
    BY FiguresTypeKept
  <1>1. CASE UNCHANGED figures
    BY <1>1, UptoFacts DEF figures
  <1>2. CASE Restart
    BY <1>2, UptoFacts DEF Restart
  <1>3. ASSUME NEW c \in Cycles, Busy = {}, StartCycle(c)
        PROVE  MetaIsEarliest' /\ UNCHANGED totals
    BY <1>3 DEF StartCycle, Goto, Reads, Busy
  <1>4. ASSUME NEW c \in Cycles, CycleStep(c)
        PROVE  MetaIsEarliest' /\ Upto(totals'.first, totals.first)
                               /\ Upto(totals'.live, totals.live)
    <2>0. \A d \in Cycles \ {c} : pc'[d] = "idle"
      BY <1>4 DEF OneCycle, Busy, CycleStep, Goto, BeginFold, CommitFold, QueryHourly,
         ReplaceHourly, QueryDay, ReadFirst, ReadLive, PublishTotals, EnforceRetention
    <2>1. CASE BeginFold(c) \/ QueryHourly(c) \/ ReplaceHourly(c) \/ QueryDay(c)
      BY <2>0, <2>1, UptoFacts
         DEF BeginFold, QueryHourly, ReplaceHourly, QueryDay, Goto, Reads
    <2>2. CASE CommitFold(c)
      <3>1. /\ pc' = [pc EXCEPT ![c] = "hourly"] /\ counted' = counted \cup cycle[c].seen
            /\ UNCHANGED <<live, totals, cycle>>
        BY <2>2 DEF CommitFold, Goto
      <3>2. Upto(first', first)
        BY <2>2, FirstAfterFold DEF Upto
      <3>3. \A e \in counted' : first' # None /\ first' <= Ts[e]
        <4>1. ASSUME NEW e \in counted
              PROVE  first' # None /\ first' <= Ts[e]
          BY <1>0, <4>1, <3>2, TimeAssumption DEF Upto, OptTime, Time
        <4>. QED
          BY <2>2, <3>1, <4>1, FirstAfterFold
      <3>4. Upto(first', totals.first)
        BY <1>0, <3>2, UptoFacts
      <3>. QED
        BY <2>0, <3>1, <3>3, <3>4, UptoFacts
    <2>3. CASE ReadFirst(c)
      BY <2>0, <2>3, UptoFacts DEF ReadFirst, Goto, Reads
    <2>4. CASE ReadLive(c)
      BY <2>0, <2>4, UptoFacts DEF ReadLive, Goto, Reads
    <2>5. CASE PublishTotals(c)
      BY <2>0, <2>5, UptoFacts DEF PublishTotals, Published, Goto
    <2>6. CASE EnforceRetention(c)
      BY <2>0, <2>6, UptoFacts DEF EnforceRetention, Goto
    <2>. QED
      BY <1>4, <2>1, <2>2, <2>3, <2>4, <2>5, <2>6 DEF CycleStep
  <1>5. ASSUME NEW c \in Cycles, AbortCycle(c)
        PROVE  MetaIsEarliest' /\ UNCHANGED totals
    BY <1>5 DEF AbortCycle
  <1>6. ASSUME NEW t \in Time, RecordSensorLive(t)
        PROVE  MetaIsEarliest' /\ UNCHANGED totals
    BY <1>0, <1>6, KeptIsEarliest, UptoFacts DEF RecordSensorLive
  <1>7. ASSUME NEW e \in Events, InsertEvent(e)
        PROVE  MetaIsEarliest' /\ UNCHANGED totals
    <2>1. \A d \in Cycles : cycle'[d].first = cycle[d].first /\ cycle'[d].live = cycle[d].live
      BY <1>7 DEF InsertEvent
    <2>. QED
      BY <1>7, <2>1 DEF InsertEvent
  <1>8. CASE Tick
    BY <1>8, UptoFacts DEF Tick
  <1>. QED
    BY <1>0, <1>1, <1>2, <1>3, <1>4, <1>5, <1>6, <1>7, <1>8, UptoFacts DEF FiguresStep

-----------------------------------------------------------------------------
(* The process: the flag of runJobs, and the order of a shutdown. *)

\* The pool is ended when the last POST in flight has been answered; pages are
\* not waited for.
PoolLast ==
    /\ PoolEnded => InFlight = {}
    /\ ShutdownCutsNoPost

\* The flag says whether a cycle is under way, whatever becomes of the cycle; no
\* request is accepted once the listener is closed, and the pool waits for those
\* that were.
LEMMA ProcessKept ==
    ASSUME FiguresType, OneCycle, ProcessType, PoolLast, [Next]_vars
    PROVE  ProcessType' /\ PoolLast'
  <1>. USE DEF ProcessType, PoolLast, ShutdownCutsNoPost, PoolEnded, InFlight, Busy,
               Phase, Stage, FiguresType
  <1>1. CASE UNCHANGED vars
    BY <1>1 DEF vars, figures, requests, bounds
  <1>2. CASE StartUp \/ Listen \/ Signal \/ EndPool
    <2>1. /\ UNCHANGED <<pc, running, post>>
          /\ cut' \in {cut, {}} /\ open' \subseteq Pages
      BY <1>2 DEF StartUp, Listen, Signal, EndPool, figures, requests, bounds
    <2>2. /\ proc' \in Phase /\ timer' \in BOOLEAN
          /\ timer' => proc' = "up"
          /\ proc' = "ending" => InFlight = {}
      <3>1. CASE StartUp
        BY <3>1 DEF StartUp
      <3>2. CASE Listen
        BY <3>2 DEF Listen
      <3>3. CASE Signal
        BY <3>3 DEF Signal
      <3>4. CASE EndPool
        BY <3>4 DEF EndPool, Drained
      <3>. QED
        BY <1>2, <3>1, <3>2, <3>3, <3>4
    <2>. QED
      BY <2>1, <2>2
  <1>3. CASE Exit \/ Crash
    BY <1>3, PagesAssumption DEF Exit, Crash, Gone
  <1>4. ASSUME NEW c \in Cycles, RunJobs(c)
        PROVE  ProcessType' /\ PoolLast'
    BY <1>4 DEF RunJobs, MayRun, StartCycle, Goto, requests, bounds
  <1>5. ASSUME NEW c \in Cycles, JobStep(c)
        PROVE  ProcessType' /\ PoolLast'
    <2>1. pc[c] # "idle" /\ \E to \in Step : pc' = [pc EXCEPT ![c] = to]
      BY <1>5 DEF JobStep, CycleStep, AbortCycle, Goto, Step, BeginFold, CommitFold, QueryHourly,
         ReplaceHourly, QueryDay, ReadFirst, ReadLive, PublishTotals, EnforceRetention
    <2>2. \A d \in Cycles \ {c} : pc'[d] = "idle"
      BY <2>1 DEF OneCycle
    <2>. QED
      BY <1>5, <2>1, <2>2 DEF JobStep, Released, requests, bounds
  <1>6. ASSUME NEW c \in Cycles, JobFails(c)
        PROVE  ProcessType' /\ PoolLast'
    <2>1. \A d \in Cycles : pc'[d] = "idle"
      BY <1>6 DEF JobFails, AbortCycle, OneCycle
    <2>. QED
      BY <1>6, <2>1 DEF JobFails, Released, requests, bounds
  <1>7. ASSUME NEW e \in Events, Accept(e)
        PROVE  ProcessType' /\ PoolLast'
    BY <1>7 DEF Accept, figures, bounds
  <1>8. ASSUME NEW e \in Events, RecordBoot(e) \/ Store(e) \/ Reply(e)
        PROVE  ProcessType' /\ PoolLast'
    BY <1>8 DEF RecordBoot, Store, Reply, Answer, RecordSensorLive, InsertEvent, figures, bounds
  <1>9. ASSUME NEW e \in Events, PostFails(e)
        PROVE  ProcessType' /\ PoolLast'
    BY <1>9 DEF PostFails, figures
  <1>10. CASE TimePasses
    BY <1>10 DEF TimePasses, Tick, requests, bounds
  <1>11. CASE Page
    BY <1>11, PagesAssumption DEF Page, AnswerPage, PageRefused, figures, bounds
  <1>. QED
    BY <1>1, <1>2, <1>3, <1>4, <1>5, <1>6, <1>7, <1>8, <1>9, <1>10, <1>11
       DEF Next, Process, Job, Request

-----------------------------------------------------------------------------
(* The theorems. *)

\* The inductive invariant.
IInv ==
    /\ FiguresType /\ ProcessType /\ OneCycle
    /\ PurgedAreOld /\ HourlyRead
    /\ Gathered
    /\ MetaIsEarliest
    /\ PoolLast

\* A process that has not been started has no figures and no requests.
LEMMA Initially == Init => IInv
  <1>. USE TimeAssumption DEF Init, FiguresInit
  <1>1. Init => FiguresType /\ OneCycle
    BY DEF FiguresType, OneCycle, Busy, Reading, Blank, Unpublished, Step, OptTime, Time
  <1>5. Init => ProcessType
    BY DEF ProcessType, Busy, Phase, Stage
  <1>2. Init => PurgedAreOld /\ HourlyRead /\ Gathered
    BY DEF PurgedAreOld, HourlyRead, Gathered
  <1>3. Init => MetaIsEarliest
    BY DEF MetaIsEarliest, FirstIsEarliest, Upto, Unpublished
  <1>4. Init => PoolLast
    BY DEF PoolLast, PoolEnded, ShutdownCutsNoPost
  <1>. QED
    BY <1>1, <1>2, <1>3, <1>4, <1>5 DEF IInv

\* IInv is inductive.
LEMMA Inductive == Spec => []IInv
  <1>1. IInv /\ [Next]_vars => IInv'
    BY StepOfFigures, FiguresTypeKept, OneCycleKept, PurgedKept, HourlyKept, GatheredKept, MetaKept,
       ProcessKept DEF IInv
  <1>. QED
    BY <1>1, Initially, PTL DEF Spec

\* The shape of the state, which includes that the flag of runJobs is set exactly
\* while a cycle is under way (runJobs and its finally).
THEOREM TypeCorrect == Spec => []TypeOK
  <1>1. IInv => TypeOK
    BY DEF IInv, FiguresType, ProcessType, TypeOK
  <1>. QED
    BY <1>1, Inductive, PTL

\* An hourly chart lacks no attempt of its window that was stored before the
\* cycle's fold and lies within the retention period, whichever of the two is
\* longer (aggregate's query and enforceRetention, each with a now of its own).
THEOREM ChartsAreComplete == Spec => ChartIsComplete
  <1>1. IInv => \A c \in Cycles : ReplaceHourly(c) => Owed(c) \subseteq chart'
    BY DEF IInv, HourlyRead, ReplaceHourly, Goto
  <1>2. IInv => [\A c \in Cycles : ReplaceHourly(c) => Owed(c) \subseteq chart']_vars
    BY <1>1
  <1>. QED
    BY <1>2, Inductive, PTL DEF ChartIsComplete

\* The last-24h figure stays within the total published with it, but for attempts
\* that came in after the cycle's fold had read the rows or raced with an earlier
\* fold (aggregate reads the window after the fold).
THEOREM DayNeverExceedsTotal == Spec => DayWithinTotal
  <1>1. IInv => \A c \in Cycles : PublishTotals(c) =>
            totals'.day \subseteq totals'.total \cup cycle[c].late \cup raced
    BY DEF IInv, Gathered, PublishTotals, Published, Goto
  <1>2. IInv => [\A c \in Cycles : PublishTotals(c) =>
            totals'.day \subseteq totals'.total \cup cycle[c].late \cup raced]_vars
    BY <1>1
  <1>. QED
    BY <1>2, Inductive, PTL DEF DayWithinTotal

\* The first event that is published is no later than any event in the total
\* (MIN(ts) and keepEarliestMeta in the fold, before getCounter).
THEOREM FirstEventIsFirst == Spec => []FirstIsEarliest
  <1>1. IInv => FirstIsEarliest
    BY DEF IInv, MetaIsEarliest
  <1>. QED
    BY <1>1, Inductive, PTL

\* "Live since" and the first event never move forward on the page, through
\* restarts, failed cycles and late batches (keepEarliestMeta).
THEOREM PublishedNeverMovesForward == Spec => NeverLater
  <1>1. IInv /\ [Next]_vars =>
          [~Later(totals.first, totals'.first) /\ ~Later(totals.live, totals'.live)]_vars
    <2>. SUFFICES ASSUME IInv, [Next]_vars
                  PROVE  ~Later(totals.first, totals'.first) /\ ~Later(totals.live, totals'.live)
      OBVIOUS
    <2>1. Upto(totals'.first, totals.first) /\ Upto(totals'.live, totals.live)
      BY StepOfFigures, MetaKept DEF IInv
    <2>2. FiguresType /\ FiguresType'
      BY StepOfFigures, FiguresTypeKept DEF IInv
    <2>. QED
      BY <2>1, <2>2, UptoFacts DEF FiguresType
  <1>. QED
    BY <1>1, Inductive, PTL DEF Spec, NeverLater

\* A shutdown cuts no POST: server.close waits for those in flight, and only then
\* the pool ends.  Of the read listener's requests nothing of the kind is true.
THEOREM OrderlyShutdown == Spec => []ShutdownCutsNoPost
  <1>1. IInv => ShutdownCutsNoPost
    BY DEF IInv, PoolLast
  <1>. QED
    BY <1>1, Inductive, PTL
===============================================================================
