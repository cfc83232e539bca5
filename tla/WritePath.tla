-------------------------------- MODULE WritePath --------------------------------
(***************************************************************************)
(* The replay tool, the HTTP handlers and the runtime they need, put       *)
(* together: from a line of the Cowrie log to a row of events.  Next to    *)
(* the tool, the web tier reads the rollups, the scheduler calls the       *)
(* aggregation, and a stranger sends requests without the token.           *)
(*                                                                         *)
(* A request of the tool that it has given up (its timeout is 30 s) goes   *)
(* on in the handler as the request of nobody, "late".                     *)
(***************************************************************************)
EXTENDS Runtime, Replay, FiniteSets

CONSTANTS
    Casts,          \* who calls together: sets of callers
    Probes,         \* what strangers send
    LiveSensor,     \* SENSOR_NAME of the shipper on the sensor
    Shipped,        \* how many lines of the file it may have delivered before
    Boot,           \* REPLAY_SENSOR_BOOT_TS, or None
    ChunkRows,      \* INSERT_CHUNK
    GeoConfigured,  \* GEOIP_COUNTRY_DB, GEOIP_ASN_DB: absent, good or broken
    GeoBundled      \* the databases defaultGeoipPath finds, likewise

\* A stranger does not know the token.  A mapped field is cut to what the
\* schema takes (map.ts, schema.ts).
ASSUME PathAssumption ==
    /\ ChunkRows \in Nat \ {0}
    /\ Shipped \subseteq Nat
    /\ \A p \in Probes : p.auth # IngestToken
    /\ \A f \in {"session", "username", "password", "url"} : Limit[f] <= MaxLength[f]
    /\ Limit["version"] <= MaxLength["client_version"]
    /\ Limit["input"] <= MaxLength["command"]
    /\ Limit["outfile"] <= MaxLength["url"]

Everyone == {"tool", "late", "stranger", "reader", "cron"}

VARIABLES
    callers,        \* who calls
    ask,            \* the request of a caller and its answer
    rows,           \* events
    live,           \* meta: sensor_live_ts
    published       \* rollup_totals: the rows counted

vars == <<runtime, faults, replay, callers, ask, rows, live, published>>

Nothing == [accepted |-> 0, duplicate |-> 0, rejected |-> 0]

Idle == [stage |-> "idle", req |-> None, status |-> 0, events |-> <<>>, from |-> 0,
         reply |-> Nothing]

\* The answer of a request of c: its status, and the counts of a 202.
Answer(req, status, reply) ==
    [Idle EXCEPT !.stage = "answered", !.req = req, !.status = status, !.reply = reply]

\* No response at all: refused connection, lost response, timeout.
NoResponse == Answer(None, 0, Nothing)

\* The function a caller calls, and the process that serves it.
Fn(c) == IF c \in {"tool", "late", "stranger"} THEN "events"
         ELSE IF c = "reader" THEN "rollups" ELSE "cron"

At(c) == IF deployment = "service" THEN "service" ELSE Fn(c)

-------------------------------------------------------------------------------
(* Requests and rows *)

Sent(c) ==
    CASE Fn(c) = "events" ->
            [method |-> "POST", url |-> "good", path |-> "/v1/events", auth |-> IngestToken, json |-> TRUE,
             declared |-> batchBytes, size |-> batchBytes,
             body |-> IF BatchOk(SensorName, Boot, batch, Now) THEN "batch" ELSE "no envelope"]
      [] Fn(c) = "rollups" ->
            [method |-> "GET", url |-> "good", path |-> "/v1/rollups", auth |-> RollupsToken, json |-> FALSE,
             declared |-> 0, size |-> 0, body |-> "none"]
      [] OTHER ->
            [method |-> "GET", url |-> "good", path |-> "/api/cron", auth |-> CronSecret, json |-> FALSE,
             declared |-> 0, size |-> 0, body |-> "none"]

Requests(c) == IF c = "stranger" THEN Probes ELSE {Sent(c)}

Geo == [d \in {"country", "asn"} |->
    IF GeoConfigured[d] # "absent" \/ deployment = "service" THEN GeoConfigured[d]
    ELSE GeoBundled[d]]

\* The random id of mapCowrieEvent is kept (mutant).
IdOf_Random(sensor, n) == <<sensor, file[n], n, runs, attempt>>

IdOf(sensor, n) == EventId(sensor, file[n])

\* (\E has TLC map the line once.)
Valid(n) == \E w \in {Wire(n)} : EventOk(w, Now)

RowOf(sensor, n) == NormalizeEvent(IdOf(sensor, n), Wire(n), Geo)

Ids == {r.id : r \in rows}

\* The loop ends at the first event that is refused (mutant).
ValidPart_Prefix(events) ==
    LET bad == {i \in DOMAIN events : ~Valid(events[i])}
    IN  SelectSeq(SubSeq(events, 1, IF bad = {} THEN Len(events) ELSE Min(bad) - 1), Valid)

\* The events of a batch that eventSchema takes.
ValidPart(events) ==
    LET valid[n \in 0 .. Len(events)] ==
            IF n = 0 THEN <<>>
            ELSE IF Valid(events[n]) THEN Append(valid[n - 1], events[n]) ELSE valid[n - 1]
    IN  valid[Len(events)]

\* A good request of the tool carries its batch; ON CONFLICT (id) DO NOTHING.
New(chunk) == {RowOf(SensorName, n) : n \in {m \in Range(chunk) : IdOf(SensorName, m) \notin Ids}}

Init ==
    /\ callers \in Casts
    /\ file \in IF "tool" \in callers THEN Files ELSE {<<>>}
    /\ RuntimeInit
    /\ ReplayInit
    /\ ask = [c \in Everyone |-> Idle]
    /\ \E n \in Shipped :
        rows = {RowOf(LiveSensor, m) : m \in {k \in 1 .. n : k <= Len(file) /\ Wire(k) # None /\ Valid(k)}}
    /\ live = None
    /\ published = {}

-------------------------------------------------------------------------------
(* A request arrives *)

Receive(c, answer) ==
    /\ ask' = [ask EXCEPT ![c] = answer]
    /\ UNCHANGED <<callers, rows, live, published>>

\* The runtime is asked for before the token is looked at (mutant).
Early_Never(fn, req) == Passed

\* What the wrapper of a function answers before it touches the datastore.
Early(fn, req) == FunctionChecks(fn, req)

Due(c) ==
    /\ c \in callers /\ ask[c].stage = "idle"
    /\ c = "tool" => tool = "send"

\* A request of c that is on its way to the handler.
Pending(c, req) ==
    [Idle EXCEPT !.stage = "waiting", !.req = req, !.events = IF c = "tool" THEN batch ELSE <<>>]

\* To a function, which awaits the promise of its runtime.
CallFunction(c, req) ==
    /\ deployment = "functions" /\ Due(c)
    /\ LET refusal == Early(Fn(c), req) IN
        IF refusal # Passed
        THEN Receive(c, Answer(req, refusal, Nothing)) /\ UNCHANGED memo
        ELSE Receive(c, Pending(c, req)) /\ memo' = Woken(Fn(c))
    /\ UNCHANGED <<deployment, db, schema, collided, faults, replay>>

\* What stands in front of a handler of the service.
ListenerChecks(c, req) ==
    LET bridge == BridgeChecks(req)
        routes == IF Fn(c) = "rollups" THEN ReadServerChecks(req) ELSE ServerChecks(req)
    IN  IF bridge # Passed THEN bridge ELSE routes

\* To the service; its cycles run on a timer and not on a call.
CallService(c, req) ==
    /\ deployment = "service" /\ Due(c) /\ c # "cron"
    /\ LET refusal == ListenerChecks(c, req) IN
        Receive(c, IF memo["service"] # "ready" THEN NoResponse
                   ELSE IF refusal # Passed THEN Answer(req, refusal, Nothing)
                   ELSE Pending(c, req))
    /\ UNCHANGED <<runtime, faults, replay>>

\* 500 from the platform or from the bridge; rollups.ts turns it into a 503.
Error(c) == IF deployment = "functions" /\ Fn(c) = "rollups" THEN 503 ELSE 500

HasRuntime(i) == memo[i] = "ready"

\* The handler's own checks, the limiters among them.
HandlerChecks(c, admitted) ==
    CASE Fn(c) = "events" -> EventsChecks(ask[c].req, admitted)
      [] Fn(c) = "rollups" -> RollupsChecks(ask[c].req, admitted)
      [] OTHER -> Passed

\* await getWriteRuntime() or getReadRuntime(), and on into the handler.
Enter(c) ==
    /\ ask[c].stage = "waiting" /\ HasRuntime(At(c))
    /\ LET refusal == HandlerChecks(c, TRUE) IN
        Receive(c, IF refusal = Passed THEN [ask[c] EXCEPT !.stage = "first"]
                   ELSE Answer(ask[c].req, refusal, Nothing))
    /\ UNCHANGED <<runtime, faults, replay>>

\* A limiter is short of tokens (module Admission).
NotAdmitted(c) ==
    /\ ask[c].stage = "waiting" /\ HasRuntime(At(c)) /\ c # "cron" /\ Fault
    /\ Receive(c, Answer(ask[c].req, HandlerChecks(c, FALSE), Nothing))
    /\ UNCHANGED <<runtime, replay>>

\* The promise was rejected, when this request was waiting or long ago.
NoRuntime(c) ==
    /\ ask[c].stage = "waiting" /\ memo[At(c)] = "rejected"
    /\ Receive(c, Answer(ask[c].req, Error(c), Nothing))
    /\ UNCHANGED <<runtime, faults, replay>>

-------------------------------------------------------------------------------
(* In the handlers *)

Handled(c, answer) ==
    /\ ask' = [ask EXCEPT ![c] = answer]
    /\ UNCHANGED <<runtime, faults, replay>>

\* A query fails when the database is down.
QueryFails(c) ==
    /\ ask[c].stage \in {"first", "insert"} /\ db = "down"
    /\ Handled(c, Answer(ask[c].req, Error(c), Nothing))
    /\ UNCHANGED <<callers, rows, live, published>>

\* recordSensorLive: for the whole batch, whatever its events are.
RecordLive(c) ==
    /\ c \in {"tool", "late"} /\ ask[c].stage = "first" /\ db = "up"
    /\ live' = IF Boot = None \/ (live # None /\ live <= Boot) THEN live ELSE Boot
    /\ Handled(c, [ask[c] EXCEPT !.stage = "insert"])
    /\ UNCHANGED <<callers, rows, published>>

\* insertEvents, one chunk of the valid events after the other.
InsertChunk(c) ==
    /\ ask[c].stage = "insert" /\ db = "up"
    /\ LET valid == ValidPart(ask[c].events)
           upto  == IF ask[c].from + ChunkRows < Len(valid) THEN ask[c].from + ChunkRows ELSE Len(valid)
           new   == New(SubSeq(valid, ask[c].from + 1, upto))
       IN  /\ ask[c].from < Len(valid)
           /\ IF \A r \in new : Storable(r)
              THEN /\ rows' = rows \cup new
                   /\ Handled(c, [ask[c] EXCEPT !.from = upto, !.reply.accepted = @ + Cardinality(new)])
              ELSE /\ rows' = rows
                   /\ Handled(c, Answer(ask[c].req, Error(c), Nothing))
    /\ UNCHANGED <<callers, live, published>>

\* Duplicates are counted before the refused events are taken out (mutant).
Reply_Mixed(events, inserted) ==
    [accepted |-> inserted, duplicate |-> Len(events) - inserted,
     rejected |-> Len(events) - Len(ValidPart(events))]

Reply(events, inserted) ==
    [accepted |-> inserted, duplicate |-> Len(ValidPart(events)) - inserted,
     rejected |-> Len(events) - Len(ValidPart(events))]

\* 400 if something was refused and nothing was new, else 202.
Accepted(c) ==
    /\ ask[c].stage = "insert" /\ ask[c].from = Len(ValidPart(ask[c].events))
    /\ LET reply == Reply(ask[c].events, ask[c].reply.accepted)
       IN  Handled(c, Answer(ask[c].req, IF reply.rejected > 0 /\ reply.accepted = 0 THEN 400 ELSE 202, reply))
    /\ UNCHANGED <<callers, rows, live, published>>

\* buildDashboard.
Read ==
    /\ ask["reader"].stage = "first" /\ db = "up"
    /\ Handled("reader", Answer(ask["reader"].req, 200, Nothing))
    /\ UNCHANGED <<callers, rows, live, published>>

\* aggregate and enforceRetention (modules LifetimeStore and Figures); no
\* row here is old enough to be deleted.
Aggregate ==
    /\ ask["cron"].stage = "first" /\ db = "up"
    /\ published' = Ids
    /\ Handled("cron", Answer(ask["cron"].req, 200, Nothing))
    /\ UNCHANGED <<callers, rows, live>>

-------------------------------------------------------------------------------
(* The callers go on *)

\* The tool takes the answer; a response that is lost is no response.
ToolHears ==
    /\ ask["tool"].stage = "answered"
    /\ IF ask["tool"].status = 202 THEN Taken(ask["tool"].reply) ELSE Refused
    /\ ask' = [ask EXCEPT !["tool"] = Idle]
    /\ UNCHANGED <<callers, runtime, faults, rows, live, published>>

LoseResponse ==
    /\ ask["tool"].stage = "answered" /\ ask["tool"].status # 0 /\ Fault
    /\ ask' = [ask EXCEPT !["tool"] = NoResponse]
    /\ UNCHANGED <<callers, runtime, replay, rows, live, published>>

\* AbortSignal.timeout: the handler does not learn of it.
TimesOut ==
    /\ ask["tool"].stage \in {"waiting", "first", "insert"}
    /\ ask["late"].stage = "idle" /\ Fault
    /\ ask' = [ask EXCEPT !["tool"] = NoResponse, !["late"] = ask["tool"]]
    /\ UNCHANGED <<callers, runtime, replay, rows, live, published>>

Forget(c) ==
    /\ c # "tool" /\ ask[c].stage = "answered"
    /\ Receive(c, Idle)
    /\ UNCHANGED <<runtime, faults, replay>>

\* The requests in a process that is gone are never answered.
Dies(i) ==
    /\ Recycle(i)
    /\ ask' = [c \in Everyone |->
         IF At(c) = i /\ ask[c].stage \in {"waiting", "first", "insert"}
         THEN IF c = "late" THEN Idle ELSE NoResponse
         ELSE ask[c]]
    /\ UNCHANGED <<callers, replay, rows, live, published>>

Initialising == StartService \/ \E i \in Processes : InitStep(i)

Elsewhere(A) == A /\ UNCHANGED <<callers, replay, ask, rows, live, published>>

ToolStep ==
    /\ "tool" \in callers
    /\ SkipLine \/ LineThrows \/ AddLine \/ BeginSend \/ Complete
    /\ UNCHANGED <<callers, runtime, faults, ask, rows, live, published>>

Rerun == RunAgain /\ UNCHANGED <<callers, runtime, faults, ask, rows, live, published>>

Call(c) == \E req \in Requests(c) : CallFunction(c, req) \/ CallService(c, req)

Serve(c) ==
    \/ Enter(c) \/ NoRuntime(c) \/ QueryFails(c)
    \/ RecordLive(c) \/ InsertChunk(c) \/ Accepted(c)
    \/ c = "reader" /\ Read
    \/ c = "cron" /\ Aggregate

Next ==
    \/ Elsewhere(Initialising) \/ Elsewhere(GoDown) \/ Elsewhere(ComeUp)
    \/ \E i \in Processes : Dies(i)
    \/ ToolStep \/ Rerun \/ ToolHears \/ LoseResponse \/ TimesOut
    \/ \E c \in Everyone : Call(c) \/ Serve(c) \/ NotAdmitted(c) \/ Forget(c)

Spec == Init /\ [][Next]_vars

\* Processes and callers go on with what they have begun; nobody repairs the
\* database, recycles an instance or runs the tool again for certain.
FairSpec ==
    /\ Spec
    /\ \A i \in Processes : WF_vars(Elsewhere(InitStep(i)))
    /\ WF_vars(Elsewhere(StartService))
    /\ \A c \in Everyone : WF_vars(Call(c)) /\ WF_vars(Serve(c)) /\ WF_vars(Forget(c))
    /\ WF_vars(ToolStep) /\ WF_vars(ToolHears)

-------------------------------------------------------------------------------
(* Properties *)

Stages == {"idle", "waiting", "first", "insert", "answered"}

TypeOK ==
    /\ deployment \in Deployments /\ db \in {"up", "down"}
    /\ schema \in {"empty", "complete"}
    /\ memo \in [Processes -> Memo]
    /\ tool \in {"scan", "send", "done", "dead"}
    /\ pos \in 1 .. Len(file) + 1
    /\ Range(batch) \subseteq 1 .. Len(file)
    /\ attempt \in 0 .. Backoffs
    /\ \A c \in Everyone : ask[c].stage \in Stages
    /\ published \subseteq Ids
    /\ live \in {None, Boot}

Total == count.accepted + count.duplicate + count.rejected

\* However often answers were lost, late or refused, the counts of a run that
\* completed are those of the events it mapped, each counted once.
CountsAddUp == tool = "done" => Total = count.mapped

\* "complete" means what it says: every event of the log that the API takes
\* is stored, whatever happened on the way, and whatever the other events of
\* its batch were.
CompleteMeansStored ==
    tool = "done" =>
        \A n \in DOMAIN file : Wire(n) # None /\ Valid(n) => IdOf(SensorName, n) \in Ids

\* A line that the shipper has delivered, or that an abandoned request
\* stores after its retry, has one row: the tool only has to bear the name
\* of the sensor.
NoTwins ==
    SensorName = LiveSensor =>
        \A r, s \in rows : r.id[2] = s.id[2] => r = s

\* A deployment that works: the variables of config.ts are set, the tool has
\* a name, and its batches are no larger than what the API takes.
Configured ==
    /\ Unset \notin {DatabaseUrl, IngestToken, HashSecret} /\ IngestToken # HashSecret
    /\ SensorName.len \in 1 .. MaxLength["session"] /\ Strip(SensorName).len > 0
    /\ Boot # None => InRange(Boot, Now)
    /\ MaxBatchEvents \in Nat \ {0} /\ MaxEvents \in Nat /\ MaxBatchEvents <= MaxEvents
    /\ EnvelopeBytes \in Nat /\ MaxBatchBytes \in Nat /\ MaxBody \in Nat /\ MaxRead \in Nat
    /\ EnvelopeBytes <= MaxBatchBytes /\ MaxBatchBytes <= MaxBody /\ MaxBody <= MaxRead
    /\ \A f \in Files : \A n \in DOMAIN f :
          ParseLine(f[n], Now) # None =>
              /\ SizeOf(ParseLine(f[n], Now)) \in Nat
              /\ EnvelopeBytes + SizeOf(ParseLine(f[n], Now)) <= MaxBatchBytes

\* The tool gives up only if something failed on the way, or the log holds
\* a line it cannot map or an event that the API refuses.
DiesForCause ==
    tool = "dead" =>
        \/ faults > 0
        \/ \E n \in DOMAIN file : Throws(file[n]) \/ (Wire(n) # None /\ ~Valid(n))

\* What toWebRequest cannot make a Request of.
Unreadable(req) ==
    \/ req.url = "bad"
    \/ req.method \in Forbidden
    \/ req.method \notin Reads /\ req.size > MaxRead

\* A request without the token does not make a function build its runtime,
\* and its answer does not tell whether the database is there: an outage
\* still answers 401.  A 500 comes from the bridge of the service only, for
\* what is not a request at all, and before any handler has run.
StrangersLearnNothing ==
    LET a == ask["stranger"] IN
    /\ a.stage = "waiting" => deployment = "service"
    /\ \/ a.status \in {0, 200, 401, 404, 405, 429}
       \/ a.status = 500 /\ deployment = "service" /\ Unreadable(a.req)

\* No migration fails because another one runs.
MigrationsDoNotCollide == ~collided

\* Every run of the tool comes to an end: no answer, no lock and no promise
\* keeps it waiting for ever, even if the database never comes back.
RunsEnd == "tool" \in callers => []<>(tool \in {"done", "dead"})

\* While the database stays up, a reader who asks again is served again.
ReadsRecover == <>[](db = "up") => []<>(ask["reader"].status = 200)

\* The same, for the service.
ServiceRecovers ==
    deployment = "service" /\ "reader" \in callers => ReadsRecover

\* A record of Cowrie that is surfaced is refused for its address, its time
\* or its duration only: whatever else it holds, the mapping has made it fit
\* the schema of the other side.
MappedRecordsFit ==
    \A n \in DOMAIN file :
        LET w == Wire(n) IN
        /\ w # None
        /\ w.src_ip # NotAnAddress /\ InRange(w.ts, Now)
        /\ w.duration # None => w.duration \in 0 .. Longest
        => Valid(n)

\* Hextet i of the address that a text stands for: four bytes at its end are
\* hextets 7 and 8, and the hextets after "::" stand in front of them.
Hextet(ip, i) ==
    LET last  == IF ip.dotted = <<>> THEN 8 ELSE 6
        shift == last - Len(ip.tail)
    IN  IF i > last THEN 256 * ip.dotted[2 * i - 13] + ip.dotted[2 * i - 12]
        ELSE IF i <= Len(ip.head) THEN ip.head[i]
        ELSE IF i > shift THEN ip.tail[i - shift] ELSE 0

\* The prefix in a row is that of the source's address, however the address
\* was written.
PrefixOfAddress ==
    \A r \in rows : LET ip == r.src_ip_hash[2] IN
        ip.version = 6 => r.src_ip_trunc.prefix = [i \in 1 .. 3 |-> Hextet(ip, i)]
===============================================================================
