---------------------------- MODULE WritePath_proofs ----------------------------
(***************************************************************************)
(* What the write path promises, for any logs, batches, requests, casts of *)
(* callers, deployments and number of failures.                            *)
(*                                                                         *)
(* Three invariants carry the theorems.  RInv: the runtimes of the         *)
(* processes, and the lock of the migrations.  SInv: what strangers wait   *)
(* for and are told.  ToolInv /\ AskInv /\ StoreInv: what the tool has     *)
(* read is in its batch or stored, the request it waits for is for that    *)
(* batch, and every row is that of a line.  A fourth one, CleanInv, is     *)
(* about runs in which nothing has failed yet.                             *)
(*                                                                         *)
(* Next has twenty-odd actions.  Steps lists them; AllMove, ReplaySteps    *)
(* and RowSteps say what any of them does to the requests, to the tool and *)
(* to the rows, and the invariants are proved from those.                  *)
(***************************************************************************)
EXTENDS WritePath, FoldTheorems, SequenceTheorems, TLAPS

\* The runtime.
RuntimeType ==
    /\ deployment \in {"functions", "service"}
    /\ db \in {"up", "down"}
    /\ schema \in {"empty", "complete"}
    /\ memo \in [Processes -> Memo]

\* One migration at a time, and one that found no tables is the first.
OneMigration ==
    /\ MigrationsDoNotCollide
    /\ \A i, j \in Processes :
          memo[i] \in Migrating /\ memo[j] \in Migrating => i = j
    /\ \A i \in Processes : memo[i] = "creating" => schema = "empty"

\* A service that cannot start exits; it does not stay with what it has.
NoDeadService == deployment = "service" => memo["service"] # "rejected"

RInv == RuntimeType /\ OneMigration /\ NoDeadService

\* The initial states.
LEMMA RInit == Init => RInv
  BY RuntimeAssumption DEF Init, RuntimeInit, RInv, RuntimeType, OneMigration, MigrationsDoNotCollide,
         NoDeadService, Processes, Functions, Memo, Migrating

\* What a step does to the processes.
Wakes(i) == memo' = Woken(i) /\ UNCHANGED <<deployment, db, schema, collided>>

RuntimeStep ==
    \/ UNCHANGED runtime
    \/ \E i \in Processes : Wakes(i) \/ InitStep(i) \/ Recycle(i)
    \/ GoDown
    \/ ComeUp

\* What a step may be, the handlers and the callers apart.
LEMMA Steps ==
    ASSUME [Next]_vars
    PROVE  \/ UNCHANGED vars
           \/ Elsewhere(StartService)
           \/ \E i \in Processes : Elsewhere(InitStep(i))
           \/ Elsewhere(GoDown) \/ Elsewhere(ComeUp)
           \/ \E i \in Processes : Dies(i)
           \/ ToolStep \/ Rerun \/ ToolHears \/ LoseResponse \/ TimesOut
           \/ \E c \in Everyone :
                \/ \E req \in Requests(c) : CallFunction(c, req)
                \/ \E req \in Requests(c) : CallService(c, req)
                \/ Enter(c) \/ NoRuntime(c) \/ QueryFails(c)
                \/ RecordLive(c) \/ InsertChunk(c) \/ Accepted(c)
                \/ c = "reader" /\ Read
                \/ c = "cron" /\ Aggregate
                \/ NotAdmitted(c) \/ Forget(c)
  BY Zenon DEF Next, Call, Serve, Initialising, Elsewhere

\* A request wakes the process that serves it.
LEMMA CallWakes ==
    ASSUME NEW c \in Everyone, NEW req, CallFunction(c, req)
    PROVE  UNCHANGED runtime \/ \E i \in Processes : Wakes(i)
  BY DEF CallFunction, Wakes, runtime, Fn, Processes, Functions, Everyone

\* A step wakes a process, builds or loses a runtime, or leaves them alone.
LEMMA RuntimeSteps == ASSUME [Next]_vars PROVE RuntimeStep
  <1>1. CASE UNCHANGED vars
    BY <1>1 DEF vars, RuntimeStep
  <1>2. CASE Elsewhere(StartService)
    BY <1>2 DEF Elsewhere, StartService, RuntimeStep, Wakes, Processes
  <1>3. CASE \E i \in Processes : Elsewhere(InitStep(i))
    BY <1>3, Zenon DEF Elsewhere, RuntimeStep
  <1>4. CASE Elsewhere(GoDown) \/ Elsewhere(ComeUp)
    BY <1>4, Zenon DEF Elsewhere, RuntimeStep
  <1>5. CASE \E i \in Processes : Dies(i)
    BY <1>5, Zenon DEF Dies, RuntimeStep
  <1>6. CASE ToolStep \/ Rerun \/ ToolHears \/ LoseResponse \/ TimesOut
    BY <1>6 DEF ToolStep, Rerun, ToolHears, LoseResponse, TimesOut, RuntimeStep
  <1>7. ASSUME NEW c \in Everyone, NEW req, CallFunction(c, req)
        PROVE  RuntimeStep
    BY <1>7, CallWakes, Zenon DEF RuntimeStep
  <1>8. ASSUME NEW c \in Everyone, NEW req, CallService(c, req)
        PROVE  RuntimeStep
    BY <1>8 DEF CallService, RuntimeStep
  <1>9. ASSUME NEW c \in Everyone,
               \/ Enter(c) \/ NoRuntime(c) \/ QueryFails(c)
               \/ RecordLive(c) \/ InsertChunk(c) \/ Accepted(c)
               \/ NotAdmitted(c) \/ Forget(c)
        PROVE  RuntimeStep
    BY <1>9 DEF Enter, NoRuntime, QueryFails, RecordLive, InsertChunk, Accepted, NotAdmitted,
                Forget, Handled, RuntimeStep
  <1>10. CASE Read \/ Aggregate
    BY <1>10 DEF Read, Aggregate, Handled, RuntimeStep
  <1>. QED
    BY <1>1, <1>2, <1>3, <1>4, <1>5, <1>6, <1>7, <1>8, <1>9, <1>10, Steps

\* One process after the other holds the lock.
LEMMA RStep == ASSUME RInv, RuntimeStep PROVE RInv'
  <1>. USE DEF RInv, RuntimeType, OneMigration, MigrationsDoNotCollide, NoDeadService,
               Processes, Functions, Memo, Migrating
  <1>1. CASE UNCHANGED runtime
    BY <1>1 DEF runtime
  <1>2. ASSUME NEW i \in Processes, Wakes(i)
        PROVE  RInv'
    BY <1>2 DEF Wakes, Woken
  <1>3. ASSUME NEW i \in Processes, Migrate(i)
        PROVE  RInv'
    BY <1>3 DEF Migrate, LockFree
  <1>4. ASSUME NEW i \in Processes, CommitMigration(i)
        PROVE  RInv'
    BY <1>4 DEF CommitMigration, Failed
  <1>5. ASSUME NEW i \in Processes, InitFails(i)
        PROVE  RInv'
    BY <1>5 DEF InitFails, Failed
  <1>6. ASSUME NEW i \in Processes, Recycle(i)
        PROVE  RInv'
    BY <1>6 DEF Recycle
  <1>7. CASE GoDown
    BY <1>7 DEF GoDown, Failed
  <1>8. CASE ComeUp
    BY <1>8 DEF ComeUp
  <1>. HIDE DEF RInv, Processes
  <1>. QED
    BY <1>1, <1>2, <1>3, <1>4, <1>5, <1>6, <1>7, <1>8 DEF RuntimeStep, InitStep

\* So no two processes ever migrate at the same time.
LEMMA RuntimeInvariant == Spec => []RInv
  <1>1. Init => RInv
    BY RInit
  <1>2. RInv /\ [Next]_vars => RInv'
    BY RuntimeSteps, RStep
  <1>. QED
    BY <1>1, <1>2, PTL DEF Spec

\* The advisory lock is enough: whatever processes build their runtime at
\* the same time, and whenever the database goes away or an instance is
\* recycled meanwhile, no migration fails because of another one.
THEOREM MigrationsAgree == Spec => []MigrationsDoNotCollide
  BY RuntimeInvariant, PTL DEF RInv, OneMigration

-----------------------------------------------------------------------------
(* Requests *)

\* The first check that fails gives the status.
LEMMA FirstFails ==
    ASSUME NEW n \in Nat, NEW checks, DOMAIN checks = 1 .. n
    PROVE  \/ FirstOf(checks) = Passed /\ \A i \in 1 .. n : checks[i] = Passed
           \/ \E i \in 1 .. n : /\ FirstOf(checks) = checks[i] /\ checks[i] # Passed
                                /\ \A j \in 1 .. n : j < i => checks[j] = Passed
  <1>. DEFINE failed == {i \in DOMAIN checks : checks[i] # Passed}
              first  == CHOOSE i \in failed : \A j \in failed : i <= j
  <1>1. FirstOf(checks) = IF failed = {} THEN Passed ELSE checks[first]
    BY DEF FirstOf
  <1>2. CASE failed = {}
    BY <1>1, <1>2
  <1>3. CASE failed # {}
    <2>1. \E i \in failed : \A j \in failed : i <= j
      <3>1. failed \in SUBSET Nat
        OBVIOUS
      <3>. HIDE DEF failed
      <3>. QED
        BY <1>3, <3>1, LeastNat
    <2>2. first \in failed /\ \A j \in failed : first <= j
      <3>. HIDE DEF failed
      <3>. QED
        BY <2>1
    <2>3. first \in 1 .. n /\ FirstOf(checks) = checks[first] /\ checks[first] # Passed
      BY <1>1, <1>3, <2>2
    <2>4. \A j \in 1 .. n : j < first => checks[j] = Passed
      BY <2>2, <2>3
    <2>. QED
      BY <2>3, <2>4
  <1>. QED
    BY <1>2, <1>3

\* The same, for as many checks as the handlers have.
LEMMA OneCheck == ASSUME NEW a PROVE FirstOf(<<a>>) = a
  <1>1. PICK checks : checks = <<a>>
    OBVIOUS
  <1>2. DOMAIN checks = 1 .. 1 /\ checks[1] = a /\ 1 \in Nat /\ 1 \in 1 .. 1
    BY <1>1
  <1>3. CASE a = Passed
    <2>1. \/ FirstOf(checks) = Passed
          \/ \E i \in 1 .. 1 : FirstOf(checks) = checks[i]
      BY <1>2, FirstFails
    <2>. QED
      BY <2>1, <1>1, <1>2, <1>3
  <1>4. CASE a # Passed
    <2>1. \E i \in 1 .. 1 : FirstOf(checks) = checks[i]
      BY <1>2, <1>4, FirstFails
    <2>. QED
      BY <2>1, <1>1, <1>2
  <1>. QED
    BY <1>3, <1>4

\* Three checks.
LEMMA ThreeChecks ==
    ASSUME NEW a, NEW b, NEW c
    PROVE  FirstOf(<<a, b, c>>) = IF a # Passed THEN a ELSE IF b # Passed THEN b ELSE c
  <1>1. PICK checks : checks = <<a, b, c>>
    OBVIOUS
  <1>2. /\ DOMAIN checks = 1 .. 3 /\ 3 \in Nat
        /\ checks[1] = a /\ checks[2] = b /\ checks[3] = c
    BY <1>1
  <1>3. \A j \in 1 .. 3 : j = 1 \/ j = 2 \/ j = 3
    OBVIOUS
  <1>4. CASE FirstOf(checks) = Passed /\ \A i \in 1 .. 3 : checks[i] = Passed
    BY <1>1, <1>2, <1>4
  <1>5. ASSUME NEW i \in 1 .. 3, FirstOf(checks) = checks[i], checks[i] # Passed,
               \A j \in 1 .. 3 : j < i => checks[j] = Passed
        PROVE  FirstOf(checks) = IF a # Passed THEN a ELSE IF b # Passed THEN b ELSE c
    BY <1>2, <1>3, <1>5
  <1>. QED
    BY <1>1, <1>2, <1>4, <1>5, FirstFails

\* Eight checks.
LEMMA EightChecks ==
    ASSUME NEW a, NEW b, NEW c, NEW d, NEW e, NEW f, NEW g, NEW h
    PROVE  FirstOf(<<a, b, c, d, e, f, g, h>>) =
              IF a # Passed THEN a ELSE IF b # Passed THEN b ELSE IF c # Passed THEN c
              ELSE IF d # Passed THEN d ELSE IF e # Passed THEN e ELSE IF f # Passed THEN f
              ELSE IF g # Passed THEN g ELSE h
  <1>1. PICK checks : checks = <<a, b, c, d, e, f, g, h>>
    OBVIOUS
  <1>2. /\ DOMAIN checks = 1 .. 8 /\ 8 \in Nat
        /\ checks[1] = a /\ checks[2] = b /\ checks[3] = c /\ checks[4] = d
        /\ checks[5] = e /\ checks[6] = f /\ checks[7] = g /\ checks[8] = h
    BY <1>1
  <1>3. \A j \in 1 .. 8 :
            j = 1 \/ j = 2 \/ j = 3 \/ j = 4 \/ j = 5 \/ j = 6 \/ j = 7 \/ j = 8
    OBVIOUS
  <1>4. CASE FirstOf(checks) = Passed /\ \A i \in 1 .. 8 : checks[i] = Passed
    BY <1>1, <1>2, <1>4
  <1>5. ASSUME NEW i \in 1 .. 8, FirstOf(checks) = checks[i], checks[i] # Passed,
               \A j \in 1 .. 8 : j < i => checks[j] = Passed
        PROVE  FirstOf(checks) =
              IF a # Passed THEN a ELSE IF b # Passed THEN b ELSE IF c # Passed THEN c
              ELSE IF d # Passed THEN d ELSE IF e # Passed THEN e ELSE IF f # Passed THEN f
              ELSE IF g # Passed THEN g ELSE h
    BY <1>2, <1>3, <1>5
  <1>. QED
    BY <1>1, <1>2, <1>4, <1>5, FirstFails

\* The early returns of createEventsHandler.
EarlyReturn(a, b, c, d, e, f, g, h) ==
    IF a # Passed THEN a ELSE IF b # Passed THEN b ELSE IF c # Passed THEN c
    ELSE IF d # Passed THEN d ELSE IF e # Passed THEN e ELSE IF f # Passed THEN f
    ELSE IF g # Passed THEN g ELSE h

Eight(a, b, c, d, e, f, g, h) == FirstOf(<<a, b, c, d, e, f, g, h>>)

EventsReturns(req, admitted) ==
    EarlyReturn(Refuse(req.method # "POST", 405),
                Refuse(~admitted, 429),
                Refuse(~Bearer(req, IngestToken), 401),
                Refuse(~req.json, 415),
                Refuse(req.declared > MaxBody, 413),
                Refuse(req.body = "unreadable", 400),
                Refuse(req.size > MaxBody, 413),
                Refuse(req.body \in {"no json", "no envelope"}, 400))

\* createEventsHandler answers what its early returns say.
LEMMA EventsStatus ==
    ASSUME NEW req, NEW admitted
    PROVE  EventsChecks(req, admitted) = EventsReturns(req, admitted)
  <1>1. \A a, b, c, d, e, f, g, h :
            Eight(a, b, c, d, e, f, g, h) = EarlyReturn(a, b, c, d, e, f, g, h)
    BY EightChecks DEF EarlyReturn, Eight
  <1>2. EventsChecks(req, admitted) =
              Eight(Refuse(req.method # "POST", 405),
                    Refuse(~admitted, 429),
                    Refuse(~Bearer(req, IngestToken), 401),
                    Refuse(~req.json, 415),
                    Refuse(req.declared > MaxBody, 413),
                    Refuse(req.body = "unreadable", 400),
                    Refuse(req.size > MaxBody, 413),
                    Refuse(req.body \in {"no json", "no envelope"}, 400))
    BY Zenon DEF EventsChecks, Eight
  <1>. QED
    BY <1>1, <1>2, Zenon DEF EventsReturns

\* What a request without the token is answered: by a function, and by the
\* handler when the limiters let it pass or not.
LEMMA FunctionTurnsAway ==
    \A req : req.auth # IngestToken => FunctionChecks("events", req) = 401
  BY OneCheck DEF FunctionChecks, Refuse, Bearer

WhenAdmitted(req) == EventsChecks(req, TRUE)

WhenLimited(req) == EventsChecks(req, FALSE)

\* Without the token, a request that the limiters let pass gets a 405 or 401.
LEMMA HandlerTurnsAway ==
    \A req : req.auth # IngestToken => WhenAdmitted(req) \in {405, 401}
  <1>. SUFFICES ASSUME NEW req, req.auth # IngestToken
                PROVE  WhenAdmitted(req) \in {405, 401}
    OBVIOUS
  <1>1. EventsReturns(req, TRUE) \in {405, 401}
    BY DEF EventsReturns, Bearer, Passed, Refuse, EarlyReturn
  <1>2. WhenAdmitted(req) = EventsReturns(req, TRUE)
    BY EventsStatus, Zenon DEF WhenAdmitted
  <1>3. PICK status : status = EventsReturns(req, TRUE)
    BY Zenon
  <1>4. status \in {405, 401}
    BY <1>1, <1>3, Zenon
  <1>5. WhenAdmitted(req) = status
    BY <1>2, <1>3, Zenon
  <1>. QED
    BY <1>4, <1>5

\* One that they do not let pass gets a 405 or 429, token or not.
LEMMA LimiterTurnsAway ==
    \A req : WhenLimited(req) \in {405, 429}
  <1>1. \A req : EventsReturns(req, FALSE) \in {405, 429}
    BY DEF EventsReturns, Passed, Refuse, EarlyReturn
  <1>. QED
    BY <1>1, EventsStatus, Zenon DEF WhenLimited

\* What stands in front of the handlers of the service.
Three(a, b, c) == FirstOf(<<a, b, c>>)

\* What the bridge answers by itself.
LEMMA BridgeReturns ==
    ASSUME NEW req
    PROVE  BridgeChecks(req) =
              LET a == Refuse(req.url = "bad", 500)
                  b == Refuse(req.method \notin Reads /\ req.size > MaxRead, 500)
                  d == Refuse(req.method \in Forbidden, 500)
              IN  IF a # Passed THEN a ELSE IF b # Passed THEN b ELSE d
  <1>1. \A a, b, d : Three(a, b, d) = IF a # Passed THEN a ELSE IF b # Passed THEN b ELSE d
    BY ThreeChecks DEF Three
  <1>2. BridgeChecks(req) = Three(Refuse(req.url = "bad", 500),
                                  Refuse(req.method \notin Reads /\ req.size > MaxRead, 500),
                                  Refuse(req.method \in Forbidden, 500))
    BY Zenon DEF BridgeChecks, Three
  <1>. QED
    BY <1>1, <1>2, Zenon

\* The listener answers POST /v1/events by itself with one of these.
LEMMA ListenerAnswers ==
    ASSUME NEW req, NEW c, Fn(c) = "events"
    PROVE  /\ ListenerChecks(c, req) \in {Passed, 500, 200, 405, 404}
           /\ ListenerChecks(c, req) = 500 => Unreadable(req)
  <1>2. BridgeChecks(req) \in {Passed, 500} /\ (BridgeChecks(req) = 500 => Unreadable(req))
    BY BridgeReturns DEF Refuse, Passed, Unreadable
  <1>3. ServerChecks(req) \in {Passed, 200, 405, 404}
    <2>1. \A a, b, d : Three(a, b, d) = IF a # Passed THEN a ELSE IF b # Passed THEN b ELSE d
      BY ThreeChecks DEF Three
    <2>2. ServerChecks(req) = Three(Refuse(req.path = "/healthz" /\ req.method \in Reads, 200),
                                    Refuse(req.path = "/healthz", 405),
                                    Refuse(req.path # "/v1/events", 404))
      BY Zenon DEF ServerChecks, Three
    <2>. QED
      BY <2>1, <2>2 DEF Refuse, Passed
  <1>4. ListenerChecks(c, req) =
            IF BridgeChecks(req) # Passed THEN BridgeChecks(req) ELSE ServerChecks(req)
    BY DEF ListenerChecks
  <1>. QED
    BY <1>2, <1>3, <1>4 DEF Passed

-----------------------------------------------------------------------------
(* What is asked *)

IsReply(r) ==
    r \in [accepted : {r.accepted}, duplicate : {r.duplicate}, rejected : {r.rejected}]

IsAsk(a) ==
    /\ a \in [stage : {a.stage}, req : {a.req}, status : {a.status}, events : {a.events},
              from : {a.from}, reply : {a.reply}]
    /\ IsReply(a.reply)

AskShape ==
    /\ ask = [c \in Everyone |-> ask[c]]
    /\ \A c \in Everyone : IsAsk(ask[c])

\* The request of one caller moves on, those of the others stay.
Asks(c, a) == /\ IsAsk(a) /\ ask' = [ask EXCEPT ![c] = a]

\* A request that moves leaves those of the other callers alone.
LEMMA AskKept ==
    ASSUME AskShape, NEW c \in Everyone, NEW a, Asks(c, a)
    PROVE  AskShape' /\ ask'[c] = a /\ \A d \in Everyone : d # c => ask'[d] = ask[d]
  BY DEF AskShape, Asks

\* The fields of an answer.
LEMMA AnswerRecord ==
    ASSUME NEW req, NEW status, NEW reply, IsReply(reply)
    PROVE  LET a == Answer(req, status, reply) IN
              /\ IsAsk(a)
              /\ a.stage = "answered" /\ a.req = req /\ a.status = status /\ a.reply = reply
              /\ a.events = <<>> /\ a.from = 0
  BY DEF Answer, Idle, IsAsk

\* The fields of a request that waits.
LEMMA PendingRecord ==
    ASSUME NEW c, NEW req
    PROVE  LET a == Pending(c, req) IN
              /\ IsAsk(a)
              /\ a.stage = "waiting" /\ a.req = req /\ a.status = 0
              /\ a.events = (IF c = "tool" THEN batch ELSE <<>>)
              /\ a.from = 0 /\ a.reply = Nothing
  BY DEF Pending, Idle, IsAsk, IsReply, Nothing

\* The fields of no request and of no response.
LEMMA Records ==
    /\ IsReply(Nothing)
    /\ IsAsk(Idle) /\ Idle.stage = "idle" /\ Idle.status = 0
    /\ IsAsk(NoResponse) /\ NoResponse.stage = "answered" /\ NoResponse.status = 0
  <1>1. IsReply(Nothing)
    BY DEF IsReply, Nothing
  <1>2. IsAsk(Idle) /\ Idle.stage = "idle" /\ Idle.status = 0
    BY <1>1 DEF IsAsk, Idle
  <1>. QED
    BY <1>1, <1>2, AnswerRecord DEF NoResponse

\* A call is refused at once or waits; by the function or by the service.
LEMMA CallAsks ==
    ASSUME NEW c \in Everyone, NEW req, CallFunction(c, req) \/ CallService(c, req)
    PROVE  /\ ask[c].stage = "idle" /\ c \in callers /\ (c = "tool" => tool = "send")
           /\ UNCHANGED <<callers, rows, live, published, replay, faults>>
           /\ \/ deployment = "functions" /\ FunctionChecks(Fn(c), req) # Passed
                 /\ Asks(c, Answer(req, FunctionChecks(Fn(c), req), Nothing))
              \/ deployment = "functions" /\ FunctionChecks(Fn(c), req) = Passed
                 /\ Asks(c, Pending(c, req))
              \/ deployment = "service" /\ memo["service"] # "ready" /\ Asks(c, NoResponse)
              \/ deployment = "service" /\ ListenerChecks(c, req) # Passed
                 /\ Asks(c, Answer(req, ListenerChecks(c, req), Nothing))
              \/ deployment = "service" /\ ListenerChecks(c, req) = Passed
                 /\ Asks(c, Pending(c, req))
  <1>1. CASE CallFunction(c, req)
    BY <1>1, Records, AnswerRecord, PendingRecord DEF CallFunction, Due, Early, Receive, Asks
  <1>2. CASE CallService(c, req)
    BY <1>2, Records, AnswerRecord, PendingRecord DEF CallService, Due, Receive, Asks, runtime
  <1>. QED
    BY <1>1, <1>2

\* A request on its way through the handlers.
Forward(a, stage) == [a EXCEPT !.stage = stage]

Stored(a, from, n) == [a EXCEPT !.from = from, !.reply.accepted = @ + n]

\* The fields of a request that has got further.
LEMMA ForwardRecord ==
    ASSUME NEW a, IsAsk(a), NEW stage
    PROVE  LET b == Forward(a, stage) IN
              /\ IsAsk(b) /\ b.stage = stage
              /\ b.req = a.req /\ b.status = a.status /\ b.events = a.events
              /\ b.from = a.from /\ b.reply = a.reply
  BY DEF IsAsk, Forward

\* The fields of a request that has stored a chunk.
LEMMA StoredRecord ==
    ASSUME NEW a, IsAsk(a), NEW from, NEW n
    PROVE  LET b == Stored(a, from, n) IN
              /\ IsAsk(b) /\ b.stage = a.stage
              /\ b.req = a.req /\ b.status = a.status /\ b.events = a.events
              /\ b.from = from /\ b.reply.accepted = a.reply.accepted + n
  BY DEF IsAsk, IsReply, Stored

\* The handler lets a request in, or turns it away.
LEMMA EnterAsks ==
    ASSUME AskShape, NEW c \in Everyone, Enter(c)
    PROVE  /\ ask[c].stage = "waiting"
           /\ UNCHANGED <<callers, rows, live, published, runtime, faults, replay>>
           /\ \/ HandlerChecks(c, TRUE) = Passed /\ Asks(c, Forward(ask[c], "first"))
              \/ /\ HandlerChecks(c, TRUE) # Passed
                 /\ Asks(c, Answer(ask[c].req, HandlerChecks(c, TRUE), Nothing))
  BY ForwardRecord, AnswerRecord, Records DEF AskShape, Enter, Receive, Asks, Forward

\* The limiters turn a request away.
LEMMA NotAdmittedAsks ==
    ASSUME NEW c \in Everyone, NotAdmitted(c)
    PROVE  /\ ask[c].stage = "waiting" /\ faults' = faults + 1
           /\ UNCHANGED <<callers, rows, live, published, runtime, replay>>
           /\ Asks(c, Answer(ask[c].req, HandlerChecks(c, FALSE), Nothing))
  BY AnswerRecord, Records DEF NotAdmitted, Receive, Asks, Fault

\* A request that waits for a runtime that failed is answered.
LEMMA NoRuntimeAsks ==
    ASSUME NEW c \in Everyone, NoRuntime(c)
    PROVE  /\ ask[c].stage = "waiting" /\ memo[At(c)] = "rejected"
           /\ UNCHANGED <<callers, rows, live, published, runtime, faults, replay>>
           /\ Asks(c, Answer(ask[c].req, Error(c), Nothing))
  BY AnswerRecord, Records DEF NoRuntime, Receive, Asks

\* A request whose query fails is answered.
LEMMA QueryFailsAsks ==
    ASSUME NEW c \in Everyone, QueryFails(c)
    PROVE  /\ ask[c].stage \in {"first", "insert"} /\ db = "down"
           /\ UNCHANGED <<callers, rows, live, published, runtime, faults, replay>>
           /\ Asks(c, Answer(ask[c].req, Error(c), Nothing))
  BY AnswerRecord, Records DEF QueryFails, Handled, Asks

\* recordSensorLive is done.
LEMMA RecordLiveAsks ==
    ASSUME AskShape, NEW c \in Everyone, RecordLive(c)
    PROVE  /\ ask[c].stage = "first" /\ c \in {"tool", "late"}
           /\ UNCHANGED <<callers, rows, published, runtime, faults, replay>>
           /\ Asks(c, Forward(ask[c], "insert"))
  BY ForwardRecord DEF AskShape, RecordLive, Handled, Asks, Forward

\* A caller takes its answer.
LEMMA ForgetAsks ==
    ASSUME NEW c \in Everyone, Forget(c)
    PROVE  /\ c # "tool" /\ Asks(c, Idle)
           /\ UNCHANGED <<callers, rows, live, published, runtime, faults, replay>>
  BY Records DEF Forget, Receive, Asks

\* The end of insertEvents after from, and what it inserts.
Upto(from, n) == IF from + ChunkRows < n THEN from + ChunkRows ELSE n

ChunkAt(c) ==
    SubSeq(ValidPart(ask[c].events), ask[c].from + 1,
           Upto(ask[c].from, Len(ValidPart(ask[c].events))))

NewAt(c) == New(ChunkAt(c))

\* A chunk is stored, or the request is answered with an error.
LEMMA InsertChunkAsks ==
    ASSUME AskShape, NEW c \in Everyone, InsertChunk(c)
    PROVE  /\ ask[c].stage = "insert" /\ db = "up"
           /\ ask[c].from < Len(ValidPart(ask[c].events))
           /\ UNCHANGED <<callers, live, published, runtime, faults, replay>>
           /\ \/ /\ rows' = rows \cup NewAt(c)
                 /\ Asks(c, Stored(ask[c], Upto(ask[c].from, Len(ValidPart(ask[c].events))),
                                   Cardinality(NewAt(c))))
              \/ /\ ~ \A r \in NewAt(c) : Storable(r)
                 /\ rows' = rows
                 /\ Asks(c, Answer(ask[c].req, Error(c), Nothing))
  BY StoredRecord, AnswerRecord, Records
     DEF AskShape, InsertChunk, Handled, Asks, Stored, NewAt, ChunkAt, Upto

\* The request of a batch is answered.
LEMMA AcceptedAsks ==
    ASSUME NEW c \in Everyone, Accepted(c)
    PROVE  /\ ask[c].stage = "insert" /\ ask[c].from = Len(ValidPart(ask[c].events))
           /\ UNCHANGED <<callers, rows, live, published, runtime, faults, replay>>
           /\ LET reply == Reply(ask[c].events, ask[c].reply.accepted) IN
                Asks(c, Answer(ask[c].req,
                               IF reply.rejected > 0 /\ reply.accepted = 0 THEN 400 ELSE 202, reply))
  <1>1. IsReply(Reply(ask[c].events, ask[c].reply.accepted))
    BY DEF IsReply, Reply
  <1>. QED
    BY <1>1, AnswerRecord DEF Accepted, Handled, Asks

\* The reader and the scheduler are answered.
LEMMA OthersAsk ==
    ASSUME Read \/ Aggregate
    PROVE  /\ \/ Read /\ Asks("reader", Answer(ask["reader"].req, 200, Nothing))
                 /\ UNCHANGED published
              \/ Aggregate /\ Asks("cron", Answer(ask["cron"].req, 200, Nothing))
                 /\ published' = Ids
           /\ UNCHANGED <<callers, rows, live, runtime, faults, replay>>
  BY AnswerRecord, Records DEF Read, Aggregate, Handled, Asks

\* The tool hears an answer, or gives up waiting for one.
LEMMA ToolHearsAsks ==
    ASSUME ToolHears
    PROVE  /\ ask["tool"].stage = "answered" /\ Asks("tool", Idle)
           /\ IF ask["tool"].status = 202 THEN Taken(ask["tool"].reply) ELSE Refused
           /\ UNCHANGED <<callers, runtime, faults, rows, live, published>>
  BY Records DEF ToolHears, Asks

\* A response is lost.
LEMMA LoseResponseAsks ==
    ASSUME LoseResponse
    PROVE  /\ ask["tool"].stage = "answered" /\ Asks("tool", NoResponse) /\ faults' = faults + 1
           /\ UNCHANGED <<callers, runtime, replay, rows, live, published>>
  BY Records DEF LoseResponse, Asks, Fault

\* The tool gives its request up, and the handler goes on with it.
LEMMA TimesOutAsks ==
    ASSUME AskShape, TimesOut
    PROVE  /\ ask["tool"].stage \in {"waiting", "first", "insert"}
           /\ ask["late"].stage = "idle" /\ faults' = faults + 1
           /\ ask'["tool"] = NoResponse /\ ask'["late"] = ask["tool"]
           /\ \A d \in Everyone \ {"tool", "late"} : ask'[d] = ask[d]
           /\ AskShape'
           /\ UNCHANGED <<callers, runtime, replay, rows, live, published>>
  <1>1. ask' = [ask EXCEPT !["tool"] = NoResponse, !["late"] = ask["tool"]]
    BY DEF TimesOut
  <1>2. \A d \in Everyone :
            ask'[d] = IF d = "late" THEN ask["tool"] ELSE IF d = "tool" THEN NoResponse ELSE ask[d]
    BY <1>1 DEF AskShape, Everyone
  <1>3. ask' = [d \in Everyone |-> ask'[d]]
    BY <1>1 DEF AskShape
  <1>4. \A d \in Everyone : IsAsk(ask'[d])
    BY <1>2, Records DEF AskShape, Everyone
  <1>. QED
    BY <1>2, <1>3, <1>4 DEF TimesOut, Fault, AskShape, Everyone

\* The requests in a process that is gone are dropped.
LEMMA DiesAsks ==
    ASSUME AskShape, NEW i \in Processes, Dies(i)
    PROVE  /\ faults' = faults + 1
           /\ \A d \in Everyone :
                \/ ask'[d] = ask[d]
                \/ ask[d].stage \in {"waiting", "first", "insert"} /\ d = "late" /\ ask'[d] = Idle
                \/ /\ ask[d].stage \in {"waiting", "first", "insert"} /\ d # "late"
                   /\ ask'[d] = NoResponse
           /\ AskShape'
           /\ UNCHANGED <<callers, replay, rows, live, published, deployment, db, schema, collided>>
  <1>1. \A d \in Everyone :
            ask'[d] = IF At(d) = i /\ ask[d].stage \in {"waiting", "first", "insert"}
                      THEN IF d = "late" THEN Idle ELSE NoResponse
                      ELSE ask[d]
    BY DEF Dies
  <1>2. ask' = [d \in Everyone |-> ask'[d]]
    BY DEF Dies
  <1>3. \A d \in Everyone : IsAsk(ask'[d])
    BY <1>1, Records DEF AskShape
  <1>. QED
    BY <1>1, <1>2, <1>3 DEF Dies, Recycle, Fault, AskShape

\* What a step does to the requests.
LEMMA AskSteps ==
    ASSUME AskShape, [Next]_vars
    PROVE  \/ UNCHANGED ask
           \/ \E c \in Everyone : \E a : Asks(c, a)
           \/ TimesOut
           \/ \E i \in Processes : Dies(i)
  <1>1. CASE UNCHANGED vars
    BY <1>1 DEF vars
  <1>2. CASE Elsewhere(StartService) \/ (\E i \in Processes : Elsewhere(InitStep(i)))
             \/ Elsewhere(GoDown) \/ Elsewhere(ComeUp)
    BY <1>2, Zenon DEF Elsewhere
  <1>3. CASE ToolStep \/ Rerun
    BY <1>3 DEF ToolStep, Rerun
  <1>4. CASE ToolHears \/ LoseResponse
    BY <1>4, ToolHearsAsks, LoseResponseAsks DEF Everyone
  <1>5. ASSUME NEW c \in Everyone, NEW req, CallFunction(c, req) \/ CallService(c, req)
        PROVE  \E a : Asks(c, a)
    BY <1>5, CallAsks, Zenon
  <1>6. ASSUME NEW c \in Everyone,
               \/ Enter(c) \/ NoRuntime(c) \/ QueryFails(c)
               \/ RecordLive(c) \/ InsertChunk(c) \/ Accepted(c)
               \/ NotAdmitted(c) \/ Forget(c)
        PROVE  \E a : Asks(c, a)
    BY <1>6, EnterAsks, NoRuntimeAsks, QueryFailsAsks, RecordLiveAsks, InsertChunkAsks,
       AcceptedAsks, NotAdmittedAsks, ForgetAsks, Zenon
  <1>7. CASE Read \/ Aggregate
    BY <1>7, OthersAsk DEF Everyone
  <1>. QED
    BY <1>1, <1>2, <1>3, <1>4, <1>5, <1>6, <1>7, Steps

\* Every request is a record with these fields.
LEMMA ShapeInvariant == Spec => []AskShape
  <1>1. Init => AskShape
    BY Records DEF Init, AskShape
  <1>2. ASSUME AskShape, [Next]_vars
        PROVE  AskShape'
    BY <1>2, AskSteps, AskKept, TimesOutAsks, DiesAsks DEF AskShape
  <1>. QED
    BY <1>1, <1>2, PTL DEF Spec

-----------------------------------------------------------------------------
(* Strangers *)

\* A stranger who is waiting is at the service, and without the token; no
\* stranger gets into a handler.
StrangersWait ==
    LET a == ask["stranger"] IN
    /\ a.stage \in {"idle", "waiting", "answered"}
    /\ a.stage = "waiting" => deployment = "service" /\ a.req.auth # IngestToken

SInv == StrangersWait /\ StrangersLearnNothing

\* An answer a stranger may see.
Harmless(a) ==
    /\ a.stage # "waiting"
    /\ a.stage \in {"idle", "answered"}
    /\ \/ a.status \in {0, 200, 401, 404, 405, 429}
       \/ a.status = 500 /\ deployment = "service" /\ Unreadable(a.req)

\* An answer a stranger may see tells nothing.
LEMMA HarmlessKeeps ==
    ASSUME Harmless(ask'["stranger"]), UNCHANGED deployment
    PROVE  SInv'
  BY DEF Harmless, SInv, StrangersWait, StrangersLearnNothing, Unreadable

\* What is deployed stays deployed.
LEMMA DeploymentKept == ASSUME [Next]_vars PROVE UNCHANGED deployment
  BY RuntimeSteps DEF RuntimeStep, Wakes, InitStep, Migrate, CommitMigration, InitFails,
                      Recycle, GoDown, ComeUp, runtime

\* No step tells a stranger more, or lets one in.
LEMMA StrangerStep ==
    ASSUME RInv, AskShape, SInv, [Next]_vars
    PROVE  SInv'
  <1>. DEFINE me == "stranger"
  <1>0. me \in Everyone /\ Fn(me) = "events" /\ me \notin {"tool", "late", "reader", "cron"}
    BY DEF Everyone, Fn
  <1>1. ASSUME UNCHANGED <<ask, deployment>>
        PROVE  SInv'
    BY <1>1 DEF SInv, StrangersWait, StrangersLearnNothing, Unreadable
  <1>2. ASSUME NEW c \in Everyone, NEW a, Asks(c, a), c # me, UNCHANGED deployment
        PROVE  SInv'
    BY <1>0, <1>2, AskKept DEF SInv, StrangersWait, StrangersLearnNothing, Unreadable
  <1>3. ASSUME NEW a, Asks(me, a), Harmless(a)
        PROVE  SInv'
    BY <1>0, <1>3, AskKept, HarmlessKeeps, DeploymentKept
  <1>4. CASE UNCHANGED vars
    BY <1>1, <1>4 DEF vars, runtime
  <1>5. CASE Elsewhere(StartService) \/ (\E i \in Processes : Elsewhere(InitStep(i)))
             \/ Elsewhere(GoDown) \/ Elsewhere(ComeUp)
    BY <1>1, <1>5 DEF Elsewhere, StartService, InitStep, Migrate, CommitMigration, InitFails,
                      GoDown, ComeUp
  <1>6. CASE ToolStep \/ Rerun
    BY <1>1, <1>6 DEF ToolStep, Rerun, runtime
  <1>7. CASE ToolHears \/ LoseResponse
    <2>1. "tool" \in Everyone /\ "tool" # me
      BY DEF Everyone
    <2>. QED
      BY <1>2, <1>7, <2>1, ToolHearsAsks, LoseResponseAsks DEF runtime
  <1>8. CASE TimesOut
    BY <1>0, <1>8, TimesOutAsks DEF SInv, StrangersWait, StrangersLearnNothing, Unreadable, runtime
  <1>9. ASSUME NEW i \in Processes, Dies(i)
        PROVE  SInv'
    <2>1. Harmless(NoResponse)
      BY Records DEF Harmless
    <2>2. CASE ask'[me] = NoResponse
      BY <2>1, <2>2, HarmlessKeeps, DeploymentKept
    <2>3. CASE ask'[me] = ask[me]
      BY <2>3, <1>9, <1>0, DiesAsks DEF SInv, StrangersWait, StrangersLearnNothing, Unreadable
    <2>. QED
      BY <1>9, <1>0, <2>2, <2>3, DiesAsks
  <1>10. ASSUME NEW c \in Everyone, NEW req \in Requests(c),
                CallFunction(c, req) \/ CallService(c, req)
         PROVE  SInv'
    <2>0. UNCHANGED deployment
      BY <1>10 DEF CallFunction, CallService, runtime
    <2>1. CASE c # me
      BY <1>2, <1>10, <2>0, <2>1, CallAsks
    <2>2. CASE c = me
      <3>1. req.auth # IngestToken
        BY <2>2, PathAssumption DEF Requests
      <3>7. FunctionChecks(Fn(me), req) = 401 /\ 401 # Passed
        <4>1. FunctionChecks("events", req) = 401
          BY <3>1, FunctionTurnsAway
        <4>. QED
          BY <1>0, <4>1 DEF Passed
      <3>2. ASSUME NEW status \in {200, 401, 404, 405, 500},
                   status = 500 => deployment = "service" /\ Unreadable(req),
                   Asks(me, Answer(req, status, Nothing))
            PROVE  SInv'
        <4>1. Harmless(Answer(req, status, Nothing))
          BY <3>2, AnswerRecord, Records DEF Harmless
        <4>. QED
          BY <1>3, <3>2, <4>1
      <3>3. CASE deployment = "functions" /\ Asks(me, Answer(req, FunctionChecks(Fn(me), req), Nothing))
        BY <3>2, <3>3, <3>7
      <3>4. CASE Asks(me, NoResponse)
        BY <1>3, <3>4, Records DEF Harmless
      <3>5. CASE deployment = "service" /\ ListenerChecks(me, req) # Passed
                 /\ Asks(me, Answer(req, ListenerChecks(me, req), Nothing))
        BY <1>0, <3>2, <3>5, ListenerAnswers
      <3>6. CASE deployment = "service" /\ Asks(me, Pending(me, req))
        <4>1. ask'[me] = Pending(me, req)
          BY <1>0, <3>6, AskKept
        <4>. QED
          BY <2>0, <3>1, <3>6, <4>1, PendingRecord
             DEF SInv, StrangersWait, StrangersLearnNothing, Unreadable
      <3>. QED
        BY <1>10, <2>2, <3>3, <3>4, <3>5, <3>6, <3>7, CallAsks
    <2>. QED
      BY <2>1, <2>2
  <1>11. ASSUME NEW c \in Everyone, NEW a, Asks(c, a), UNCHANGED runtime, c = me => Harmless(a)
         PROVE  SInv'
    BY <1>2, <1>3, <1>11 DEF runtime
  <1>12. ASSUME NEW c \in Everyone, Enter(c)
         PROVE  SInv'
    <2>1. CASE c = me
      <3>9. HandlerChecks(c, TRUE) = EventsChecks(ask[c].req, TRUE)
        BY <2>1 DEF HandlerChecks, Fn
      <3>1. HandlerChecks(c, TRUE) = WhenAdmitted(ask[c].req)
        BY <3>9, Zenon DEF WhenAdmitted
      <3>2. ask[c].req.auth # IngestToken
        BY <1>12, <2>1, EnterAsks DEF SInv, StrangersWait
      <3>4. PICK status : status = HandlerChecks(c, TRUE)
        BY Zenon
      <3>3. status = WhenAdmitted(ask[c].req)
        BY <3>1, <3>4, Zenon
      <3>8. status \in {405, 401}
        BY <3>2, <3>3, HandlerTurnsAway
      <3>5. status \in {405, 401} /\ status # Passed
        BY <3>8 DEF Passed
      <3>6. Asks(c, Answer(ask[c].req, status, Nothing)) /\ UNCHANGED runtime
        BY <1>12, <3>4, <3>5, EnterAsks, Zenon
      <3>7. Harmless(Answer(ask[c].req, status, Nothing))
        BY <3>5, AnswerRecord, Records DEF Harmless
      <3>. QED
        BY <1>11, <3>6, <3>7
    <2>2. CASE c # me
      BY <1>11, <1>12, <2>2, EnterAsks
    <2>. QED
      BY <2>1, <2>2
  <1>13. ASSUME NEW c \in Everyone, NotAdmitted(c)
         PROVE  SInv'
    <2>1. CASE c = me
      <3>9. HandlerChecks(c, FALSE) = EventsChecks(ask[c].req, FALSE)
        BY <2>1 DEF HandlerChecks, Fn
      <3>1. HandlerChecks(c, FALSE) = WhenLimited(ask[c].req)
        BY <3>9, Zenon DEF WhenLimited
      <3>2. ask[c].req.auth # IngestToken
        BY <1>13, <2>1, NotAdmittedAsks DEF SInv, StrangersWait
      <3>4. PICK status : status = HandlerChecks(c, FALSE)
        BY Zenon
      <3>3. status = WhenLimited(ask[c].req)
        BY <3>1, <3>4, Zenon
      <3>8. status \in {405, 429}
        BY <3>2, <3>3, LimiterTurnsAway
      <3>5. status \in {405, 429} /\ status # Passed
        BY <3>8 DEF Passed
      <3>6. Asks(c, Answer(ask[c].req, status, Nothing)) /\ UNCHANGED runtime
        BY <1>13, <3>4, <3>5, NotAdmittedAsks, Zenon
      <3>7. Harmless(Answer(ask[c].req, status, Nothing))
        BY <3>5, AnswerRecord, Records DEF Harmless
      <3>. QED
        BY <1>11, <3>6, <3>7
    <2>2. CASE c # me
      BY <1>11, <1>13, <2>2, NotAdmittedAsks
    <2>. QED
      BY <2>1, <2>2
  <1>14. ASSUME NEW c \in Everyone, NoRuntime(c)
         PROVE  SInv'
    <2>1. c # me
      BY <1>14, NoRuntimeAsks DEF SInv, StrangersWait, RInv, NoDeadService, At
    <2>. QED
      BY <1>11, <1>14, <2>1, NoRuntimeAsks
  <1>15. ASSUME NEW c \in Everyone,
                QueryFails(c) \/ RecordLive(c) \/ InsertChunk(c) \/ Accepted(c)
         PROVE  SInv'
    <2>1. c # me
      BY <1>15 DEF SInv, StrangersWait, QueryFails, RecordLive, InsertChunk, Accepted
    <2>2. \E a : Asks(c, a) /\ UNCHANGED runtime
      BY <1>15, QueryFailsAsks, RecordLiveAsks, InsertChunkAsks, AcceptedAsks, Zenon
    <2>. QED
      BY <1>11, <2>1, <2>2
  <1>16. ASSUME NEW c \in Everyone, Forget(c)
         PROVE  SInv'
    BY <1>11, <1>16, ForgetAsks, Records DEF Harmless
  <1>17. CASE Read \/ Aggregate
    <2>1. "reader" \in Everyone /\ "cron" \in Everyone
      BY DEF Everyone
    <2>. QED
      BY <1>0, <1>11, <1>17, <2>1, OthersAsk
  <1>. QED
    BY <1>4, <1>5, <1>6, <1>7, <1>8, <1>9, <1>10, <1>12, <1>13, <1>14, <1>15, <1>16, <1>17, Steps

\* Whoever calls without the token wakes no function, and gets the same
\* answers whether the database is up, down or never configured; a 500 only
\* from the bridge of the service, for what is not a request.
THEOREM NothingLearnt == Spec => []StrangersLearnNothing
  <1>1. Init => SInv
    BY Records DEF Init, SInv, StrangersWait, StrangersLearnNothing, Everyone
  <1>2. RInv /\ AskShape /\ SInv /\ [Next]_vars => SInv'
    BY StrangerStep
  <1>. QED
    BY <1>1, <1>2, RuntimeInvariant, ShapeInvariant, PTL DEF Spec, SInv

-----------------------------------------------------------------------------
(* The events of a batch that are taken *)

\* Event n of a log is taken.
Good(f, n) == \E w \in {ParseLine(f[n], Now)} : EventOk(w, Now)

\* What g must be if it has the valid events of each prefix.
GoodPrefixes(f, events, g) ==
    [n \in 0 .. Len(events) |->
        IF n = 0 THEN <<>>
        ELSE IF Good(f, events[n]) THEN Append(g[n - 1], events[n]) ELSE g[n - 1]]

GoodPart(f, events) == (CHOOSE g : g = GoodPrefixes(f, events, g))[Len(events)]

\* ValidPart depends on the log alone.
LEMMA ValidIsGood == \A events : ValidPart(events) = GoodPart(file, events)
  BY Zenon DEF ValidPart, GoodPart, GoodPrefixes, Good, Valid, Wire

\* The recursion has a solution.
LEMMA HasPrefixes ==
    ASSUME NEW f, NEW S, NEW events \in Seq(S)
    PROVE  \E g : g = GoodPrefixes(f, events, g)
  <1>. DEFINE Upto_(m) == {n \in 0 .. Len(events) : n <= m}
              At_(g, n) == IF n = 0 THEN <<>>
                           ELSE IF Good(f, events[n]) THEN Append(g[n - 1], events[n])
                           ELSE g[n - 1]
              Has(m) == \E g : g = [n \in Upto_(m) |-> At_(g, n)]
              bad == {m \in Nat : ~Has(m)}
  <1>1. Has(0)
    <2>. DEFINE g == [n \in Upto_(0) |-> <<>>]
    <2>1. g = [n \in Upto_(0) |-> At_(g, n)]
      OBVIOUS
    <2>. QED
      BY <2>1
  <1>2. ASSUME NEW m \in Nat, Has(m)
        PROVE  Has(m + 1)
    <2>1. PICK h : h = [n \in Upto_(m) |-> At_(h, n)]
      BY <1>2
    <2>. DEFINE g == [n \in Upto_(m + 1) |-> At_(h, n)]
    <2>2. ASSUME NEW n \in Upto_(m + 1)
          PROVE  At_(h, n) = At_(g, n)
      <3>1. CASE n = 0
        BY <3>1
      <3>2. CASE n # 0
        <4>1. n - 1 \in Upto_(m) /\ n - 1 \in Upto_(m + 1)
          BY <3>2
        <4>2. h[n - 1] = g[n - 1]
          <5>1. h[n - 1] = At_(h, n - 1)
            BY <2>1, <4>1
          <5>. QED
            BY <5>1, <4>1
        <4>. QED
          BY <4>2, <3>2
      <3>. QED
        BY <3>1, <3>2
    <2>3. g = [n \in Upto_(m + 1) |-> At_(g, n)]
      BY <2>2
    <2>. QED
      BY <2>3
  <1>3. bad = {}
    <2>. SUFFICES ASSUME bad # {} PROVE FALSE
      OBVIOUS
    <2>. HIDE DEF Has
    <2>1. PICK m \in bad : \A k \in bad : m <= k
      BY LeastNat
    <2>2. m # 0 /\ m \in Nat
      BY <1>1, <2>1
    <2>3. m - 1 \in Nat /\ m - 1 \notin bad
      BY <2>1, <2>2
    <2>4. Has((m - 1) + 1)
      BY <1>2, <2>3
    <2>. QED
      BY <2>1, <2>2, <2>4
  <1>4. Has(Len(events)) /\ Upto_(Len(events)) = 0 .. Len(events)
    <2>. HIDE DEF Has
    <2>. QED
      BY <1>3
  <1>. QED
    BY <1>4 DEF GoodPrefixes

\* The valid events of a batch are the events of it that are valid.
Filtered(f, S, s, n, v) ==
    /\ v \in Seq(S) /\ Len(v) <= n
    /\ \A i \in 1 .. Len(v) : Good(f, v[i]) /\ \E j \in 1 .. n : v[i] = s[j]
    /\ \A j \in 1 .. n : Good(f, s[j]) => \E i \in 1 .. Len(v) : v[i] = s[j]
    /\ (\A j \in 1 .. n : Good(f, s[j])) => Len(v) = n

\* GoodPart takes the events that are valid, in a batch of any length.
LEMMA GoodPartFilters ==
    ASSUME NEW f, NEW S, NEW events \in Seq(S)
    PROVE  Filtered(f, S, events, Len(events), GoodPart(f, events))
  <1>. DEFINE g == CHOOSE h : h = GoodPrefixes(f, events, h)
  <1>1. g = GoodPrefixes(f, events, g)
    BY HasPrefixes
  <1>2. GoodPart(f, events) = g[Len(events)]
    BY DEF GoodPart
  <1>. HIDE DEF g
  <1>. DEFINE bad == {n \in 0 .. Len(events) : ~Filtered(f, S, events, n, g[n])}
  <1>3. g[0] = <<>> /\ 0 \notin bad
    BY <1>1 DEF GoodPrefixes, Filtered
  <1>4. ASSUME NEW n \in 1 .. Len(events), n - 1 \notin bad
        PROVE  n \notin bad
    <2>0. n \in Nat /\ n # 0 /\ n - 1 \in Nat /\ n \in 0 .. Len(events) /\ events[n] \in S
      OBVIOUS
    <2>1. /\ g[n] = IF Good(f, events[n]) THEN Append(g[n - 1], events[n]) ELSE g[n - 1]
          /\ n \in Nat /\ n # 0 /\ n - 1 \in Nat /\ events[n] \in S
      <3>1. GoodPrefixes(f, events, g)[n] =
                IF Good(f, events[n]) THEN Append(g[n - 1], events[n]) ELSE g[n - 1]
        BY <2>0 DEF GoodPrefixes
      <3>. QED
        BY <1>1, <2>0, <3>1
    <2>2. Filtered(f, S, events, n - 1, g[n - 1])
      BY <1>4
    <2>. DEFINE v == g[n - 1]
    <2>3. v \in Seq(S) /\ Len(v) \in Nat /\ Len(v) <= n - 1
      BY <2>2 DEF Filtered
    <2>4. \A j \in 1 .. n : j = n \/ j \in 1 .. n - 1
      BY <2>1
    <2>5. CASE ~Good(f, events[n])
      <3>1. g[n] = v
        BY <2>1, <2>5
      <3>. HIDE DEF v
      <3>2. v \in Seq(S) /\ Len(v) <= n
        BY <2>1, <2>3
      <3>3. \A i \in 1 .. Len(v) : Good(f, v[i]) /\ \E j \in 1 .. n : v[i] = events[j]
        BY <2>1, <2>2 DEF Filtered, v
      <3>4. \A j \in 1 .. n : Good(f, events[j]) => \E i \in 1 .. Len(v) : v[i] = events[j]
        BY <2>2, <2>4, <2>5 DEF Filtered, v
      <3>5. ~ \A j \in 1 .. n : Good(f, events[j])
        BY <2>1, <2>5
      <3>. QED
        BY <3>1, <3>2, <3>3, <3>4, <3>5 DEF Filtered
    <2>6. CASE Good(f, events[n])
      <3>. DEFINE u == Append(v, events[n])
      <3>1. /\ u \in Seq(S) /\ Len(u) = Len(v) + 1 /\ u[Len(v) + 1] = events[n]
            /\ \A i \in 1 .. Len(v) : u[i] = v[i]
        BY <2>1, <2>3
      <3>2. g[n] = u
        BY <2>1, <2>6
      <3>. HIDE DEF u
      <3>3. \A i \in 1 .. Len(u) : i = Len(v) + 1 \/ i \in 1 .. Len(v)
        BY <2>3, <3>1
      <3>4. u \in Seq(S) /\ Len(u) <= n
        BY <2>3, <3>1
      <3>5. \A i \in 1 .. Len(u) : Good(f, u[i]) /\ \E j \in 1 .. n : u[i] = events[j]
        <4>1. ASSUME NEW i \in 1 .. Len(v)
              PROVE  Good(f, u[i]) /\ \E j \in 1 .. n : u[i] = events[j]
          <5>1. PICK j \in 1 .. n - 1 : v[i] = events[j]
            BY <2>2 DEF Filtered
          <5>2. Good(f, v[i])
            BY <2>2 DEF Filtered
          <5>3. u[i] = v[i] /\ j \in 1 .. n
            BY <2>1, <3>1, <5>1
          <5>. QED
            BY <5>1, <5>2, <5>3
        <4>2. n \in 1 .. n
          BY <2>1
        <4>. HIDE DEF v
        <4>. QED
          BY <2>6, <3>1, <3>3, <4>1, <4>2
      <3>6. ASSUME NEW j \in 1 .. n, Good(f, events[j])
            PROVE  \E i \in 1 .. Len(u) : u[i] = events[j]
        <4>1. CASE j = n
          BY <2>3, <3>1, <4>1
        <4>2. CASE j \in 1 .. n - 1
          <5>1. PICK i \in 1 .. Len(v) : v[i] = events[j]
            BY <2>2, <3>6, <4>2 DEF Filtered
          <5>. QED
            BY <2>3, <3>1, <5>1
        <4>. QED
          BY <2>4, <4>1, <4>2
      <3>7. (\A j \in 1 .. n : Good(f, events[j])) => Len(u) = n
        BY <2>1, <2>2, <2>3, <3>1 DEF Filtered
      <3>. QED
        BY <3>2, <3>4, <3>5, <3>6, <3>7 DEF Filtered
    <2>. QED
      BY <2>5, <2>6
  <1>5. bad = {}
    <2>. SUFFICES ASSUME bad # {} PROVE FALSE
      OBVIOUS
    <2>1. bad \in SUBSET Nat
      OBVIOUS
    <2>. HIDE DEF bad
    <2>2. PICK m \in bad : \A k \in bad : m <= k
      BY <2>1, LeastNat
    <2>3. m \in 0 .. Len(events) /\ m # 0
      BY <1>3, <2>2 DEF bad
    <2>4. m - 1 \notin bad /\ m \in 1 .. Len(events)
      BY <2>1, <2>2, <2>3
    <2>. QED
      BY <1>4, <2>2, <2>4
  <1>6. Len(events) \in 0 .. Len(events)
    OBVIOUS
  <1>. QED
    BY <1>2, <1>5, <1>6

-----------------------------------------------------------------------------
(* What a step does to the requests, the rows and the tool *)

Busy == {"waiting", "first", "insert"}

\* The request of c stays, is made, is turned away, goes on, is answered, is
\* dropped, or is the one the tool has given up.
Stays(c) == ask'[c] = ask[c]

Dropped(c) == c # "tool" /\ ask'[c] = Idle

Made(c) ==
    /\ ask[c].stage = "idle" /\ (c = "tool" => tool = "send")
    /\ \E req : ask'[c] = Pending(c, req)

TurnedAway(c) ==
    /\ c = "tool" => tool = "send" \/ ask[c].stage # "idle"
    /\ \E req, status : ask'[c] = Answer(req, status, Nothing) /\ (c = "tool" => status # 202)

GoesOn(c) ==
    \/ ask[c].stage = "waiting" /\ ask'[c] = Forward(ask[c], "first")
    \/ ask[c].stage = "first" /\ ask'[c] = Forward(ask[c], "insert")

Inserts(c) ==
    /\ ask[c].stage = "insert" /\ ask[c].from < Len(ValidPart(ask[c].events))
    /\ ask'[c] = Stored(ask[c], Upto(ask[c].from, Len(ValidPart(ask[c].events))),
                        Cardinality(NewAt(c)))
    /\ rows' = rows \cup NewAt(c)

Answered(c) ==
    /\ ask[c].stage = "insert" /\ ask[c].from = Len(ValidPart(ask[c].events))
    /\ \E req, status :
          ask'[c] = Answer(req, status, Reply(ask[c].events, ask[c].reply.accepted))

GivenUp(c) == c = "late" /\ ask["tool"].stage \in Busy /\ ask'[c] = ask["tool"]

Moves(c) ==
    \/ Stays(c) \/ Dropped(c) \/ Made(c) \/ TurnedAway(c) \/ GoesOn(c)
    \/ Inserts(c) \/ Answered(c) \/ GivenUp(c)

\* The handler of the tool's request answers 202 in one place only.
LEMMA NotAccepted ==
    /\ \A req : FunctionChecks("events", req) # 202
    /\ \A req : WhenAdmitted(req) # 202
    /\ \A req : WhenLimited(req) # 202
    /\ \A c : Error(c) # 202
  <1>1. \A req : FunctionChecks("events", req) # 202
    BY OneCheck DEF FunctionChecks, Refuse, Bearer, Passed
  <1>2. ASSUME NEW req
        PROVE  WhenAdmitted(req) # 202
    <2>1. EventsReturns(req, TRUE) # 202
      BY DEF EventsReturns, Bearer, Passed, Refuse, EarlyReturn
    <2>2. WhenAdmitted(req) = EventsReturns(req, TRUE)
      BY EventsStatus, Zenon DEF WhenAdmitted
    <2>. QED
      BY <2>1, <2>2, Zenon
  <1>3. \A req : WhenLimited(req) # 202
    BY LimiterTurnsAway
  <1>4. \A c : Error(c) # 202
    BY DEF Error
  <1>. QED
    BY <1>1, <1>2, <1>3, <1>4

\* One request moves, or none.
LEMMA OneMoves ==
    ASSUME AskShape, NEW c \in Everyone, NEW a, Asks(c, a), Moves(c)
    PROVE  \A d \in Everyone : Moves(d)
  <1>1. \A d \in Everyone : d # c => ask'[d] = ask[d]
    BY AskKept
  <1>. QED
    BY <1>1, Zenon DEF Moves, Stays

\* A call.
LEMMA CallMoves ==
    ASSUME AskShape, NEW c \in Everyone, NEW req, CallFunction(c, req) \/ CallService(c, req)
    PROVE  Moves(c)
  <1>1. ask[c].stage = "idle" /\ (c = "tool" => tool = "send" /\ Fn(c) = "events")
    BY CallAsks DEF Fn
  <1>2. ASSUME NEW r, NEW status, Asks(c, Answer(r, status, Nothing)), c = "tool" => status # 202
        PROVE  Moves(c)
    <2>1. ask'[c] = Answer(r, status, Nothing)
      BY <1>2, AskKept
    <2>. QED
      BY <1>1, <1>2, <2>1 DEF Moves, TurnedAway
  <1>3. CASE Asks(c, Answer(req, FunctionChecks(Fn(c), req), Nothing))
    BY <1>1, <1>2, <1>3, NotAccepted
  <1>4. CASE Asks(c, NoResponse)
    BY <1>2, <1>4 DEF NoResponse
  <1>5. CASE Asks(c, Answer(req, ListenerChecks(c, req), Nothing))
    BY <1>1, <1>2, <1>5, ListenerAnswers DEF Passed
  <1>6. CASE Asks(c, Pending(c, req))
    <2>1. ask'[c] = Pending(c, req)
      BY <1>6, AskKept
    <2>. QED
      BY <1>1, <2>1, Zenon DEF Moves, Made
  <1>. QED
    BY <1>3, <1>4, <1>5, <1>6, CallAsks

\* A step of the process that serves it.
LEMMA ServeMoves ==
    ASSUME AskShape, NEW c \in Everyone,
           \/ Enter(c) \/ NoRuntime(c) \/ QueryFails(c)
           \/ RecordLive(c) \/ InsertChunk(c) \/ Accepted(c)
           \/ NotAdmitted(c) \/ Forget(c)
    PROVE  Moves(c)
  <1>1. ASSUME NEW req, NEW status, Asks(c, Answer(req, status, Nothing)),
               ask[c].stage # "idle", c = "tool" => status # 202
        PROVE  Moves(c)
    <2>1. ask'[c] = Answer(req, status, Nothing)
      BY <1>1, AskKept
    <2>. QED
      BY <1>1, <2>1 DEF Moves, TurnedAway
  <1>2. ASSUME NEW stage, Asks(c, Forward(ask[c], stage)),
               \/ ask[c].stage = "waiting" /\ stage = "first"
               \/ ask[c].stage = "first" /\ stage = "insert"
        PROVE  Moves(c)
    <2>1. ask'[c] = Forward(ask[c], stage)
      BY <1>2, AskKept
    <2>. QED
      BY <1>2, <2>1 DEF Moves, GoesOn
  <1>3. CASE Enter(c)
    <2>1. c = "tool" => HandlerChecks(c, TRUE) = WhenAdmitted(ask[c].req)
      <3>1. c = "tool" => HandlerChecks(c, TRUE) = EventsChecks(ask[c].req, TRUE)
        BY DEF HandlerChecks, Fn
      <3>. QED
        BY <3>1, Zenon DEF WhenAdmitted
    <2>2. PICK status : status = HandlerChecks(c, TRUE)
      BY Zenon
    <2>3. c = "tool" => status = WhenAdmitted(ask[c].req)
      BY <2>1, <2>2, Zenon
    <2>4. ask[c].stage = "waiting"
      BY <1>3, EnterAsks
    <2>5. Asks(c, Forward(ask[c], "first")) \/ Asks(c, Answer(ask[c].req, status, Nothing))
      BY <1>3, <2>2, EnterAsks, Zenon
    <2>. QED
      BY <1>1, <1>2, <2>3, <2>4, <2>5, NotAccepted
  <1>4. CASE NotAdmitted(c)
    <2>1. c = "tool" => HandlerChecks(c, FALSE) = WhenLimited(ask[c].req)
      <3>1. c = "tool" => HandlerChecks(c, FALSE) = EventsChecks(ask[c].req, FALSE)
        BY DEF HandlerChecks, Fn
      <3>. QED
        BY <3>1, Zenon DEF WhenLimited
    <2>2. PICK status : status = HandlerChecks(c, FALSE)
      BY Zenon
    <2>3. c = "tool" => status = WhenLimited(ask[c].req)
      BY <2>1, <2>2, Zenon
    <2>4. ask[c].stage = "waiting"
      BY <1>4, NotAdmittedAsks
    <2>5. Asks(c, Answer(ask[c].req, status, Nothing))
      BY <1>4, <2>2, NotAdmittedAsks, Zenon
    <2>. QED
      BY <1>1, <2>3, <2>4, <2>5, NotAccepted
  <1>5. CASE NoRuntime(c)
    BY <1>1, <1>5, NoRuntimeAsks, NotAccepted
  <1>6. CASE QueryFails(c)
    BY <1>1, <1>6, QueryFailsAsks, NotAccepted
  <1>7. CASE RecordLive(c)
    BY <1>2, <1>7, RecordLiveAsks
  <1>8. CASE InsertChunk(c)
    <2>1. CASE /\ rows' = rows \cup NewAt(c)
               /\ Asks(c, Stored(ask[c], Upto(ask[c].from, Len(ValidPart(ask[c].events))),
                                 Cardinality(NewAt(c))))
      <3>1. ask'[c] = Stored(ask[c], Upto(ask[c].from, Len(ValidPart(ask[c].events))),
                             Cardinality(NewAt(c)))
        BY <2>1, AskKept
      <3>2. ask[c].stage = "insert" /\ ask[c].from < Len(ValidPart(ask[c].events))
        BY <1>8, InsertChunkAsks
      <3>. QED
        BY <2>1, <3>1, <3>2, Zenon DEF Moves, Inserts
    <2>2. CASE Asks(c, Answer(ask[c].req, Error(c), Nothing))
      BY <1>1, <1>8, <2>2, InsertChunkAsks, NotAccepted
    <2>. QED
      BY <1>8, <2>1, <2>2, InsertChunkAsks
  <1>9. CASE Accepted(c)
    <2>. DEFINE reply == Reply(ask[c].events, ask[c].reply.accepted)
    <2>1. PICK status : Asks(c, Answer(ask[c].req, status, reply))
      BY <1>9, AcceptedAsks
    <2>2. ask'[c] = Answer(ask[c].req, status, reply)
      <3>. HIDE DEF reply
      <3>. QED
        BY <2>1, AskKept
    <2>3. ask[c].stage = "insert" /\ ask[c].from = Len(ValidPart(ask[c].events))
      BY <1>9, AcceptedAsks
    <2>. QED
      BY <2>1, <2>2, <2>3, Zenon DEF Moves, Answered
  <1>10. CASE Forget(c)
    <2>1. c # "tool" /\ ask'[c] = Idle
      BY <1>10, ForgetAsks, AskKept
    <2>. QED
      BY <2>1 DEF Moves, Dropped
  <1>. QED
    BY <1>3, <1>4, <1>5, <1>6, <1>7, <1>8, <1>9, <1>10

\* Every request moves like that, unless the tool hears its answer.
LEMMA AllMove ==
    ASSUME AskShape, [Next]_vars, ~ToolHears
    PROVE  \A d \in Everyone : Moves(d)
  <1>0. ASSUME UNCHANGED ask
        PROVE  \A d \in Everyone : Moves(d)
    BY <1>0 DEF Moves, Stays
  <1>1. CASE UNCHANGED vars
    BY <1>0, <1>1 DEF vars
  <1>2. CASE Elsewhere(StartService) \/ (\E i \in Processes : Elsewhere(InitStep(i)))
             \/ Elsewhere(GoDown) \/ Elsewhere(ComeUp)
    BY <1>0, <1>2, Zenon DEF Elsewhere
  <1>3. CASE ToolStep \/ Rerun
    BY <1>0, <1>3 DEF ToolStep, Rerun
  <1>4. CASE LoseResponse
    <2>1. "tool" \in Everyone /\ ask["tool"].stage # "idle" /\ Asks("tool", NoResponse)
      BY <1>4, LoseResponseAsks DEF Everyone
    <2>2. TurnedAway("tool")
      BY <2>1, AskKept DEF TurnedAway, NoResponse
    <2>. QED
      BY <2>1, <2>2, OneMoves DEF Moves
  <1>5. ASSUME NEW c \in Everyone, NEW req, CallFunction(c, req) \/ CallService(c, req)
        PROVE  \A d \in Everyone : Moves(d)
    <2>1. \E a : Asks(c, a)
      BY <1>5, CallAsks, Zenon
    <2>. QED
      BY <1>5, <2>1, CallMoves, OneMoves
  <1>6. ASSUME NEW c \in Everyone,
               \/ Enter(c) \/ NoRuntime(c) \/ QueryFails(c)
               \/ RecordLive(c) \/ InsertChunk(c) \/ Accepted(c)
               \/ NotAdmitted(c) \/ Forget(c)
        PROVE  \A d \in Everyone : Moves(d)
    <2>1. \E a : Asks(c, a)
      BY <1>6, EnterAsks, NoRuntimeAsks, QueryFailsAsks, RecordLiveAsks, InsertChunkAsks,
         AcceptedAsks, NotAdmittedAsks, ForgetAsks, Zenon
    <2>. QED
      BY <1>6, <2>1, ServeMoves, OneMoves
  <1>7. CASE Read \/ Aggregate
    <2>1. PICK c \in {"reader", "cron"} : Asks(c, Answer(ask[c].req, 200, Nothing))
      BY <1>7, OthersAsk
    <2>2. c \in Everyone /\ c # "tool"
      BY <2>1 DEF Everyone
    <2>3. TurnedAway(c)
      BY <2>1, <2>2, AskKept DEF TurnedAway
    <2>. QED
      BY <2>1, <2>2, <2>3, OneMoves DEF Moves
  <1>8. CASE TimesOut
    <2>1. GivenUp("late") /\ TurnedAway("tool")
      BY <1>8, TimesOutAsks DEF GivenUp, TurnedAway, Busy, NoResponse
    <2>2. \A d \in Everyone : Stays(d) \/ d \in {"tool", "late"}
      BY <1>8, TimesOutAsks DEF Stays
    <2>. QED
      BY <2>1, <2>2 DEF Moves
  <1>9. ASSUME NEW i \in Processes, Dies(i)
        PROVE  \A d \in Everyone : Moves(d)
    <2>. SUFFICES ASSUME NEW d \in Everyone
                  PROVE  Moves(d)
      OBVIOUS
    <2>1. CASE ask'[d] = ask[d]
      BY <2>1 DEF Moves, Stays
    <2>2. CASE d = "late" /\ ask'[d] = Idle
      BY <2>2 DEF Moves, Dropped
    <2>3. CASE ask[d].stage \in {"waiting", "first", "insert"} /\ ask'[d] = NoResponse
      BY <2>3 DEF Moves, TurnedAway, NoResponse
    <2>. QED
      BY <1>9, <2>1, <2>2, <2>3, DiesAsks
  <1>. QED
    BY <1>1, <1>2, <1>3, <1>4, <1>5, <1>6, <1>7, <1>8, <1>9, Steps

\* What a step does to the tool.
LEMMA ReplaySteps ==
    ASSUME AskShape, [Next]_vars
    PROVE  \/ UNCHANGED replay
           \/ /\ SkipLine \/ LineThrows \/ AddLine \/ BeginSend \/ Complete \/ RunAgain
              /\ UNCHANGED <<ask, rows, callers, faults>>
           \/ ToolHears
  <1>1. CASE UNCHANGED vars
    BY <1>1 DEF vars
  <1>2. CASE Elsewhere(StartService) \/ (\E i \in Processes : Elsewhere(InitStep(i)))
             \/ Elsewhere(GoDown) \/ Elsewhere(ComeUp)
    BY <1>2, Zenon DEF Elsewhere
  <1>3. CASE ToolStep \/ Rerun
    BY <1>3 DEF ToolStep, Rerun
  <1>4. CASE LoseResponse \/ TimesOut
    BY <1>4, LoseResponseAsks, TimesOutAsks
  <1>5. ASSUME NEW c \in Everyone, NEW req, CallFunction(c, req) \/ CallService(c, req)
        PROVE  UNCHANGED replay
    BY <1>5, CallAsks
  <1>6. ASSUME NEW c \in Everyone,
               \/ Enter(c) \/ NoRuntime(c) \/ QueryFails(c)
               \/ RecordLive(c) \/ InsertChunk(c) \/ Accepted(c)
               \/ NotAdmitted(c) \/ Forget(c)
        PROVE  UNCHANGED replay
    BY <1>6, EnterAsks, NoRuntimeAsks, QueryFailsAsks, RecordLiveAsks, InsertChunkAsks,
       AcceptedAsks, NotAdmittedAsks, ForgetAsks
  <1>7. CASE Read \/ Aggregate
    BY <1>7, OthersAsk
  <1>8. ASSUME NEW i \in Processes, Dies(i)
        PROVE  UNCHANGED replay
    BY <1>8, DiesAsks
  <1>. QED
    BY <1>1, <1>2, <1>3, <1>4, <1>5, <1>6, <1>7, <1>8, Steps

\* What a step does to the rows, and to what is read off them.
LEMMA RowSteps ==
    ASSUME AskShape, [Next]_vars
    PROVE  /\ \/ UNCHANGED rows
              \/ \E c \in Everyone : Inserts(c)
           /\ UNCHANGED published \/ (UNCHANGED rows /\ published' = Ids)
           /\ live' \in {live, Boot}
           /\ UNCHANGED <<file, deployment, callers>>
  <1>. DEFINE Goal == /\ UNCHANGED rows \/ \E c \in Everyone : Inserts(c)
                      /\ UNCHANGED published \/ (UNCHANGED rows /\ published' = Ids)
                      /\ live' \in {live, Boot}
                      /\ UNCHANGED <<file, deployment, callers>>
  <1>1. CASE UNCHANGED vars
    BY <1>1 DEF vars, runtime, replay
  <1>2. CASE Elsewhere(StartService) \/ (\E i \in Processes : Elsewhere(InitStep(i)))
             \/ Elsewhere(GoDown) \/ Elsewhere(ComeUp)
    BY <1>2 DEF Elsewhere, replay, StartService, InitStep, Migrate, CommitMigration, InitFails,
                GoDown, ComeUp
  <1>3. CASE ToolStep \/ Rerun
    BY <1>3 DEF ToolStep, Rerun, runtime, SkipLine, LineThrows, AddLine, BeginSend, Complete,
                RunAgain
  <1>4. CASE LoseResponse \/ TimesOut
    BY <1>4, LoseResponseAsks, TimesOutAsks DEF runtime, replay
  <1>5. CASE ToolHears
    BY <1>5, ToolHearsAsks DEF runtime, Taken, Refused
  <1>6. ASSUME NEW c \in Everyone, NEW req, CallFunction(c, req) \/ CallService(c, req)
        PROVE  Goal
    BY <1>6, CallAsks DEF replay, CallFunction, CallService, runtime
  <1>7. ASSUME NEW c \in Everyone,
               \/ Enter(c) \/ NoRuntime(c) \/ QueryFails(c)
               \/ Accepted(c)
               \/ NotAdmitted(c) \/ Forget(c)
        PROVE  Goal
    BY <1>7, EnterAsks, NoRuntimeAsks, QueryFailsAsks,
       AcceptedAsks, NotAdmittedAsks, ForgetAsks DEF runtime, replay
  <1>8. ASSUME NEW c \in Everyone, RecordLive(c)
        PROVE  Goal
    BY <1>8 DEF RecordLive, Handled, runtime, replay
  <1>9. ASSUME NEW c \in Everyone, InsertChunk(c)
        PROVE  Goal
    <2>1. UNCHANGED rows \/ Inserts(c)
      BY <1>9, AskKept, InsertChunkAsks DEF Inserts
    <2>. QED
      BY <1>9, <2>1, InsertChunkAsks DEF runtime, replay
  <1>10. CASE Read \/ Aggregate
    BY <1>10, OthersAsk DEF runtime, replay, Read, Aggregate
  <1>11. ASSUME NEW i \in Processes, Dies(i)
         PROVE  Goal
    BY <1>11, DiesAsks DEF replay
  <1>. QED
    BY <1>1, <1>2, <1>3, <1>4, <1>5, <1>6, <1>7, <1>8, <1>9, <1>10, <1>11, Steps

-----------------------------------------------------------------------------
(* The tool, its batch and what is stored of it *)

\* The lines of a log that are events.
MappedIn(f) == {n \in 1 .. Len(f) : ParseLine(f[n], Now) # None}

IdIn(f, n) == EventId(SensorName, f[n])

\* Every event of s that is taken has its row.
AllStored(f, ids, s) ==
    \A j \in 1 .. Len(s) : Good(f, s[j]) => IdIn(f, s[j]) \in ids

\* A request on its way: the first events of its valid part are stored.
RequestOk(f, ids, a) ==
    /\ a.stage \in Stages /\ a.events \in Seq(MappedIn(f)) /\ a.from \in Nat
    /\ a.reply.accepted \in Nat /\ a.reply.duplicate \in Int /\ a.reply.rejected \in Int
    /\ a.stage \in {"waiting", "first"} => a.from = 0
    /\ a.stage = "insert" =>
          /\ a.from <= Len(GoodPart(f, a.events))
          /\ \A i \in 1 .. a.from : IdIn(f, GoodPart(f, a.events)[i]) \in ids

\* The request of the tool is for its batch, and a 202 accounts for it.
ForBatch(f, ids, state, s, a) ==
    /\ a.stage # "idle" => state = "send"
    /\ a.stage \in Busy => a.events = s
    /\ a.stage = "answered" /\ a.status = 202 =>
          /\ AllStored(f, ids, s)
          /\ a.reply.accepted + a.reply.duplicate + a.reply.rejected = Len(s)

\* What the tool has read is in its batch or stored.
Behind(f, ids, p, s) ==
    \A n \in 1 .. p - 1 :
        n \in MappedIn(f) /\ Good(f, n) =>
            IdIn(f, n) \in ids \/ \E j \in 1 .. Len(s) : s[j] = n

Counts == [mapped : Nat, accepted : Nat, duplicate : Int, rejected : Int]

ToolType ==
    /\ file \in Files \cup {<<>>}
    /\ tool \in {"scan", "send", "done", "dead"}
    /\ pos \in 1 .. Len(file) + 1
    /\ batch \in Seq(MappedIn(file))
    /\ attempt \in 0 .. Backoffs
    /\ count \in Counts

ToolInv ==
    /\ ToolType
    /\ Total + Len(batch) = count.mapped
    /\ Behind(file, Ids, pos, batch)
    /\ tool = "done" => pos = Len(file) + 1 /\ batch = <<>>

AskInv ==
    /\ \A c \in Everyone : RequestOk(file, Ids, ask[c])
    /\ ForBatch(file, Ids, tool, batch, ask["tool"])

\* Every row is that of a line.
RowsInv ==
    \A r \in rows : \E s \in {SensorName, LiveSensor}, n \in MappedIn(file) :
        Good(file, n) /\ r = RowOf(s, n)

StoreInv ==
    /\ RowsInv
    /\ published \subseteq Ids
    /\ live \in {None, Boot}
    /\ deployment \in Deployments

\* A log is a sequence of lines.
LEMMA FileFacts ==
    ASSUME file \in Files \cup {<<>>}
    PROVE  /\ Len(file) \in Nat /\ DOMAIN file = 1 .. Len(file)
           /\ MappedIn(file) \subseteq 1 .. Len(file)
           /\ \A n \in DOMAIN file : IsLine(file[n])
  <1>1. CASE file = <<>>
    BY <1>1 DEF MappedIn
  <1>2. CASE file \in Files
    <2>1. file \in Seq(Range(file)) /\ \A n \in DOMAIN file : IsLine(file[n])
      BY <1>2, ReplayAssumption
    <2>. QED
      BY <2>1 DEF MappedIn
  <1>. QED
    BY <1>1, <1>2

\* What the definitions of the model are, in terms of the log.
LEMMA InTermsOfFile ==
    /\ \A n : Wire(n) = ParseLine(file[n], Now)
    /\ \A n : Valid(n) <=> Good(file, n)
    /\ \A n : IdOf(SensorName, n) = IdIn(file, n)
    /\ \A s, n : RowOf(s, n).id = IdOf(s, n)
  BY DEF Wire, Valid, Good, IdOf, IdIn, RowOf, NormalizeEvent

\* More rows do not hurt.
LEMMA MoreRows ==
    ASSUME NEW f, NEW ids, NEW more, ids \subseteq more
    PROVE  /\ \A a : RequestOk(f, ids, a) => RequestOk(f, more, a)
           /\ \A state, s, a : ForBatch(f, ids, state, s, a) => ForBatch(f, more, state, s, a)
           /\ \A p, s : Behind(f, ids, p, s) => Behind(f, more, p, s)
  <1>1. \A a : RequestOk(f, ids, a) => RequestOk(f, more, a)
    BY DEF RequestOk
  <1>2. \A s : AllStored(f, ids, s) => AllStored(f, more, s)
    BY DEF AllStored
  <1>3. \A state, s, a : ForBatch(f, ids, state, s, a) => ForBatch(f, more, state, s, a)
    BY <1>2, Zenon DEF ForBatch
  <1>4. \A p, s : Behind(f, ids, p, s) => Behind(f, more, p, s)
    BY Zenon DEF Behind
  <1>. QED
    BY <1>1, <1>3, <1>4

\* The image of a finite set is finite.
LEMMA FiniteImage ==
    ASSUME NEW S, IsFiniteSet(S), NEW f
    PROVE  IsFiniteSet({f[x] : x \in S})
  <1>. DEFINE T == {f[x] : x \in S}
              g == [x \in S |-> f[x]]
  <1>1. g \in Surjection(S, T)
    <2>1. g \in [S -> T]
      OBVIOUS
    <2>2. \A t \in T : \E x \in S : g[x] = t
      OBVIOUS
    <2>. HIDE DEF g, T
    <2>. QED
      BY <2>1, <2>2 DEF Surjection
  <1>. HIDE DEF g
  <1>. QED
    BY <1>1, FS_Surjection

\* The rows of a chunk.
LEMMA NewFacts ==
    ASSUME NEW S, NEW chunk \in Seq(S)
    PROVE  /\ IsFiniteSet(New(chunk)) /\ Cardinality(New(chunk)) \in Nat
           /\ \A r \in New(chunk) : \E i \in 1 .. Len(chunk) : r = RowOf(SensorName, chunk[i])
           /\ \A i \in 1 .. Len(chunk) :
                 IdIn(file, chunk[i]) \in Ids \cup {r.id : r \in New(chunk)}
  <1>. DEFINE fresh == {m \in Range(chunk) : IdOf(SensorName, m) \notin Ids}
  <1>1. Range(chunk) = {chunk[i] : i \in 1 .. Len(chunk)} /\ Len(chunk) \in Nat
    BY DEF Range
  <1>2. IsFiniteSet(1 .. Len(chunk))
    BY <1>1, FS_Interval
  <1>3. IsFiniteSet({chunk[i] : i \in 1 .. Len(chunk)})
    BY <1>2, FiniteImage
  <1>4. IsFiniteSet(fresh)
    BY <1>1, <1>3, FS_Subset, Zenon
  <1>5. New(chunk) = {RowOf(SensorName, n) : n \in fresh}
    BY Zenon DEF New
  <1>6. IsFiniteSet({RowOf(SensorName, n) : n \in fresh})
    <2>. DEFINE f == [n \in fresh |-> RowOf(SensorName, n)]
    <2>1. {RowOf(SensorName, n) : n \in fresh} = {f[n] : n \in fresh}
      BY Zenon
    <2>2. IsFiniteSet({f[n] : n \in fresh})
      <3>. HIDE DEF fresh, f
      <3>. QED
        BY <1>4, FiniteImage
    <2>. QED
      BY <2>1, <2>2, Zenon
  <1>7. IsFiniteSet(New(chunk)) /\ Cardinality(New(chunk)) \in Nat
    BY <1>5, <1>6, FS_CardinalityType, Zenon
  <1>8. \A r \in New(chunk) : \E i \in 1 .. Len(chunk) : r = RowOf(SensorName, chunk[i])
    BY <1>1, <1>5
  <1>9. ASSUME NEW i \in 1 .. Len(chunk), IdIn(file, chunk[i]) \notin Ids
        PROVE  IdIn(file, chunk[i]) \in {r.id : r \in New(chunk)}
    <2>1. chunk[i] \in fresh
      BY <1>1, <1>9, InTermsOfFile
    <2>2. RowOf(SensorName, chunk[i]) \in New(chunk)
      BY <1>5, <2>1, Zenon
    <2>3. RowOf(SensorName, chunk[i]).id = IdIn(file, chunk[i])
      BY InTermsOfFile
    <2>. QED
      BY <2>2, <2>3, Zenon
  <1>. QED
    BY <1>7, <1>8, <1>9

\* The requests a caller makes, the answers and the ways through a handler.
LEMMA MadeOk ==
    ASSUME NEW f, NEW ids, NEW c, NEW req, batch \in Seq(MappedIn(f))
    PROVE  RequestOk(f, ids, Pending(c, req)) /\ RequestOk(f, ids, Idle)
  <1>1. RequestOk(f, ids, Pending(c, req))
    <2>1. PICK a : a = Pending(c, req)
      OBVIOUS
    <2>2. a.events \in Seq(MappedIn(f)) /\ a.stage = "waiting" /\ a.from = 0 /\ a.reply = Nothing
      <3>1. /\ a.events = (IF c = "tool" THEN batch ELSE <<>>)
            /\ a.stage = "waiting" /\ a.from = 0 /\ a.reply = Nothing
        BY <2>1, PendingRecord, ZenonT(30)
      <3>2. <<>> \in Seq(MappedIn(f))
        OBVIOUS
      <3>3. a.events \in Seq(MappedIn(f))
        BY <3>1, <3>2, Zenon
      <3>. QED
        BY <3>1, <3>3, Zenon
    <2>3. RequestOk(f, ids, a)
      BY <2>2 DEF RequestOk, Nothing, Stages
    <2>. QED
      BY <2>1, <2>3
  <1>2. RequestOk(f, ids, Idle)
    BY DEF RequestOk, Idle, Nothing, Stages
  <1>. QED
    BY <1>1, <1>2

\* An answer.
LEMMA AnswerOk ==
    ASSUME NEW f, NEW ids, NEW req, NEW status, NEW reply, IsReply(reply),
           reply.accepted \in Nat, reply.duplicate \in Int, reply.rejected \in Int
    PROVE  RequestOk(f, ids, Answer(req, status, reply))
  <1>1. PICK a : a = Answer(req, status, reply)
    OBVIOUS
  <1>2. /\ a.events = <<>> /\ <<>> \in Seq(MappedIn(f))
        /\ a.stage = "answered" /\ a.from = 0 /\ a.reply = reply
    BY <1>1, AnswerRecord
  <1>3. RequestOk(f, ids, a)
    BY <1>2 DEF RequestOk, Stages
  <1>. QED
    BY <1>1, <1>3

\* A request that has got further.
LEMMA ForwardOk ==
    ASSUME NEW f, NEW ids, NEW a, IsAsk(a), RequestOk(f, ids, a)
    PROVE  /\ a.stage = "waiting" => RequestOk(f, ids, Forward(a, "first"))
           /\ a.stage = "first" => RequestOk(f, ids, Forward(a, "insert"))
  <1>1. ASSUME a.stage = "waiting"
        PROVE  RequestOk(f, ids, Forward(a, "first"))
    BY <1>1, ForwardRecord DEF RequestOk, Stages
  <1>2. ASSUME a.stage = "first"
        PROVE  RequestOk(f, ids, Forward(a, "insert"))
    <2>1. GoodPart(f, a.events) \in Seq(MappedIn(f))
      BY GoodPartFilters DEF RequestOk, Filtered
    <2>2. a.from = 0 /\ 0 <= Len(GoodPart(f, a.events))
      BY <1>2, <2>1 DEF RequestOk
    <2>. QED
      BY <1>2, <2>2, ForwardRecord DEF RequestOk, Stages
  <1>. QED
    BY <1>1, <1>2

\* What insertEvents stores next: the valid events after from.
LEMMA ChunkFacts ==
    ASSUME AskInv, AskShape, NEW c \in Everyone, Inserts(c)
    PROVE  LET a == ask[c]
               v == GoodPart(file, a.events)
               u == Upto(a.from, Len(v))
           IN  /\ IsAsk(a) /\ RequestOk(file, Ids, a) /\ a.stage = "insert"
               /\ ask'[c] = Stored(a, u, Cardinality(NewAt(c))) /\ rows' = rows \cup NewAt(c)
               /\ v \in Seq(MappedIn(file)) /\ Len(v) \in Nat
               /\ \A i \in 1 .. Len(v) : Good(file, v[i])
               /\ u \in Nat /\ a.from \in Nat /\ a.from < u /\ u <= Len(v)
               /\ ChunkAt(c) \in Seq(MappedIn(file)) /\ Len(ChunkAt(c)) = u - a.from
               /\ \A i \in 1 .. Len(ChunkAt(c)) : ChunkAt(c)[i] = v[a.from + i]
  <1>. DEFINE a == ask[c]
              v == GoodPart(file, a.events)
              u == Upto(a.from, Len(v))
              chunk == SubSeq(v, a.from + 1, u)
              b == Stored(a, u, Cardinality(NewAt(c)))
  <1>1. /\ IsAsk(a) /\ RequestOk(file, Ids, a) /\ a.stage = "insert"
        /\ ValidPart(a.events) = v /\ a.from < Len(v)
        /\ ask'[c] = b /\ rows' = rows \cup NewAt(c) /\ ChunkAt(c) = chunk
    BY ValidIsGood DEF AskInv, AskShape, Inserts, ChunkAt
  <1>2. /\ v \in Seq(MappedIn(file)) /\ Len(v) \in Nat /\ a.from \in Nat
        /\ a.events \in Seq(MappedIn(file)) /\ a.reply.accepted \in Nat
        /\ a.reply.duplicate \in Int /\ a.reply.rejected \in Int
        /\ \A i \in 1 .. Len(v) : Good(file, v[i])
    BY <1>1, GoodPartFilters DEF RequestOk, Filtered
  <1>. HIDE DEF v
  <1>3. u \in Nat /\ a.from < u /\ u <= Len(v)
    BY <1>1, <1>2, PathAssumption DEF Upto
  <1>. HIDE DEF u
  <1>4. /\ chunk \in Seq(MappedIn(file)) /\ Len(chunk) = u - a.from
        /\ \A i \in 1 .. Len(chunk) : chunk[i] = v[a.from + i]
    <2>0. PICK m : m = a.from + 1
      OBVIOUS
    <2>1. m \in Int /\ u \in Int /\ m <= u /\ chunk = SubSeq(v, m, u)
      BY <1>2, <1>3, <2>0
    <2>2. \A i \in m .. u : v[i] \in MappedIn(file)
      BY <1>2, <1>3, <2>0
    <2>3. /\ chunk \in Seq(MappedIn(file))
          /\ Len(chunk) = u - m + 1
          /\ \A i \in 1 .. u - m + 1 : chunk[i] = v[m + i - 1]
      <3>. HIDE DEF chunk
      <3>. QED
        BY <2>1, <2>2, SubSeqProperties
    <2>5. a.from \in Int /\ u \in Int
      BY <1>2, <1>3
    <2>6. \A x, y \in Int : y - (x + 1) + 1 = y - x /\ \A i \in Int : (x + 1) + i - 1 = x + i
      OBVIOUS
    <2>7. \A i \in 1 .. u - m + 1 : i \in Int
      BY <2>1
    <2>4. u - m + 1 = u - a.from /\ \A i \in 1 .. u - m + 1 : m + i - 1 = a.from + i
      BY <2>0, <2>5, <2>6, <2>7, Zenon
    <2>. HIDE DEF chunk
    <2>. QED
      BY <2>3, <2>4
  <1>. HIDE DEF chunk
  <1>. QED
    BY <1>1, <1>2, <1>3, <1>4 DEF u, v

\* insertEvents has stored one more chunk.
LEMMA InsertOk ==
    ASSUME AskInv, AskShape, NEW c \in Everyone, Inserts(c)
    PROVE  RequestOk(file, Ids', ask'[c])
  <1>. DEFINE a == ask[c]
              v == GoodPart(file, a.events)
              u == Upto(a.from, Len(v))
              chunk == ChunkAt(c)
              b == Stored(a, u, Cardinality(NewAt(c)))
  <1>1. /\ IsAsk(a) /\ RequestOk(file, Ids, a) /\ a.stage = "insert"
        /\ ask'[c] = b /\ rows' = rows \cup New(chunk) /\ NewAt(c) = New(chunk)
    BY ChunkFacts DEF NewAt
  <1>3. v \in Seq(MappedIn(file)) /\ u \in Nat /\ a.from \in Nat /\ a.from < u /\ u <= Len(v)
    BY ChunkFacts
  <1>4. /\ chunk \in Seq(MappedIn(file)) /\ Len(chunk) = u - a.from
        /\ \A i \in 1 .. Len(chunk) : chunk[i] = v[a.from + i]
    BY ChunkFacts
  <1>2. /\ a.events \in Seq(MappedIn(file)) /\ a.reply.accepted \in Nat
        /\ a.reply.duplicate \in Int /\ a.reply.rejected \in Int
        /\ \A i \in 1 .. a.from : IdIn(file, v[i]) \in Ids
    BY <1>1 DEF RequestOk
  <1>. HIDE DEF v
  <1>. HIDE DEF u
  <1>. HIDE DEF chunk
  <1>5. Cardinality(NewAt(c)) \in Nat
    BY <1>1, <1>4, NewFacts
  <1>6. Ids' = Ids \cup {r.id : r \in New(chunk)}
    BY <1>1 DEF Ids
  <1>7. ASSUME NEW i \in 1 .. u
        PROVE  IdIn(file, v[i]) \in Ids'
    <2>1. CASE i <= a.from
      BY <1>2, <1>3, <1>6, <2>1
    <2>2. CASE i > a.from
      <3>0. i - a.from \in 1 .. Len(chunk) /\ a.from + (i - a.from) = i
        BY <1>2, <1>3, <1>4, <2>2
      <3>1. i - a.from \in 1 .. Len(chunk) /\ chunk[i - a.from] = v[i]
        BY <1>4, <3>0
      <3>2. IdIn(file, chunk[i - a.from]) \in Ids \cup {r.id : r \in New(chunk)}
        BY <1>4, <3>1, NewFacts
      <3>. QED
        BY <1>6, <3>1, <3>2
    <2>. QED
      BY <1>2, <1>3, <2>1, <2>2
  <1>8. /\ b.stage = "insert" /\ b.events = a.events /\ b.from = u
        /\ b.reply.accepted = a.reply.accepted + Cardinality(NewAt(c))
        /\ b.reply.duplicate = a.reply.duplicate /\ b.reply.rejected = a.reply.rejected
    <2>1. b.reply.duplicate = a.reply.duplicate /\ b.reply.rejected = a.reply.rejected
      BY <1>1 DEF Stored, IsAsk, IsReply
    <2>. QED
      BY <1>1, <2>1, StoredRecord
  <1>. HIDE DEF b
  <1>. QED
    BY <1>1, <1>2, <1>3, <1>5, <1>7, <1>8 DEF RequestOk, Stages, v

\* What Accepted answers.
LEMMA AnsweredOk ==
    ASSUME AskInv, AskShape, NEW c \in Everyone, Answered(c)
    PROVE  /\ RequestOk(file, Ids, ask'[c])
           /\ ask'[c].stage = "answered"
           /\ AllStored(file, Ids, ask[c].events)
           /\ LET r == ask'[c].reply IN
                r.accepted + r.duplicate + r.rejected = Len(ask[c].events)
  <1>. DEFINE a == ask[c]
              v == GoodPart(file, a.events)
              reply == Reply(a.events, a.reply.accepted)
  <1>1. /\ RequestOk(file, Ids, a) /\ a.stage = "insert"
        /\ ValidPart(a.events) = v /\ a.from = Len(v)
    BY ValidIsGood DEF AskInv, Answered
  <1>2. PICK req, status : ask'[c] = Answer(req, status, reply)
    BY DEF Answered
  <1>3. /\ Filtered(file, MappedIn(file), a.events, Len(a.events), v)
        /\ a.events \in Seq(MappedIn(file)) /\ a.reply.accepted \in Nat
        /\ \A i \in 1 .. a.from : IdIn(file, v[i]) \in Ids
    BY <1>1, GoodPartFilters DEF RequestOk
  <1>4. /\ IsReply(reply) /\ reply.accepted = a.reply.accepted
        /\ reply.duplicate = Len(v) - a.reply.accepted
        /\ reply.rejected = Len(a.events) - Len(v)
    BY <1>1 DEF Reply, IsReply
  <1>5. Len(v) \in Nat /\ Len(a.events) \in Nat
    BY <1>3 DEF Filtered
  <1>. HIDE DEF reply
  <1>6. RequestOk(file, Ids, ask'[c]) /\ ask'[c].stage = "answered" /\ ask'[c].reply = reply
    <2>1. /\ reply.accepted \in Nat /\ reply.duplicate \in Int /\ reply.rejected \in Int
      BY <1>3, <1>4, <1>5
    <2>2. RequestOk(file, Ids, Answer(req, status, reply))
      BY <1>4, <2>1, AnswerOk
    <2>. QED
      BY <1>2, <1>4, <2>2, AnswerRecord
  <1>7. AllStored(file, Ids, a.events)
    BY <1>1, <1>3 DEF Filtered, AllStored
  <1>. HIDE DEF v
  <1>8. reply.accepted + reply.duplicate + reply.rejected = Len(a.events)
    BY <1>3, <1>4, <1>5
  <1>. QED
    BY <1>6, <1>7, <1>8

\* The ids only grow in number.
LEMMA IdsGrow == ASSUME AskShape, [Next]_vars PROVE Ids \subseteq Ids' /\ rows \subseteq rows'
  BY RowSteps DEF Inserts, Ids

\* A request stays what it should be.
LEMMA RequestStep ==
    ASSUME AskInv, AskShape, ToolType, [Next]_vars, NEW c \in Everyone, Moves(c)
    PROVE  RequestOk(file, Ids', ask'[c])
  <1>0. Ids \subseteq Ids' /\ batch \in Seq(MappedIn(file))
    BY IdsGrow DEF ToolType
  <1>1. RequestOk(file, Ids', ask[c]) /\ IsAsk(ask[c])
    BY <1>0, MoreRows DEF AskInv, AskShape
  <1>2. CASE Stays(c)
    BY <1>1, <1>2 DEF Stays
  <1>3. CASE Dropped(c) \/ Made(c)
    BY <1>0, <1>3, MadeOk DEF Dropped, Made
  <1>4. CASE TurnedAway(c)
    BY <1>4, AnswerOk, Records DEF TurnedAway, Nothing
  <1>5. CASE GoesOn(c)
    BY <1>1, <1>5, ForwardOk DEF GoesOn
  <1>6. CASE Inserts(c)
    BY <1>6, InsertOk
  <1>7. CASE Answered(c)
    BY <1>0, <1>7, AnsweredOk, MoreRows
  <1>8. CASE GivenUp(c)
    <2>1. RequestOk(file, Ids, ask["tool"])
      BY DEF AskInv, Everyone
    <2>. QED
      BY <1>0, <1>8, <2>1, MoreRows DEF GivenUp
  <1>. QED
    BY <1>2, <1>3, <1>4, <1>5, <1>6, <1>7, <1>8 DEF Moves

\* What the tool has behind it, when it goes on.
LEMMA BehindMoves ==
    ASSUME NEW f, NEW ids, NEW p \in Nat \ {0}, NEW s \in Seq(MappedIn(f))
    PROVE  /\ Behind(f, ids, 1, <<>>)
           /\ Behind(f, ids, p, s) /\ p \notin MappedIn(f) => Behind(f, ids, p + 1, s)
           /\ Behind(f, ids, p, s) => Behind(f, ids, p + 1, Append(s, p))
           /\ Behind(f, ids, p, s) /\ AllStored(f, ids, s) => Behind(f, ids, p, <<>>)
  <1>1. \A n \in 1 .. (p + 1) - 1 : n = p \/ n \in 1 .. p - 1
    OBVIOUS
  <1>2. Behind(f, ids, 1, <<>>)
    BY DEF Behind
  <1>3. ASSUME Behind(f, ids, p, s), p \notin MappedIn(f)
        PROVE  Behind(f, ids, p + 1, s)
    BY <1>1, <1>3 DEF Behind
  <1>4. ASSUME Behind(f, ids, p, s)
        PROVE  Behind(f, ids, p + 1, Append(s, p))
    <2>. DEFINE t == Append(s, p)
    <2>1. /\ Len(t) = Len(s) + 1 /\ Len(s) \in Nat /\ t[Len(s) + 1] = p
          /\ \A j \in 1 .. Len(s) : t[j] = s[j]
      OBVIOUS
    <2>. HIDE DEF t
    <2>2. ASSUME NEW n \in 1 .. (p + 1) - 1, n \in MappedIn(f), Good(f, n), IdIn(f, n) \notin ids
          PROVE  \E j \in 1 .. Len(t) : t[j] = n
      <3>1. CASE n = p
        BY <2>1, <3>1
      <3>2. CASE n \in 1 .. p - 1
        <4>1. PICK j \in 1 .. Len(s) : s[j] = n
          BY <1>4, <2>2, <3>2 DEF Behind
        <4>. QED
          BY <2>1, <4>1
      <3>. QED
        BY <1>1, <2>2, <3>1, <3>2
    <2>3. Behind(f, ids, p + 1, t)
      BY <2>2 DEF Behind
    <2>. QED
      BY <2>3 DEF t
  <1>5. ASSUME Behind(f, ids, p, s), AllStored(f, ids, s)
        PROVE  Behind(f, ids, p, <<>>)
    BY <1>5 DEF Behind, AllStored
  <1>. QED
    BY <1>2, <1>3, <1>4, <1>5

\* The request of the tool stays the one for its batch.
LEMMA ForBatchStep ==
    ASSUME AskInv, AskShape, ToolType, [Next]_vars, Moves("tool"), UNCHANGED <<tool, batch>>
    PROVE  ForBatch(file, Ids', tool, batch, ask'["tool"])
  <1>. DEFINE a == ask["tool"]
  <1>0. "tool" \in Everyone /\ Ids \subseteq Ids' /\ IsAsk(a)
    BY IdsGrow DEF Everyone, AskShape
  <1>1. ForBatch(file, Ids, tool, batch, a) /\ ForBatch(file, Ids', tool, batch, a)
    BY <1>0, MoreRows DEF AskInv
  <1>2. CASE Stays("tool")
    BY <1>1, <1>2 DEF Stays
  <1>3. CASE Made("tool")
    BY <1>3, PendingRecord DEF Made, ForBatch, Busy
  <1>4. CASE TurnedAway("tool")
    <2>1. PICK req, status : ask'["tool"] = Answer(req, status, Nothing) /\ status # 202
      BY <1>4 DEF TurnedAway
    <2>2. tool = "send"
      BY <1>1, <1>4 DEF TurnedAway, ForBatch
    <2>3. ask'["tool"].stage = "answered" /\ ask'["tool"].status # 202
      BY <2>1, AnswerRecord, Records
    <2>. QED
      BY <2>2, <2>3 DEF ForBatch, Busy
  <1>5. CASE GoesOn("tool")
    BY <1>0, <1>1, <1>5, ForwardRecord DEF GoesOn, ForBatch, Busy
  <1>6. CASE Inserts("tool")
    BY <1>0, <1>1, <1>6, StoredRecord DEF Inserts, ForBatch, Busy
  <1>7. CASE Answered("tool")
    <2>1. /\ ask'["tool"].stage = "answered" /\ AllStored(file, Ids, a.events)
          /\ LET r == ask'["tool"].reply IN r.accepted + r.duplicate + r.rejected = Len(a.events)
      BY <1>0, <1>7, AnsweredOk
    <2>2. a.stage = "insert" /\ tool = "send" /\ a.events = batch
      BY <1>1, <1>7 DEF Answered, ForBatch, Busy
    <2>3. AllStored(file, Ids', batch)
      BY <1>0, <2>1, <2>2 DEF AllStored
    <2>. QED
      BY <2>1, <2>2, <2>3 DEF ForBatch, Busy
  <1>. QED
    BY <1>2, <1>3, <1>4, <1>5, <1>6, <1>7 DEF Moves, Dropped, GivenUp

\* The counts of the tool.
LEMMA CountFields ==
    ASSUME NEW k \in Counts
    PROVE  k.mapped \in Nat /\ k.accepted \in Nat /\ k.duplicate \in Int /\ k.rejected \in Int
  BY DEF Counts

\* One line more is mapped.
LEMMA CountMapped ==
    ASSUME NEW k \in Counts, NEW d, d = [k EXCEPT !.mapped = @ + 1]
    PROVE  /\ d \in Counts /\ d.mapped = k.mapped + 1
           /\ d.accepted = k.accepted /\ d.duplicate = k.duplicate /\ d.rejected = k.rejected
  <1>1. k.mapped + 1 \in Nat
    BY CountFields
  <1>. QED
    BY <1>1 DEF Counts

Taking(k, x, y, z) ==
    [k EXCEPT !.accepted = @ + x, !.duplicate = @ + y, !.rejected = @ + z]

\* The counts of an answer are added.
LEMMA CountTaken ==
    ASSUME NEW k \in Counts, NEW x \in Nat, NEW y \in Int, NEW z \in Int, NEW d,
           d = Taking(k, x, y, z)
    PROVE  /\ d \in Counts /\ d.mapped = k.mapped /\ d.accepted = k.accepted + x
           /\ d.duplicate = k.duplicate + y /\ d.rejected = k.rejected + z
  <1>1. PICK a, b, c : a = k.accepted + x /\ b = k.duplicate + y /\ c = k.rejected + z
    OBVIOUS
  <1>2. a \in Nat /\ b \in Int /\ c \in Int
    BY <1>1, CountFields
  <1>3. d = [k EXCEPT !.accepted = a, !.duplicate = b, !.rejected = c]
    BY <1>1 DEF Taking
  <1>4. d \in Counts
    BY <1>2, <1>3 DEF Counts
  <1>5. d.mapped = k.mapped /\ d.accepted = a /\ d.duplicate = b /\ d.rejected = c
    BY <1>3 DEF Counts
  <1>. QED
    BY <1>1, <1>4, <1>5

\* The tool, its request, and what of its batch is stored.
LEMMA ToolStepKeeps ==
    ASSUME ToolInv, AskInv, AskShape, [Next]_vars
    PROVE  ToolInv' /\ AskInv'
  <1>0. /\ file' = file /\ Ids \subseteq Ids' /\ "tool" \in Everyone
        /\ \A n : Wire(n) = ParseLine(file[n], Now)
    BY RowSteps, IdsGrow, InTermsOfFile DEF Everyone
  <1>1. /\ Len(file) \in Nat /\ MappedIn(file) \subseteq 1 .. Len(file)
        /\ pos \in Nat \ {0} /\ batch \in Seq(MappedIn(file)) /\ Len(batch) \in Nat
    BY FileFacts DEF ToolInv, ToolType
  <1>2. ForBatch(file, Ids, tool, batch, ask["tool"]) /\ Behind(file, Ids, pos, batch)
    BY DEF AskInv, ToolInv
  <1>3. CASE ~ToolHears /\ UNCHANGED replay
    <2>1. \A c \in Everyone : Moves(c)
      BY <1>3, AllMove
    <2>2. \A c \in Everyone : RequestOk(file, Ids', ask'[c])
      BY <2>1, RequestStep DEF ToolInv
    <2>3. ForBatch(file, Ids', tool, batch, ask'["tool"])
      BY <1>0, <1>3, <2>1, ForBatchStep DEF replay, ToolInv
    <2>4. Behind(file, Ids', pos, batch)
      BY <1>0, <1>2, MoreRows
    <2>5. AskInv'
      BY <1>0, <1>3, <2>2, <2>3 DEF AskInv, replay
    <2>6. ToolInv'
      BY <1>0, <1>3, <2>4 DEF ToolInv, ToolType, Total, replay
    <2>. QED
      BY <2>5, <2>6
  <1>4. ASSUME UNCHANGED <<ask, rows>>, tool # "send"
        PROVE  AskInv'
    <2>1. Ids' = Ids /\ ask["tool"].stage = "idle"
      BY <1>2, <1>4 DEF Ids, ForBatch
    <2>2. ForBatch(file, Ids, tool', batch', ask["tool"])
      BY <2>1 DEF ForBatch, Busy
    <2>. QED
      BY <1>0, <1>4, <2>1, <2>2 DEF AskInv
  <1>5. CASE SkipLine /\ UNCHANGED <<ask, rows>>
    <2>1. pos \notin MappedIn(file)
      BY <1>0, <1>5 DEF SkipLine, MappedIn
    <2>2. Ids' = Ids /\ tool # "send" /\ pos' = pos + 1
      BY <1>5 DEF Ids, SkipLine
    <2>3. Behind(file, Ids, pos + 1, batch)
      BY <1>1, <1>2, <2>1, BehindMoves
    <2>4. ToolInv'
      BY <1>0, <1>1, <1>5, <2>2, <2>3 DEF SkipLine, ToolInv, ToolType, Total
    <2>. QED
      BY <1>4, <1>5, <2>2, <2>4
  <1>6. CASE AddLine /\ UNCHANGED <<ask, rows>>
    <2>1. pos \in MappedIn(file)
      BY <1>0, <1>1, <1>6 DEF AddLine, MappedIn
    <2>2. /\ Ids' = Ids /\ tool # "send" /\ pos' = pos + 1 /\ batch' = Append(batch, pos)
          /\ UNCHANGED <<tool, attempt>> /\ tool = "scan"
      BY <1>6 DEF Ids, AddLine
    <2>3. Behind(file, Ids, pos + 1, Append(batch, pos))
      BY <1>1, <1>2, BehindMoves
    <2>4. batch' \in Seq(MappedIn(file)) /\ Len(batch') = Len(batch) + 1
      BY <1>1, <2>1, <2>2
    <2>5. /\ count' \in Counts
          /\ count'.mapped = count.mapped + 1 /\ Total' = Total
      <3>1. count' = [count EXCEPT !.mapped = @ + 1] /\ count \in Counts
        BY <1>6 DEF AddLine, ToolInv, ToolType
      <3>2. /\ count' \in Counts /\ count'.mapped = count.mapped + 1
            /\ count'.accepted = count.accepted /\ count'.duplicate = count.duplicate
            /\ count'.rejected = count.rejected
        BY <3>1, CountMapped
      <3>. QED
        BY <3>2 DEF Total
    <2>6. pos' \in 1 .. Len(file) + 1
      BY <1>1, <1>6, <2>2 DEF AddLine
    <2>7. ToolType'
      BY <1>0, <2>2, <2>4, <2>5, <2>6 DEF ToolInv, ToolType
    <2>8. Total' + Len(batch') = count'.mapped
      <3>1. Total + Len(batch) = count.mapped /\ Total \in Int /\ count.mapped \in Nat
        <4>1. count \in Counts /\ Total + Len(batch) = count.mapped
          BY DEF ToolInv, ToolType
        <4>. QED
          BY <4>1, CountFields DEF Total
      <3>. QED
        BY <1>1, <2>4, <2>5, <3>1
    <2>9. ToolInv'
      BY <1>0, <2>2, <2>3, <2>7, <2>8 DEF ToolInv
    <2>. QED
      BY <1>4, <1>6, <2>2, <2>9
  <1>7. CASE (LineThrows \/ BeginSend \/ Complete) /\ UNCHANGED <<ask, rows>>
    <2>1. Ids' = Ids /\ tool # "send" /\ UNCHANGED <<pos, batch, count>>
      BY <1>7 DEF Ids, LineThrows, BeginSend, Complete
    <2>2. ToolInv'
      BY <1>0, <1>1, <1>7, <2>1, ReplayAssumption
         DEF LineThrows, BeginSend, Complete, ToolInv, ToolType, Total
    <2>. QED
      BY <1>4, <1>7, <2>1, <2>2
  <1>8. CASE RunAgain /\ UNCHANGED <<ask, rows>>
    <2>1. /\ Ids' = Ids /\ tool # "send" /\ pos' = 1 /\ batch' = <<>> /\ tool' = "scan"
          /\ attempt' = 0 /\ count' = NoCount
      BY <1>8 DEF Ids, RunAgain
    <2>2. Behind(file, Ids, 1, <<>>)
      BY <1>1, BehindMoves
    <2>3. ToolInv'
      BY <1>0, <1>1, <2>1, <2>2, ReplayAssumption DEF ToolInv, ToolType, Total, NoCount, Counts
    <2>. QED
      BY <1>4, <1>8, <2>1, <2>3
  <1>9. CASE ToolHears
    <2>. DEFINE a == ask["tool"]
    <2>1. /\ a.stage = "answered" /\ Ids' = Ids /\ ask'["tool"] = Idle
          /\ \A c \in Everyone : c # "tool" => ask'[c] = ask[c]
          /\ IF a.status = 202 THEN Taken(a.reply) ELSE Refused
      BY <1>0, <1>9, ToolHearsAsks, AskKept DEF Ids
    <2>2. tool = "send" /\ RequestOk(file, Ids, Idle) /\ Idle.stage = "idle"
      BY <1>1, <1>2, <2>1, MadeOk, Records DEF ForBatch
    <2>3. ForBatch(file, Ids, tool', batch', Idle)
      BY <2>2 DEF ForBatch, Busy
    <2>4. AskInv'
      BY <1>0, <2>1, <2>2, <2>3 DEF AskInv
    <2>5. CASE a.status = 202
      <3>1. Taken(a.reply) /\ a.stage = "answered" /\ a.status = 202
        BY <2>1, <2>5
      <3>2. AllStored(file, Ids, batch) /\ a.reply.accepted + a.reply.duplicate + a.reply.rejected = Len(batch)
        BY <1>2, <3>1 DEF ForBatch
      <3>3. a.reply.accepted \in Nat /\ a.reply.duplicate \in Int /\ a.reply.rejected \in Int
        BY <1>0 DEF AskInv, RequestOk
      <3>4. Behind(file, Ids, pos, <<>>)
        BY <1>1, <1>2, <3>2, BehindMoves
      <3>5. /\ count' \in Counts
            /\ count'.mapped = count.mapped
            /\ Total' = Total + (a.reply.accepted + a.reply.duplicate + a.reply.rejected)
        <4>. DEFINE r == a.reply
        <4>1. count' = [count EXCEPT !.accepted = @ + r.accepted,
                                     !.duplicate = @ + r.duplicate,
                                     !.rejected = @ + r.rejected]
          BY <3>1 DEF Taken
        <4>2. count \in Counts
          BY DEF ToolInv, ToolType
        <4>3. /\ count' \in Counts /\ count'.mapped = count.mapped
              /\ count'.accepted = count.accepted + r.accepted
              /\ count'.duplicate = count.duplicate + r.duplicate
              /\ count'.rejected = count.rejected + r.rejected
              /\ count.accepted \in Nat /\ count.duplicate \in Int /\ count.rejected \in Int
          <5>. DEFINE x == r.accepted
                      y == r.duplicate
                      z == r.rejected
          <5>1. x \in Nat /\ y \in Int /\ z \in Int
            BY <3>3
          <5>2. count' = [count EXCEPT !.accepted = @ + x, !.duplicate = @ + y, !.rejected = @ + z]
            BY <4>1
          <5>. HIDE DEF x, y, z
          <5>4. count' = Taking(count, x, y, z)
            BY <5>2, Zenon DEF Taking
          <5>3. /\ count' \in Counts /\ count'.mapped = count.mapped
                /\ count'.accepted = count.accepted + x
                /\ count'.duplicate = count.duplicate + y
                /\ count'.rejected = count.rejected + z
            BY <4>2, <5>1, <5>4, CountTaken
          <5>. QED
            BY <4>2, <5>3, CountFields DEF x, y, z
        <4>4. \A k, l, m, x, y, z \in Int : (k + x) + (l + y) + (m + z) = (k + l + m) + (x + y + z)
          OBVIOUS
        <4>5. /\ Total = count.accepted + count.duplicate + count.rejected
              /\ Total' = count'.accepted + count'.duplicate + count'.rejected
          BY DEF Total
        <4>. HIDE DEF a
        <4>. QED
          BY <3>3, <4>3, <4>4, <4>5
      <3>6. /\ batch' = <<>> /\ tool' = "scan" /\ UNCHANGED <<file, pos, attempt>>
        BY <3>1 DEF Taken
      <3>7. Total' + Len(batch') = count'.mapped
        BY <1>1, <3>2, <3>5, <3>6 DEF ToolInv
      <3>8. ToolType'
        BY <3>5, <3>6 DEF ToolInv, ToolType
      <3>9. Behind(file, Ids, pos, <<>>)'
        BY <1>0, <2>1, <3>4, <3>6
      <3>10. ToolInv'
        BY <3>6, <3>7, <3>8, <3>9 DEF ToolInv
      <3>. QED
        BY <2>4, <3>10
    <2>6. CASE a.status # 202
      <3>1. Refused
        BY <2>1, <2>6
      <3>2. ToolInv'
        BY <1>0, <1>1, <2>1, <2>2, <3>1, ReplayAssumption
           DEF Refused, LastAttempt, NextAttempt, ToolInv, ToolType, Total
      <3>. QED
        BY <2>4, <3>2
    <2>. QED
      BY <2>5, <2>6
  <1>. QED
    BY <1>3, <1>5, <1>6, <1>7, <1>8, <1>9, ReplaySteps

\* The rows are those of lines, whoever stored them.
LEMMA StoreStep ==
    ASSUME StoreInv, AskInv, AskShape, [Next]_vars
    PROVE  StoreInv'
  <1>1. /\ UNCHANGED rows \/ \E c \in Everyone : Inserts(c)
        /\ UNCHANGED published \/ (UNCHANGED rows /\ published' = Ids)
        /\ live' \in {live, Boot} /\ UNCHANGED <<file, deployment>>
        /\ Ids \subseteq Ids'
    BY RowSteps, IdsGrow
  <1>2. \A s, n : RowOf(s, n)' = RowOf(s, n)
    BY <1>1 DEF RowOf, IdOf, Wire, Geo
  <1>3. \A r \in rows' : r \in rows \/
            \E n \in MappedIn(file) : Good(file, n) /\ r = RowOf(SensorName, n)
    <2>1. CASE UNCHANGED rows
      BY <2>1
    <2>2. ASSUME NEW c \in Everyone, Inserts(c), NEW r \in NewAt(c)
          PROVE  \E n \in MappedIn(file) : Good(file, n) /\ r = RowOf(SensorName, n)
      <3>1. PICK v, from, i : /\ v = GoodPart(file, ask[c].events) /\ from = ask[c].from
                              /\ i \in 1 .. Len(ChunkAt(c)) /\ r = RowOf(SensorName, ChunkAt(c)[i])
        <4>1. ChunkAt(c) \in Seq(MappedIn(file))
          BY <2>2, ChunkFacts
        <4>2. \E i \in 1 .. Len(ChunkAt(c)) : r = RowOf(SensorName, ChunkAt(c)[i])
          BY <2>2, <4>1, NewFacts DEF NewAt
        <4>. QED
          BY <4>2
      <3>2. /\ ChunkAt(c)[i] = v[from + i] /\ v \in Seq(MappedIn(file)) /\ Len(v) \in Nat
            /\ \A j \in 1 .. Len(v) : Good(file, v[j])
            /\ from \in Nat /\ Len(ChunkAt(c)) = Upto(from, Len(v)) - from
            /\ Upto(from, Len(v)) \in Nat /\ Upto(from, Len(v)) <= Len(v)
        BY <2>2, <3>1, ChunkFacts
      <3>3. from + i \in 1 .. Len(v)
        BY <3>1, <3>2
      <3>4. ChunkAt(c)[i] \in MappedIn(file) /\ Good(file, ChunkAt(c)[i])
        BY <3>2, <3>3
      <3>. QED
        BY <3>1, <3>4
    <2>. QED
      BY <1>1, <2>1, <2>2 DEF Inserts
  <1>4. RowsInv'
    BY <1>1, <1>2, <1>3 DEF StoreInv, RowsInv
  <1>5. published' \subseteq Ids' /\ live' \in {None, Boot} /\ deployment' \in Deployments
    BY <1>1 DEF StoreInv
  <1>. QED
    BY <1>4, <1>5 DEF StoreInv

\* At the start nothing has been read, and the rows are the shipper's.
LEMMA StoreInit == Init => ToolInv /\ AskInv /\ StoreInv
  <1>. SUFFICES ASSUME Init PROVE ToolInv /\ AskInv /\ StoreInv
    OBVIOUS
  <1>1. /\ file \in Files \cup {<<>>} /\ tool = "scan" /\ pos = 1 /\ batch = <<>>
        /\ attempt = 0 /\ count = NoCount
        /\ ask = [c \in Everyone |-> Idle] /\ live = None /\ published = {}
        /\ deployment \in Deployments
    BY DEF Init, ReplayInit, RuntimeInit
  <1>2. Len(file) \in Nat
    BY <1>1, FileFacts
  <1>3. ToolInv
    <2>1. Behind(file, Ids, 1, <<>>)
      BY DEF Behind
    <2>. QED
      BY <1>1, <1>2, <2>1, ReplayAssumption DEF ToolInv, ToolType, Counts, NoCount, Total
  <1>4. AskInv
    <2>1. batch \in Seq(MappedIn(file))
      BY <1>3 DEF ToolInv, ToolType
    <2>2. RequestOk(file, Ids, Idle)
      BY <2>1, MadeOk
    <2>3. "tool" \in Everyone /\ Idle.stage = "idle"
      BY Records DEF Everyone
    <2>. QED
      BY <1>1, <2>2, <2>3 DEF AskInv, ForBatch, Busy
  <1>5. RowsInv
    <2>1. PICK n \in Shipped :
              rows = {RowOf(LiveSensor, m) :
                        m \in {k \in 1 .. n : k <= Len(file) /\ Wire(k) # None /\ Valid(k)}}
      BY DEF Init
    <2>2. n \in Nat
      BY PathAssumption
    <2>3. \A k \in 1 .. n : k <= Len(file) /\ Wire(k) # None /\ Valid(k)
                              => k \in MappedIn(file) /\ Good(file, k)
      BY <1>2, <2>2, InTermsOfFile DEF MappedIn
    <2>. QED
      BY <2>1, <2>3 DEF RowsInv
  <1>. QED
    BY <1>1, <1>3, <1>4, <1>5 DEF StoreInv

\* The tool, the requests and the rows agree in every state.
LEMMA StoreInvariant == Spec => [](ToolInv /\ AskInv /\ StoreInv)
  <1>1. AskShape /\ (ToolInv /\ AskInv /\ StoreInv) /\ [Next]_vars => (ToolInv /\ AskInv /\ StoreInv)'
    BY ToolStepKeeps, StoreStep
  <1>. QED
    BY <1>1, StoreInit, ShapeInvariant, PTL DEF Spec

\* Every variable keeps to its type: the tool stays within its log and its
\* attempts, and the rollups count rows that are stored.
THEOREM TypeCorrect == Spec => []TypeOK
  <1>1. RInv /\ ToolInv /\ AskInv /\ StoreInv => TypeOK
    <2>. SUFFICES ASSUME RInv, ToolInv, AskInv, StoreInv PROVE TypeOK
      OBVIOUS
    <2>1. Range(batch) \subseteq 1 .. Len(file)
      <3>1. batch \in Seq(MappedIn(file)) /\ MappedIn(file) \subseteq 1 .. Len(file)
        BY FileFacts DEF ToolInv, ToolType
      <3>. QED
        BY <3>1 DEF Range
    <2>2. \A c \in Everyone : ask[c].stage \in Stages
      BY DEF AskInv, RequestOk
    <2>. QED
      BY <2>1, <2>2 DEF TypeOK, RInv, RuntimeType, ToolInv, ToolType, StoreInv
  <1>. QED
    BY <1>1, RuntimeInvariant, StoreInvariant, PTL

\* However often answers were lost, late or refused and the batch was sent
\* again, the counts of a run that completed are those of the events it
\* mapped, each counted once: the 202 the tool takes accounts for its whole
\* batch.
THEOREM EachCountedOnce == Spec => []CountsAddUp
  <1>1. ToolInv => CountsAddUp
    BY DEF ToolInv, ToolType, CountsAddUp, Total, Counts
  <1>. QED
    BY <1>1, StoreInvariant, PTL

\* "complete" means what it says, for every log, whatever fails on the way
\* and whatever the other events of a batch are.
THEOREM CompleteIsStored == Spec => []CompleteMeansStored
  <1>1. ToolInv => CompleteMeansStored
    <2>. SUFFICES ASSUME ToolInv, tool = "done", NEW n \in DOMAIN file,
                         Wire(n) # None, Valid(n)
                  PROVE  IdOf(SensorName, n) \in Ids
      BY DEF CompleteMeansStored
    <2>1. /\ pos = Len(file) + 1 /\ batch = <<>> /\ Behind(file, Ids, pos, batch)
          /\ Len(file) \in Nat /\ DOMAIN file = 1 .. Len(file)
      BY FileFacts DEF ToolInv, ToolType
    <2>2. n \in MappedIn(file) /\ Good(file, n) /\ IdOf(SensorName, n) = IdIn(file, n)
      BY <2>1, InTermsOfFile DEF MappedIn
    <2>3. n \in 1 .. pos - 1
      BY <2>1
    <2>4. IdIn(file, n) \in Ids \/ \E j \in 1 .. Len(batch) : batch[j] = n
      BY <2>1, <2>2, <2>3 DEF Behind
    <2>. QED
      BY <2>1, <2>2, <2>4
  <1>. QED
    BY <1>1, StoreInvariant, PTL

\* A line has one row, whether the shipper delivered it, the tool did, or an
\* abandoned request of the tool did after its retry: everything in a row,
\* its id included, follows from the line and the name of the sensor.
THEOREM OneRowPerLine == Spec => []NoTwins
  <1>1. RowsInv => NoTwins
    <2>. SUFFICES ASSUME RowsInv, SensorName = LiveSensor,
                         NEW r \in rows, NEW s \in rows, r.id[2] = s.id[2]
                  PROVE  r = s
      BY DEF NoTwins
    <2>1. PICK n \in MappedIn(file) : r = RowOf(SensorName, n)
      BY DEF RowsInv
    <2>2. PICK m \in MappedIn(file) : s = RowOf(SensorName, m)
      BY DEF RowsInv
    <2>3. r.id[2] = file[n] /\ s.id[2] = file[m]
      BY <2>1, <2>2 DEF RowOf, NormalizeEvent, IdOf, EventId
    <2>4. file[n] = file[m]
      BY <2>3
    <2>5. RowOf(SensorName, n) = RowOf(SensorName, m)
      BY <2>4 DEF RowOf, IdOf, Wire
    <2>. QED
      BY <2>1, <2>2, <2>5
  <1>. QED
    BY <1>1, StoreInvariant, PTL DEF StoreInv

-----------------------------------------------------------------------------
(* The mapping and the schema *)

\* The source of a wire event is that of its line.
LEMMA SourceKept ==
    ASSUME NEW e, NEW now, MapCowrieEvent(e, now) # None
    PROVE  /\ MapCowrieEvent(e, now).src_ip = e.src_ip
           /\ "src_ip" \in DOMAIN e /\ e.src_ip # Other
  <1>1. /\ "src_ip" \in DOMAIN e /\ e.src_ip # Other
        /\ MapCowrieEvent(e, now) = Specific(e, Base(e, now)) /\ Specific(e, Base(e, now)) # None
    BY DEF MapCowrieEvent
  <1>2. PICK b : b = Base(e, now)
    OBVIOUS
  <1>3. b.src_ip = e.src_ip /\ DOMAIN b = DOMAIN Base(e, now)
    BY <1>2 DEF Base
  <1>4. Specific(e, b).src_ip = b.src_ip
    BY <1>1, <1>2, <1>3 DEF Specific, Base
  <1>. QED
    BY <1>1, <1>2, <1>3, <1>4

\* What the end of an address is rewritten to: the hextets after "::", and
\* perhaps two more.
LEMMA TailFacts ==
    ASSUME NEW ip, IsAddress(ip), ip.version = 6
    PROVE  /\ TailParts(ip) \in Seq(Nat) /\ ip.tail \in Seq(Nat)
           /\ Len(TailParts(ip)) = Len(ip.tail) + (IF ip.dotted = <<>> THEN 0 ELSE 2)
           /\ \A k \in 1 .. Len(ip.tail) : TailParts(ip)[k] = ip.tail[k]
  <1>1. /\ ip.tail \in Seq(Nat)
        /\ ip.dotted = <<>> \/ ip.dotted \in [1 .. 4 -> 0 .. 255]
    <2>1. ip.version # 4
      OBVIOUS
    <2>. QED
      BY <2>1, Zenon DEF IsAddress
  <1>2. CASE ip.dotted = <<>>
    BY <1>1, <1>2 DEF TailParts
  <1>3. CASE ip.dotted # <<>>
    <2>1. PICK o : o = ip.dotted
      OBVIOUS
    <2>7. o \in [1 .. 4 -> 0 .. 255]
      BY <1>1, <1>3, <2>1, Zenon
    <2>2. o[1] \in Nat /\ o[2] \in Nat /\ o[3] \in Nat /\ o[4] \in Nat
      BY <2>7
    <2>3. PICK p : p = <<256 * o[1] + o[2], 256 * o[3] + o[4]>>
      OBVIOUS
    <2>4. p \in Seq(Nat) /\ Len(p) = 2
      BY <2>2, <2>3
    <2>5. TailParts(ip) = ip.tail \o p
      BY <1>3, <2>1, <2>3 DEF TailParts
    <2>6. \A k \in 1 .. Len(ip.tail) : (ip.tail \o p)[k] = ip.tail[k]
      BY <1>1, <2>4
    <2>8. PICK q, t : q = ip.tail /\ t = q \o p
      OBVIOUS
    <2>13. q \in Seq(Nat)
      BY <1>1, <2>8, Zenon
    <2>14. q \o p \in Seq(Nat) /\ Len(q \o p) = Len(q) + Len(p)
      BY <2>4, <2>13, ConcatProperties
    <2>9. t \in Seq(Nat) /\ Len(t) = Len(ip.tail) + 2
      BY <2>4, <2>8, <2>14, Zenon
    <2>10. TailParts(ip) = t /\ \A k \in 1 .. Len(ip.tail) : t[k] = ip.tail[k]
      BY <2>5, <2>6, <2>8, Zenon
    <2>11. PICK d : d = (IF ip.dotted = <<>> THEN 0 ELSE 2)
      OBVIOUS
    <2>12. d = 2
      BY <1>3, <2>11, Zenon
    <2>. QED
      BY <1>1, <2>9, <2>10, <2>11, <2>12, Zenon
  <1>. QED
    BY <1>2, <1>3

\* A hextet in front of dotted bytes, if there are any.
HextetBefore(ip, last, i) ==
    IF i <= Len(ip.head) THEN ip.head[i]
    ELSE IF i > last - Len(ip.tail) THEN ip.tail[i - (last - Len(ip.tail))] ELSE 0

\* truncateIp of an IPv6 address keeps its first three hextets.
LEMMA FirstHextets ==
    ASSUME NEW ip, IsAddress(ip), ip.version = 6
    PROVE  TruncateIp(ip).prefix = [i \in 1 .. 3 |-> Hextet(ip, i)]
  <1>0. PICK h, t, z, s :
            h = ip.head /\ t = TailParts(ip) /\ z = Zeros(Missing(ip)) /\ s = ExpandIpv6(ip)
    OBVIOUS
  <1>1. h \in Seq(Nat) /\ t \in Seq(Nat) /\ Len(h) + Len(t) <= 8
    <2>1. ip.version # 4
      OBVIOUS
    <2>2. ip.head \in Seq(Nat) /\ Len(ip.head) + Len(TailParts(ip)) <= 8
      BY <2>1, Zenon DEF IsAddress
    <2>3. TailParts(ip) \in Seq(Nat)
      BY TailFacts
    <2>. QED
      BY <1>0, <2>2, <2>3, Zenon
  <1>2. Missing(ip) = 8 - Len(h) - Len(t) /\ Missing(ip) \in Nat
    <2>1. PICK n : n = 8 - Len(h) - Len(t)
      OBVIOUS
    <2>2. n \in Nat
      <3>1. Len(h) \in Nat /\ Len(t) \in Nat /\ Len(h) + Len(t) <= 8
        BY <1>1
      <3>. QED
        BY <2>1, <3>1
    <2>3. Missing(ip) = IF n > 0 THEN n ELSE 0
      BY <1>0, <2>1, Zenon DEF Missing
    <2>. QED
      BY <2>1, <2>2, <2>3
  <1>3. z \in Seq(Nat) /\ Len(z) = 8 - Len(h) - Len(t) /\ \A i \in 1 .. Len(z) : z[i] = 0
    BY <1>0, <1>2 DEF Zeros
  <1>4. s = (h \o z) \o t
    BY <1>0 DEF ExpandIpv6
  <1>5. /\ s \in Seq(Nat) /\ Len(s) = 8
        /\ h \o z \in Seq(Nat) /\ Len(h \o z) = 8 - Len(t)
        /\ Len(h) \in Nat /\ Len(t) \in Nat
    BY <1>1, <1>3, <1>4
  <1>. DEFINE last == IF ip.dotted = <<>> THEN 8 ELSE 6
  <1>10. /\ last \in {6, 8} /\ Len(ip.tail) \in Nat /\ 8 - Len(t) = last - Len(ip.tail)
         /\ \A i \in 1 .. 3 : ~(i > last)
    <2>1. /\ ip.tail \in Seq(Nat)
          /\ Len(t) = Len(ip.tail) + (IF ip.dotted = <<>> THEN 0 ELSE 2)
      BY <1>0, TailFacts
    <2>2. CASE ip.dotted = <<>>
      BY <2>1, <2>2
    <2>3. CASE ip.dotted # <<>>
      BY <2>1, <2>3
    <2>. QED
      BY <2>2, <2>3
  <1>11. \A i \in 1 .. 3 : Hextet(ip, i) = HextetBefore(ip, last, i)
    <2>. HIDE DEF last
    <2>1. last = (IF ip.dotted = <<>> THEN 8 ELSE 6)
      BY DEF last
    <2>. SUFFICES ASSUME NEW i \in 1 .. 3 PROVE Hextet(ip, i) = HextetBefore(ip, last, i)
      OBVIOUS
    <2>2. ~(i > last)
      BY <1>10
    <2>. QED
      BY <2>1, <2>2, Zenon DEF Hextet, HextetBefore
  <1>. HIDE DEF last
  <1>6. ASSUME NEW i \in 1 .. 3
        PROVE  s[i] = Hextet(ip, i)
    <2>1. CASE i <= Len(h)
      <3>1. (h \o z)[i] = h[i] /\ s[i] = (h \o z)[i]
        BY <1>1, <1>3, <1>4, <1>5, <2>1
      <3>. QED
        BY <1>0, <1>11, <2>1, <3>1 DEF HextetBefore
    <2>2. CASE i > Len(h) /\ i <= 8 - Len(t)
      <3>1. i - Len(h) \in 1 .. Len(z) /\ i \in 1 .. Len(h \o z)
        BY <1>1, <1>3, <1>5, <2>2
      <3>2. (h \o z)[i] = z[i - Len(h)] /\ s[i] = (h \o z)[i]
        BY <1>1, <1>3, <1>4, <1>5, <2>2, <3>1
      <3>3. z[i - Len(h)] = 0
        BY <1>3, <3>1
      <3>5. ~(i <= Len(ip.head)) /\ ~(i > last - Len(ip.tail))
        <4>1. ~(i <= Len(h)) /\ ~(i > 8 - Len(t))
          BY <1>5, <2>2
        <4>. QED
          BY <1>0, <1>10, <4>1, Zenon
      <3>4. Hextet(ip, i) = 0
        BY <1>11, <3>5, Zenon DEF HextetBefore
      <3>. QED
        BY <3>2, <3>3, <3>4
    <2>3. CASE i > Len(h) /\ i > 8 - Len(t)
      <3>0. PICK y : y = h \o z
        OBVIOUS
      <3>2. y \in Seq(Nat) /\ Len(y) = 8 - Len(t) /\ Len(t) \in Nat /\ s = y \o t
        BY <1>4, <1>5, <3>0
      <3>3. i \in Nat /\ i > Len(y) /\ i <= Len(y) + Len(t)
        BY <1>5, <2>3, <3>2
      <3>5. i \in 1 .. Len(y) + Len(t) /\ ~(i <= Len(y))
        BY <3>2, <3>3
      <3>6. \A k \in 1 .. Len(y) + Len(t) :
                (y \o t)[k] = IF k <= Len(y) THEN y[k] ELSE t[k - Len(y)]
        BY <1>1, <3>2, ConcatProperties
      <3>4. s[i] = t[i - Len(y)]
        BY <3>2, <3>5, <3>6
      <3>1. s[i] = t[i - (8 - Len(t))]
        BY <3>2, <3>4
      <3>7. PICK k : k = i - (8 - Len(t))
        OBVIOUS
      <3>12. PICK m : m = Len(ip.tail) /\ m \in Nat /\ 8 - Len(t) = last - m /\ last \in {6, 8}
        BY <1>10
      <3>8. k \in 1 .. Len(ip.tail) /\ k = i - (last - Len(ip.tail))
        <4>0. PICK d : d = 8 - Len(t) /\ d = last - m
          BY <3>12, Zenon
        <4>2. i > d /\ k = i - d
          BY <2>3, <3>7, <4>0, Zenon
        <4>1. k \in 1 .. m /\ k = i - (last - m)
          BY <3>12, <4>0, <4>2
        <4>. QED
          BY <3>12, <4>1, Zenon
      <3>9. s[i] = ip.tail[k]
        <4>1. s[i] = t[k]
          BY <3>1, <3>7, Zenon
        <4>2. t[k] = ip.tail[k]
          BY <1>0, <3>8, TailFacts, Zenon
        <4>. QED
          BY <4>1, <4>2, Zenon
      <3>10. ~(i <= Len(ip.head)) /\ i > last - Len(ip.tail)
        <4>1. ~(i <= Len(h))
          BY <1>5, <2>3
        <4>. QED
          BY <1>0, <1>10, <2>3, <4>1, Zenon
      <3>11. Hextet(ip, i) = ip.tail[i - (last - Len(ip.tail))]
        BY <1>11, <3>10, Zenon DEF HextetBefore
      <3>. QED
        BY <3>8, <3>9, <3>11, Zenon
    <2>. QED
      BY <1>5, <2>1, <2>2, <2>3
  <1>7. TruncateIp(ip).prefix = SubSeq(s, 1, 3)
    BY <1>0 DEF TruncateIp
  <1>8. SubSeq(s, 1, 3) = [i \in 1 .. 3 |-> s[i]]
    BY <1>5
  <1>9. [i \in 1 .. 3 |-> s[i]] = [i \in 1 .. 3 |-> Hextet(ip, i)]
    BY <1>6
  <1>. QED
    BY <1>7, <1>8, <1>9, Zenon

\* A row has the prefix of its source's address, however that was written.
THEOREM PrefixIsOfAddress == Spec => []PrefixOfAddress
  <1>1. ToolType /\ RowsInv => PrefixOfAddress
    <2>. SUFFICES ASSUME ToolType, RowsInv, NEW r \in rows, r.src_ip_hash[2].version = 6
                  PROVE  r.src_ip_trunc.prefix = [i \in 1 .. 3 |-> Hextet(r.src_ip_hash[2], i)]
      BY DEF PrefixOfAddress
    <2>1. PICK s \in {SensorName, LiveSensor}, n \in MappedIn(file) :
              r = RowOf(s, n) /\ Good(file, n)
      BY DEF RowsInv
    <2>. DEFINE ip == Wire(n).src_ip
    <2>2. r.src_ip_hash[2] = ip /\ r.src_ip_trunc = TruncateIp(ip)
      BY <2>1 DEF RowOf, NormalizeEvent, HashIp
    <2>3. /\ Wire(n) = MapCowrieEvent(file[n], Now) /\ Wire(n) # None
          /\ file[n] \notin {NotJson, JsonNull} /\ IsLine(file[n])
      BY FileFacts DEF MappedIn, Wire, ParseLine, ToolType
    <2>4. ip # NotAnAddress
      BY <2>1, <2>3 DEF Good, Wire, EventOk
    <2>5. ip = file[n].src_ip /\ ip # Other /\ "src_ip" \in DOMAIN file[n]
      BY <2>3, SourceKept
    <2>6. IsAddress(ip)
      BY <2>3, <2>4, <2>5 DEF IsLine
    <2>. HIDE DEF ip
    <2>. QED
      BY <2>2, <2>6, FirstHextets
  <1>. QED
    BY <1>1, StoreInvariant, PTL DEF StoreInv, ToolInv

\* A text that is cut is a text, and not longer than its limit.
LEMMA CutFits ==
    ASSUME NEW e, e \notin {NotJson, JsonNull}, IsLine(e), NEW f \in TextFields
    PROVE  /\ Cut(e, f) # None
           /\ Cut(e, f).len \in Nat /\ Cut(e, f).len <= Limit[f]
  <1>1. PICK s : s = AsText(e, f)
    OBVIOUS
  <1>2. s \in Texts
    <2>1. CASE f \in DOMAIN e /\ e[f] # Other
      BY <1>1, <2>1 DEF AsText, IsLine
    <2>2. CASE ~(f \in DOMAIN e /\ e[f] # Other)
      BY <1>1, <2>2 DEF AsText, Text, Texts
    <2>. QED
      BY <2>1, <2>2
  <1>3. Limit[f] \in Nat
    BY MappingAssumption
  <1>4. PICK c : c = Slice(s, Limit[f])
    OBVIOUS
  <1>5. c \in Texts /\ c.len \in Nat /\ c.len <= Limit[f]
    BY <1>2, <1>3, <1>4 DEF Slice, Texts
  <1>6. Cut(e, f) = c
    BY <1>1, <1>4, Zenon DEF Cut
  <1>. QED
    BY <1>5, <1>6, MappingAssumption

\* What the schema asks of the fields that the mapping sets.
FieldsFit(w) ==
    /\ w.type \in EventTypes
    /\ \A f \in DOMAIN MaxLength : w[f] # None => w[f].len <= MaxLength[f]
    /\ w.protocol # None => w.protocol \in {"ssh", "telnet"}
    /\ w.type = "login_attempt" => w.username # None /\ w.password # None
    /\ w.type = "command" => w.command # None

\* The fields of a base that has nothing but what every event has.
LEMMA BaseFits ==
    ASSUME NEW e, e \notin {NotJson, JsonNull}, IsLine(e), NEW now, NEW b, b = Base(e, now)
    PROVE  /\ b \in [ts : {b.ts}, src_ip : {b.src_ip}, type : {None}, session : {b.session},
                     protocol : {b.protocol}, username : {None}, password : {None},
                     success : {None}, command : {None}, url : {None},
                     client_version : {None}, duration : {None}]
           /\ b.session # None => b.session.len <= MaxLength["session"]
           /\ b.protocol # None => b.protocol \in {"ssh", "telnet"}
  <1>1. "session" \in TextFields
    BY DEF TextFields
  <1>2. /\ Cut(e, "session").len \in Nat /\ Cut(e, "session").len <= Limit["session"]
        /\ Limit["session"] \in Nat /\ MaxLength["session"] \in Nat
        /\ Limit["session"] <= MaxLength["session"]
    BY <1>1, CutFits, MappingAssumption, SchemaAssumption, PathAssumption
  <1>3. b.session # None => b.session = Cut(e, "session")
    BY DEF Base
  <1>4. b.session # None => b.session.len <= MaxLength["session"]
    BY <1>2, <1>3
  <1>5. b \in [ts : {b.ts}, src_ip : {b.src_ip}, type : {None}, session : {b.session},
               protocol : {b.protocol}, username : {None}, password : {None},
               success : {None}, command : {None}, url : {None},
               client_version : {None}, duration : {None}]
    BY DEF Base
  <1>6. b.protocol # None => b.protocol \in {"ssh", "telnet"}
    BY DEF Base
  <1>. QED
    BY <1>4, <1>5, <1>6

\* The mapping makes every field it sets fit the schema of the other side.
LEMMA SpecificFits ==
    ASSUME NEW e, e \notin {NotJson, JsonNull}, IsLine(e), NEW now, Specific(e, Base(e, now)) # None
    PROVE  FieldsFit(Specific(e, Base(e, now)))
  <1>0. PICK b, w : b = Base(e, now) /\ w = Specific(e, b)
    OBVIOUS
  <1>1. \A f \in TextFields : /\ Cut(e, f) # None /\ Cut(e, f).len \in Nat
                              /\ Cut(e, f).len <= Limit[f] /\ Limit[f] \in Nat
    BY CutFits, MappingAssumption
  <1>2. /\ {"session", "version", "username", "password", "input", "url", "outfile"} = TextFields
        /\ DOMAIN MaxLength = {"session", "username", "password", "command", "url", "client_version"}
        /\ \A f \in DOMAIN MaxLength : MaxLength[f] \in Nat
    BY SchemaAssumption DEF TextFields
  <1>3. /\ Cut(e, "username") # None /\ Cut(e, "username").len <= MaxLength["username"]
        /\ Cut(e, "password") # None /\ Cut(e, "password").len <= MaxLength["password"]
        /\ Cut(e, "url").len <= MaxLength["url"]
        /\ Cut(e, "outfile").len <= MaxLength["url"]
        /\ Cut(e, "version").len <= MaxLength["client_version"]
        /\ Cut(e, "input") # None /\ Cut(e, "input").len <= MaxLength["command"]
    BY <1>1, <1>2, PathAssumption
  <1>4. /\ b \in [ts : {b.ts}, src_ip : {b.src_ip}, type : {None}, session : {b.session},
                  protocol : {b.protocol}, username : {None}, password : {None},
                  success : {None}, command : {None}, url : {None},
                  client_version : {None}, duration : {None}]
        /\ b.session # None => b.session.len <= MaxLength["session"]
        /\ b.protocol # None => b.protocol \in {"ssh", "telnet"}
    BY <1>0, BaseFits
  <1>. DEFINE Fits(x) ==
          /\ x.type \in EventTypes
          /\ x.session # None => x.session.len <= MaxLength["session"]
          /\ x.username # None => x.username.len <= MaxLength["username"]
          /\ x.password # None => x.password.len <= MaxLength["password"]
          /\ x.command # None => x.command.len <= MaxLength["command"]
          /\ x.url # None => x.url.len <= MaxLength["url"]
          /\ x.client_version # None => x.client_version.len <= MaxLength["client_version"]
          /\ x.protocol # None => x.protocol \in {"ssh", "telnet"}
          /\ x.type = "login_attempt" => x.username # None /\ x.password # None
          /\ x.type = "command" => x.command # None
  <1>. DEFINE c == Cut(e, "version")
              u == Cut(e, "username")
              p == Cut(e, "password")
              i == Cut(e, "input")
              l == IF "url" \in DOMAIN e THEN Cut(e, "url") ELSE Cut(e, "outfile")
              d == IF "duration" \in DOMAIN e /\ e.duration # Other THEN e.duration ELSE None
              y == e.eventid = "cowrie.login.success"
  <1>5. l.len <= MaxLength["url"]
    BY <1>3
  <1>11. \/ w = [b EXCEPT !.type = "session_connect"]
         \/ w = [b EXCEPT !.type = "client_version", !.client_version = c]
         \/ w = [b EXCEPT !.type = "login_attempt", !.success = y, !.username = u, !.password = p]
         \/ w = [b EXCEPT !.type = "command", !.command = i]
         \/ w = [b EXCEPT !.type = "file_download", !.url = l]
         \/ w = [b EXCEPT !.type = "session_closed", !.duration = d]
    BY <1>0, Zenon DEF Specific
  <1>. HIDE DEF c, u, p, i, l, d, y
  <1>6. /\ u # None /\ u.len <= MaxLength["username"]
        /\ p # None /\ p.len <= MaxLength["password"]
        /\ i # None /\ i.len <= MaxLength["command"]
        /\ c.len <= MaxLength["client_version"]
    BY <1>3 DEF c, u, p, i
  <1>20. ASSUME w = [b EXCEPT !.type = "session_connect"]
        PROVE  Fits(w)
    BY <1>4, <1>5, <1>6, <1>20 DEF EventTypes
  <1>21. ASSUME w = [b EXCEPT !.type = "client_version", !.client_version = c]
        PROVE  Fits(w)
    BY <1>4, <1>5, <1>6, <1>21 DEF EventTypes
  <1>22. ASSUME w = [b EXCEPT !.type = "login_attempt", !.success = y, !.username = u, !.password = p]
        PROVE  Fits(w)
    BY <1>4, <1>5, <1>6, <1>22 DEF EventTypes
  <1>23. ASSUME w = [b EXCEPT !.type = "command", !.command = i]
        PROVE  Fits(w)
    BY <1>4, <1>5, <1>6, <1>23 DEF EventTypes
  <1>24. ASSUME w = [b EXCEPT !.type = "file_download", !.url = l]
        PROVE  Fits(w)
    BY <1>4, <1>5, <1>6, <1>24 DEF EventTypes
  <1>25. ASSUME w = [b EXCEPT !.type = "session_closed", !.duration = d]
        PROVE  Fits(w)
    BY <1>4, <1>5, <1>6, <1>25 DEF EventTypes
  <1>12. Fits(w)
    <2>. HIDE DEF Fits
    <2>. QED
      BY <1>11, <1>20, <1>21, <1>22, <1>23, <1>24, <1>25
  <1>. QED
    BY <1>0, <1>2, <1>12 DEF FieldsFit

\* Whatever a record of Cowrie holds, the mapping makes it fit the schema of
\* the other side, but for its address, its time and its duration.
THEOREM RecordsFit == Spec => []MappedRecordsFit
  <1>1. ToolType => MappedRecordsFit
    <2>. SUFFICES ASSUME ToolType, NEW n \in DOMAIN file, Wire(n) # None,
                         Wire(n).src_ip # NotAnAddress, InRange(Wire(n).ts, Now),
                         Wire(n).duration # None => Wire(n).duration \in 0 .. Longest
                  PROVE  Valid(n)
      BY DEF MappedRecordsFit
    <2>1. file[n] \notin {NotJson, JsonNull} /\ IsLine(file[n]) /\ Wire(n) = MapCowrieEvent(file[n], Now)
      BY FileFacts DEF Wire, ParseLine, ToolType
    <2>2. Wire(n) = Specific(file[n], Base(file[n], Now))
      BY <2>1 DEF MapCowrieEvent
    <2>3. FieldsFit(Wire(n))
      BY <2>1, <2>2, SpecificFits
    <2>4. EventOk(Wire(n), Now)
      BY <2>3 DEF FieldsFit, EventOk
    <2>. QED
      BY <2>4 DEF Valid
  <1>. QED
    BY <1>1, StoreInvariant, PTL DEF ToolInv

-----------------------------------------------------------------------------
(* When the tool gives up *)

\* The batch fits into a request.
BatchInv ==
    /\ Len(batch) <= MaxBatchEvents
    /\ batchBytes \in Nat /\ batchBytes <= MaxBatchBytes
    /\ batch = <<>> => batchBytes = EnvelopeBytes
    /\ tool = "send" => batch # <<>>

\* Nothing has failed so far, and the log holds no line that throws and no
\* event that is refused.
Clean ==
    /\ faults = 0
    /\ \A n \in DOMAIN file : ~Throws(file[n])
    /\ \A n \in DOMAIN file : Wire(n) # None => Valid(n)

\* The process that serves the tool has its runtime or will have it.
Serves ==
    /\ db = "up"
    /\ deployment = "functions" => memo["events"] # "rejected"
    /\ deployment = "service" => memo["service"] = "ready"

\* The request of the tool passes the checks, and its answer is a 202.
GoesWell(a) ==
    /\ a.stage = "waiting" => WhenAdmitted(a.req) = Passed
    /\ a.stage = "answered" => a.status = 202

CleanInv ==
    /\ BatchInv /\ faults \in Nat
    /\ Clean => Serves /\ tool # "dead" /\ GoesWell(ask["tool"])

\* A step is one failure more, or none.
LEMMA FaultSteps == ASSUME AskShape, [Next]_vars PROVE UNCHANGED faults \/ faults' = faults + 1
  <1>1. CASE UNCHANGED vars
    BY <1>1 DEF vars
  <1>2. CASE Elsewhere(StartService) \/ (\E i \in Processes : Elsewhere(InitStep(i)))
             \/ Elsewhere(GoDown) \/ Elsewhere(ComeUp)
    BY <1>2 DEF Elsewhere, StartService, InitStep, Migrate, CommitMigration, InitFails,
                GoDown, ComeUp, Fault
  <1>3. CASE ToolStep \/ Rerun \/ ToolHears
    BY <1>3 DEF ToolStep, Rerun, ToolHears
  <1>4. CASE LoseResponse \/ TimesOut
    BY <1>4, LoseResponseAsks, TimesOutAsks
  <1>5. ASSUME NEW c \in Everyone, NEW req, CallFunction(c, req) \/ CallService(c, req)
        PROVE  UNCHANGED faults
    BY <1>5, CallAsks
  <1>6. ASSUME NEW c \in Everyone,
               \/ Enter(c) \/ NoRuntime(c) \/ QueryFails(c)
               \/ RecordLive(c) \/ InsertChunk(c) \/ Accepted(c)
               \/ NotAdmitted(c) \/ Forget(c)
        PROVE  UNCHANGED faults \/ faults' = faults + 1
    BY <1>6, EnterAsks, NoRuntimeAsks, QueryFailsAsks, RecordLiveAsks, InsertChunkAsks,
       AcceptedAsks, NotAdmittedAsks, ForgetAsks
  <1>7. CASE Read \/ Aggregate
    BY <1>7, OthersAsk
  <1>8. ASSUME NEW i \in Processes, Dies(i)
        PROVE  faults' = faults + 1
    BY <1>8, DiesAsks
  <1>. QED
    BY <1>1, <1>2, <1>3, <1>4, <1>5, <1>6, <1>7, <1>8, Steps

\* The batch never outgrows a request.
LEMMA BatchStep ==
    ASSUME Configured, ToolInv, AskInv, AskShape, BatchInv, [Next]_vars
    PROVE  BatchInv'
  <1>0. batch \in Seq(MappedIn(file)) /\ Len(batch) \in Nat /\ MaxBatchEvents \in Nat \ {0}
        /\ MaxBatchBytes \in Nat /\ EnvelopeBytes \in Nat /\ EnvelopeBytes <= MaxBatchBytes
    BY DEF ToolInv, ToolType, Configured
  <1>1. CASE UNCHANGED replay
    BY <1>1 DEF replay, BatchInv
  <1>2. CASE SkipLine \/ LineThrows \/ BeginSend \/ Complete
    BY <1>2 DEF SkipLine, LineThrows, BeginSend, Complete, BatchInv
  <1>3. CASE RunAgain
    BY <1>0, <1>3 DEF RunAgain, BatchInv
  <1>4. CASE AddLine
    <2>. DEFINE w == Wire(pos)
    <2>1. /\ tool = "scan" /\ tool' = tool /\ pos <= Len(file) /\ w # None /\ ~Full(w)
          /\ batch' = Append(batch, pos) /\ batchBytes' = batchBytes + SizeOf(w)
      BY <1>4 DEF AddLine
    <2>2. pos \in DOMAIN file /\ file \in Files
      <3>1. file \in Files \cup {<<>>} /\ pos \in 1 .. Len(file) + 1
        BY DEF ToolInv, ToolType
      <3>2. DOMAIN file = 1 .. Len(file) /\ Len(file) \in Nat
        BY <3>1, FileFacts
      <3>3. pos \in 1 .. Len(file) /\ file # <<>>
        BY <2>1, <3>1, <3>2
      <3>. QED
        BY <3>1, <3>2, <3>3
    <2>3. SizeOf(w) \in Nat /\ EnvelopeBytes + SizeOf(w) <= MaxBatchBytes
      BY <2>1, <2>2 DEF Configured, Wire
    <2>4. Len(batch') = Len(batch) + 1 /\ batch' # <<>>
      BY <1>0, <2>1
    <2>5. batch # <<>> => Len(batch) < MaxBatchEvents /\ batchBytes + SizeOf(w) <= MaxBatchBytes
      BY <1>0, <2>1, <2>3 DEF Full, BatchInv
    <2>. HIDE DEF w
    <2>6. CASE batch = <<>>
      <3>1. batchBytes = EnvelopeBytes /\ Len(batch) = 0
        BY <2>6 DEF BatchInv
      <3>. QED
        BY <1>0, <2>1, <2>3, <2>4, <3>1 DEF BatchInv
    <2>7. CASE batch # <<>>
      BY <1>0, <2>1, <2>3, <2>4, <2>5, <2>7 DEF BatchInv
    <2>. QED
      BY <2>6, <2>7
  <1>5. CASE ToolHears
    <2>1. ask["tool"].stage = "answered" /\ tool = "send"
      BY <1>5, ToolHearsAsks DEF AskInv, ForBatch
    <2>2. Taken(ask["tool"].reply) \/ Refused
      BY <1>5, ToolHearsAsks
    <2>3. CASE Taken(ask["tool"].reply)
      BY <1>0, <2>3 DEF Taken, BatchInv
    <2>4. CASE Refused
      BY <2>1, <2>4 DEF Refused, BatchInv
    <2>. QED
      BY <2>2, <2>3, <2>4
  <1>. QED
    BY <1>1, <1>2, <1>3, <1>4, <1>5, ReplaySteps

\* The request of the tool passes every check.
LEMMA RequestPasses ==
    ASSUME Configured, BatchInv, ToolType, tool = "send"
    PROVE  /\ FunctionChecks("events", Sent("tool")) = Passed
           /\ ListenerChecks("tool", Sent("tool")) = Passed
           /\ WhenAdmitted(Sent("tool")) = Passed
  <1>0. Fn("tool") = "events"
    BY DEF Fn
  <1>1. PICK req : req = Sent("tool")
    OBVIOUS
  <1>2. BatchOk(SensorName, Boot, batch, Now)
    <2>1. batch \in Seq(MappedIn(file)) /\ batch # <<>> /\ Len(batch) <= MaxBatchEvents
      BY DEF BatchInv, ToolType
    <2>2. MaxBatchEvents \in Nat /\ MaxEvents \in Nat /\ MaxBatchEvents <= MaxEvents
      BY DEF Configured
    <2>3. Len(batch) \in 1 .. MaxEvents
      BY <2>1, <2>2
    <2>. QED
      BY <2>3 DEF BatchOk, Configured
  <1>3. /\ req.method = "POST" /\ req.url = "good"
        /\ req.path = "/v1/events" /\ req.auth = IngestToken
        /\ req.declared = batchBytes /\ req.size = batchBytes /\ req.body = "batch"
    BY <1>0, <1>1, <1>2 DEF Sent
  <1>4. req.json
    BY <1>0, <1>1, Zenon DEF Sent
  <1>5. ~(batchBytes > MaxBody) /\ ~(batchBytes > MaxRead)
    BY DEF BatchInv, Configured
  <1>6. FunctionChecks("events", req) = Passed
    BY <1>3, OneCheck DEF FunctionChecks, Refuse, Bearer, Configured
  <1>7. BridgeChecks(req) = Passed
    <2>1. /\ Refuse(req.url = "bad", 500) = Passed
          /\ Refuse(req.method \notin Reads /\ req.size > MaxRead, 500) = Passed
          /\ Refuse(req.method \in Forbidden, 500) = Passed
      BY <1>3, <1>5 DEF Refuse, Forbidden
    <2>. QED
      BY <2>1, BridgeReturns
  <1>8. ServerChecks(req) = Passed
    <2>1. \A a, b, d : Three(a, b, d) = IF a # Passed THEN a ELSE IF b # Passed THEN b ELSE d
      BY ThreeChecks DEF Three
    <2>2. ServerChecks(req) = Three(Refuse(req.path = "/healthz" /\ req.method \in Reads, 200),
                                    Refuse(req.path = "/healthz", 405),
                                    Refuse(req.path # "/v1/events", 404))
      BY Zenon DEF ServerChecks, Three
    <2>. QED
      BY <1>3, <2>1, <2>2 DEF Refuse
  <1>9. ListenerChecks("tool", req) = Passed
    BY <1>0, <1>7, <1>8 DEF ListenerChecks
  <1>10. WhenAdmitted(req) = Passed
    <2>1. /\ Refuse(req.method # "POST", 405) = Passed
          /\ Refuse(~Bearer(req, IngestToken), 401) = Passed
          /\ Refuse(req.declared > MaxBody, 413) = Passed
          /\ Refuse(req.body = "unreadable", 400) = Passed
          /\ Refuse(req.size > MaxBody, 413) = Passed
          /\ Refuse(req.body \in {"no json", "no envelope"}, 400) = Passed
      BY <1>3, <1>5 DEF Refuse, Bearer
    <2>2. Refuse(~req.json, 415) = Passed
      BY <1>4, Zenon DEF Refuse
    <2>3. Refuse(~TRUE, 429) = Passed
      BY Zenon DEF Refuse
    <2>4. EventsReturns(req, TRUE) = Passed
      BY <2>1, <2>2, <2>3, Zenon DEF EventsReturns, EarlyReturn
    <2>. QED
      BY <2>4, EventsStatus, Zenon DEF WhenAdmitted
  <1>. QED
    BY <1>1, <1>6, <1>9, <1>10, Zenon

\* What the mapping has left is without control characters.
LEMMA RowsStorable == \A s, n : Storable(RowOf(s, n))
  <1>. SUFFICES ASSUME NEW s, NEW n, NEW f \in DOMAIN MaxLength, RowOf(s, n)[f] # None
                PROVE  RowOf(s, n)[f].ctl = 0
    BY DEF Storable
  <1>1. f \in {"session", "username", "password", "command", "url", "client_version"}
    BY SchemaAssumption
  <1>2. RowOf(s, n)[f] = Strip(Wire(n)[f])
    BY <1>1 DEF RowOf, NormalizeEvent
  <1>. QED
    BY <1>2 DEF Strip, Text

\* As long as nothing fails, the process that serves the tool works.
LEMMA ServesStep ==
    ASSUME Configured, RInv, RInv', AskShape, Serves, [Next]_vars, UNCHANGED faults,
           faults \in Nat
    PROVE  Serves'
  <1>0. UNCHANGED deployment
    BY RowSteps
  <1>1. CASE UNCHANGED runtime
    BY <1>1 DEF runtime, Serves
  <1>2. ASSUME NEW i \in Processes, Wakes(i)
        PROVE  Serves'
    BY <1>2 DEF Wakes, Woken, Serves, RInv, RuntimeType, Processes, Functions
  <1>3. ASSUME NEW i \in Processes, Migrate(i)
        PROVE  Serves'
    BY <1>3 DEF Migrate, Serves, RInv, RuntimeType, Processes, Functions
  <1>4. ASSUME NEW i \in Processes, CommitMigration(i)
        PROVE  Serves'
    <2>1. ~(memo[i] = "creating" /\ schema = "complete")
      BY DEF RInv, OneMigration
    <2>. QED
      BY <1>4, <2>1 DEF CommitMigration, Serves, RInv, RuntimeType, Processes, Functions
  <1>5. ASSUME NEW i \in Processes, InitFails(i)
        PROVE  Serves'
    <2>1. ~ConfigOk(i)
      BY <1>5 DEF InitFails, Serves
    <2>2. i = "rollups"
      BY <2>1 DEF ConfigOk, Configured
    <2>. QED
      BY <1>5, <2>2, <1>0 DEF InitFails, Serves, RInv, RuntimeType, Processes, Functions
  <1>6. ASSUME NEW i \in Processes, Recycle(i)
        PROVE  FALSE
    BY <1>6 DEF Recycle, Fault
  <1>7. CASE GoDown
    BY <1>7 DEF GoDown, Fault
  <1>8. CASE ComeUp
    BY <1>8 DEF ComeUp, Serves
  <1>. QED
    BY <1>1, <1>2, <1>3, <1>4, <1>5, <1>6, <1>7, <1>8, RuntimeSteps DEF RuntimeStep, InitStep

\* As long as nothing fails, the request of the tool ends with a 202.
LEMMA WellStep ==
    ASSUME Configured, RInv, ToolInv, AskInv, AskShape, BatchInv, Clean, Serves,
           GoesWell(ask["tool"]), [Next]_vars, UNCHANGED faults, faults \in Nat
    PROVE  GoesWell(ask'["tool"])
  <1>. DEFINE me == "tool"
              a  == ask[me]
  <1>0. me \in Everyone /\ Fn(me) = "events" /\ me \notin {"late", "stranger", "reader", "cron"}
        /\ faults' # faults + 1
    BY DEF Everyone, Fn
  <1>1. ASSUME UNCHANGED ask
        PROVE  GoesWell(ask'[me])
    BY <1>1
  <1>2. ASSUME NEW c \in Everyone, NEW b, Asks(c, b), c # me
        PROVE  GoesWell(ask'[me])
    BY <1>0, <1>2, AskKept
  <1>3. ASSUME NEW b, Asks(me, b), GoesWell(b)
        PROVE  GoesWell(ask'[me])
    BY <1>0, <1>3, AskKept
  <1>4. CASE UNCHANGED vars
    BY <1>1, <1>4 DEF vars
  <1>5. CASE Elsewhere(StartService) \/ (\E i \in Processes : Elsewhere(InitStep(i)))
             \/ Elsewhere(GoDown) \/ Elsewhere(ComeUp)
    BY <1>1, <1>5, Zenon DEF Elsewhere
  <1>6. CASE ToolStep \/ Rerun
    BY <1>1, <1>6 DEF ToolStep, Rerun
  <1>7. CASE ToolHears
    BY <1>3, <1>7, ToolHearsAsks, Records DEF GoesWell
  <1>8. ~LoseResponse /\ ~TimesOut /\ \A i \in Processes : ~Dies(i)
    BY <1>0, LoseResponseAsks, TimesOutAsks, DiesAsks
  <1>9. ASSUME NEW c \in Everyone, NEW req \in Requests(c),
               CallFunction(c, req) \/ CallService(c, req)
        PROVE  GoesWell(ask'[me])
    <2>1. CASE c # me
      <3>1. \E b : Asks(c, b)
        BY <1>9, CallAsks, Zenon
      <3>. QED
        BY <1>2, <2>1, <3>1
    <2>2. CASE c = me
      <3>1. req = Sent(me) /\ tool = "send"
        BY <1>9, <2>2, CallAsks DEF Requests
      <3>2. /\ FunctionChecks(Fn(me), req) = Passed /\ ListenerChecks(me, req) = Passed
            /\ WhenAdmitted(req) = Passed
        <4>1. /\ FunctionChecks("events", Sent(me)) = Passed
              /\ ListenerChecks(me, Sent(me)) = Passed
              /\ WhenAdmitted(Sent(me)) = Passed
          BY <3>1, RequestPasses DEF ToolInv
        <4>. QED
          BY <1>0, <3>1, <4>1
      <3>3. ~(deployment = "service" /\ memo["service"] # "ready")
        BY DEF Serves
      <3>4. Asks(me, Pending(me, req))
        BY <1>9, <2>2, <3>2, <3>3, CallAsks
      <3>5. GoesWell(Pending(me, req))
        BY <3>2, PendingRecord DEF GoesWell
      <3>. QED
        BY <1>3, <3>4, <3>5
    <2>. QED
      BY <2>1, <2>2
  <1>10. ASSUME NEW c \in Everyone, Enter(c)
         PROVE  GoesWell(ask'[me])
    <2>1. CASE c # me
      BY <1>2, <1>10, <2>1, EnterAsks
    <2>2. CASE c = me
      <3>1. a.stage = "waiting" /\ WhenAdmitted(a.req) = Passed
        BY <1>10, <2>2, EnterAsks DEF GoesWell
      <3>2. HandlerChecks(c, TRUE) = EventsChecks(a.req, TRUE)
        BY <2>2 DEF HandlerChecks, Fn
      <3>3. HandlerChecks(c, TRUE) = Passed
        BY <3>1, <3>2, Zenon DEF WhenAdmitted
      <3>4. Asks(c, Forward(ask[c], "first"))
        BY <1>10, <3>3, EnterAsks, Zenon
      <3>5. GoesWell(Forward(a, "first"))
        BY <1>0, ForwardRecord DEF GoesWell, AskShape
      <3>. QED
        BY <1>3, <2>2, <3>4, <3>5
    <2>. QED
      BY <2>1, <2>2
  <1>11. \A c \in Everyone : ~NotAdmitted(c)
    BY <1>0, NotAdmittedAsks
  <1>12. ASSUME NEW c \in Everyone, NoRuntime(c)
         PROVE  GoesWell(ask'[me])
    <2>1. c # me
      BY <1>0, <1>12, NoRuntimeAsks DEF Serves, At, RInv, RuntimeType
    <2>. QED
      BY <1>2, <1>12, <2>1, NoRuntimeAsks
  <1>13. \A c \in Everyone : ~QueryFails(c)
    BY QueryFailsAsks DEF Serves
  <1>14. ASSUME NEW c \in Everyone, RecordLive(c)
         PROVE  GoesWell(ask'[me])
    <2>1. IsAsk(ask[c]) /\ Asks(c, Forward(ask[c], "insert"))
      BY <1>14, RecordLiveAsks DEF AskShape
    <2>2. GoesWell(Forward(ask[c], "insert"))
      BY <2>1, ForwardRecord DEF GoesWell
    <2>. QED
      BY <1>2, <1>3, <2>1, <2>2
  <1>15. ASSUME NEW c \in Everyone, InsertChunk(c)
         PROVE  GoesWell(ask'[me])
    <2>. DEFINE b == Stored(ask[c], Upto(ask[c].from, Len(ValidPart(ask[c].events))),
                            Cardinality(NewAt(c)))
    <2>1. \A r \in NewAt(c) : Storable(r)
      BY RowsStorable DEF NewAt, New
    <2>2. Asks(c, b) /\ ask[c].stage = "insert" /\ IsAsk(ask[c])
      BY <1>15, <2>1, InsertChunkAsks DEF AskShape
    <2>3. b.stage = "insert"
      BY <2>2, StoredRecord
    <2>. HIDE DEF b
    <2>4. GoesWell(b)
      BY <2>3 DEF GoesWell
    <2>. QED
      BY <1>2, <1>3, <2>2, <2>4
  <1>16. ASSUME NEW c \in Everyone, Accepted(c)
         PROVE  GoesWell(ask'[me])
    <2>1. CASE c # me
      <3>1. \E b : Asks(c, b)
        BY <1>16, AcceptedAsks, Zenon
      <3>. QED
        BY <1>2, <2>1, <3>1
    <2>2. CASE c = me
      <3>. DEFINE reply == Reply(a.events, a.reply.accepted)
      <3>1. a.stage = "insert" /\ a.events \in Seq(MappedIn(file))
        BY <1>0, <1>16, <2>2, AcceptedAsks DEF AskInv, RequestOk
      <3>2. \A j \in 1 .. Len(a.events) : Good(file, a.events[j])
        <4>1. \A n \in MappedIn(file) : n \in DOMAIN file /\ Wire(n) # None
          BY FileFacts DEF MappedIn, Wire, ToolInv, ToolType
        <4>2. \A n \in MappedIn(file) : Good(file, n)
          BY <4>1, InTermsOfFile DEF Clean
        <4>. QED
          BY <3>1, <4>2
      <3>3. Len(GoodPart(file, a.events)) = Len(a.events)
        BY <3>1, <3>2, GoodPartFilters DEF Filtered
      <3>4. reply.rejected = 0
        <4>1. ValidPart(a.events) = GoodPart(file, a.events)
          BY ValidIsGood
        <4>2. Len(a.events) \in Nat
          BY <3>1
        <4>. QED
          BY <3>3, <4>1, <4>2 DEF Reply
      <3>5. Asks(me, Answer(a.req, 202, reply))
        BY <1>16, <2>2, <3>4, AcceptedAsks
      <3>6. IsReply(reply)
        BY DEF IsReply, Reply
      <3>. HIDE DEF reply
      <3>7. GoesWell(Answer(a.req, 202, reply))
        BY <3>6, AnswerRecord DEF GoesWell
      <3>. QED
        BY <1>3, <3>5, <3>7
    <2>. QED
      BY <2>1, <2>2
  <1>17. ASSUME NEW c \in Everyone, Forget(c)
         PROVE  GoesWell(ask'[me])
    BY <1>2, <1>17, ForgetAsks
  <1>18. CASE Read \/ Aggregate
    <2>1. "reader" \in Everyone /\ "cron" \in Everyone
      BY DEF Everyone
    <2>. QED
      BY <1>0, <1>2, <1>18, <2>1, OthersAsk
  <1>. QED
    BY <1>4, <1>5, <1>6, <1>7, <1>8, <1>9, <1>10, <1>11, <1>12, <1>13, <1>14, <1>15, <1>16,
       <1>17, <1>18, Steps

\* As long as nothing fails, the tool does not give up.
LEMMA AliveStep ==
    ASSUME ToolType, Clean, AskShape, GoesWell(ask["tool"]), tool # "dead", [Next]_vars
    PROVE  tool' # "dead"
  <1>1. CASE UNCHANGED replay
    BY <1>1 DEF replay
  <1>2. CASE SkipLine \/ AddLine \/ BeginSend \/ Complete \/ RunAgain
    BY <1>2 DEF SkipLine, AddLine, BeginSend, Complete, RunAgain
  <1>3. CASE ToolHears
    BY <1>3, ToolHearsAsks DEF GoesWell, Taken
  <1>4. ~LineThrows
    <2>1. pos \in 1 .. Len(file) + 1 /\ DOMAIN file = 1 .. Len(file) /\ Len(file) \in Nat
      BY FileFacts DEF ToolType
    <2>2. pos <= Len(file) => pos \in DOMAIN file
      BY <2>1
    <2>. QED
      BY <2>2 DEF LineThrows, Clean
  <1>. QED
    BY <1>1, <1>2, <1>3, <1>4, ReplaySteps

\* As long as nothing fails, everything goes well.
LEMMA CleanStep ==
    ASSUME Configured, RInv, ToolInv, AskInv, AskShape, CleanInv, [Next]_vars
    PROVE  CleanInv'
  <1>1. BatchInv' /\ faults' \in Nat
    BY BatchStep, FaultSteps DEF CleanInv
  <1>2. ASSUME Clean'
        PROVE  Serves' /\ tool' # "dead" /\ GoesWell(ask["tool"])'
    <2>1. UNCHANGED faults /\ faults \in Nat /\ UNCHANGED file
      BY <1>2, FaultSteps, RowSteps DEF CleanInv, Clean
    <2>2. Clean
      <3>1. \A n : Wire(n)' = Wire(n) /\ Valid(n)' = Valid(n)
        BY <2>1, Zenon DEF Wire, Valid
      <3>. QED
        BY <1>2, <2>1, <3>1 DEF Clean
    <2>3. BatchInv /\ Serves /\ tool # "dead" /\ GoesWell(ask["tool"])
      BY <2>2 DEF CleanInv
    <2>4. RInv'
      BY RuntimeSteps, RStep
    <2>5. GoesWell(ask'["tool"])
      BY <2>1, <2>2, <2>3, WellStep
    <2>6. GoesWell(ask["tool"])'
      BY <2>5 DEF GoesWell, WhenAdmitted, EventsChecks
    <2>. QED
      BY <2>1, <2>2, <2>3, <2>4, <2>6, ServesStep, AliveStep DEF ToolInv
  <1>. QED
    BY <1>1, <1>2 DEF CleanInv

\* The tool gives up only if something failed on the way, or the log holds
\* a line that throws or an event that the API refuses: in a deployment that
\* is configured, no good event is ever the reason, whatever else is going on.
THEOREM GivesUpForCause == ASSUME Configured PROVE Spec => []DiesForCause
  <1>1. Init => CleanInv
    <2>. SUFFICES ASSUME Init PROVE CleanInv
      OBVIOUS
    <2>1. /\ batch = <<>> /\ batchBytes = EnvelopeBytes /\ tool = "scan" /\ faults = 0
          /\ db = "up" /\ ask["tool"] = Idle
          /\ deployment \in Deployments
          /\ memo = [i \in Processes |->
                       IF i = "service" /\ deployment = "service" THEN "ready" ELSE "none"]
      BY DEF Init, ReplayInit, RuntimeInit, Everyone
    <2>2. BatchInv
      BY <2>1 DEF BatchInv, Configured
    <2>3. Serves
      BY <2>1, RuntimeAssumption DEF Serves, Processes, Functions
    <2>4. GoesWell(ask["tool"])
      BY <2>1, Records DEF GoesWell
    <2>. QED
      BY <2>1, <2>2, <2>3, <2>4 DEF CleanInv
  <1>2. RInv /\ (ToolInv /\ AskInv /\ StoreInv) /\ AskShape /\ CleanInv /\ [Next]_vars => CleanInv'
    BY CleanStep
  <1>3. CleanInv => DiesForCause
    BY DEF CleanInv, Clean, DiesForCause
  <1>. QED
    BY <1>1, <1>2, <1>3, RuntimeInvariant, StoreInvariant, ShapeInvariant, PTL DEF Spec
===============================================================================
