--------------------------- MODULE LifetimeStore ----------------------------
(***************************************************************************)
(* The lifetime ("cumulative") store of the ingest service: the events     *)
(* table, the boards the fold feeds, the advisory lock and the marker      *)
(* meta.cumulative_ready, under any number of concurrent inserts and of    *)
(* runners of the aggregation job (src/index.ts, api/cron/aggregate.ts,    *)
(* src/run-aggregate.ts).                                                  *)
(*                                                                         *)
(* A step is one SQL statement or one commit.  The transactions run at     *)
(* Postgres' default READ COMMITTED, so a statement of the fold sees every *)
(* row committed before that statement, and none of the fold's own writes  *)
(* is visible to others before its COMMIT.                                 *)
(*                                                                         *)
(* The part of a run between the fold and the retention pass reads the     *)
(* store and writes other tables; it is in module Publication.             *)
(***************************************************************************)
EXTENDS FoldPlan

CONSTANTS
    Runners,        \* the concurrent executions of the aggregation job
    NoRunner,       \* lock value: nobody holds the advisory lock
    MaxAccepted,    \* bound: how often one id is stored anew
    MaxFailures     \* bound: how many runs fail half way

ASSUME RunnerAssumption == NoRunner \notin Runners

ASSUME BoundAssumption == MaxAccepted \in Nat /\ MaxFailures \in Nat

VARIABLES
    rows,       \* rows[e]: "absent", "unfolded" or "folded"
    accepted,   \* accepted[e]: how often an INSERT created row e
    expired,    \* the events older than the retention window
    tally,      \* tally[s][e]: how often the board of statement s counts e
    ready,      \* meta has the key cumulative_ready
    lock,       \* the holder of FOLD_LOCK_KEY, or NoRunner
    pc,         \* pc[r]: where runner r is in aggregate / enforceRetention
    step,       \* step[r]: the next statement of r's fold transaction
    seen,       \* seen[r][s]: the rows that statement s of it counted
    marked,     \* marked[r]: the rows it has set folded = TRUE
    failures    \* how many runs have failed; only bounds FailRun

txVars == <<step, seen, marked>>
vars == <<rows, accepted, expired, tally, ready, lock, pc, txVars, failures>>

PC == {"idle", "reset", "set_ready", "fold", "statements", "commit",
       "retention"}

Empty == [s \in Statements |-> [e \in Events |-> 0]]

Nothing == [s \in Statements |-> {}]

Unfolded == {e \in Events : rows[e] = "unfolded"}

Init ==
    /\ rows = [e \in Events |-> "absent"]
    /\ accepted = [e \in Events |-> 0]
    /\ expired = {}
    /\ tally = Empty
    /\ ready = FALSE
    /\ lock = NoRunner
    /\ pc = [r \in Runners |-> "idle"]
    /\ step = [r \in Runners |-> 1]
    /\ seen = [r \in Runners |-> Nothing]
    /\ marked = [r \in Runners |-> {}]
    /\ failures = 0

-----------------------------------------------------------------------------
(* Writers and the clock.                                                  *)

\* The ids of a chunk that are new.
Fresh(S) == {e \in S : rows[e] = "absent"}

\* (mutant) ON CONFLICT (id) DO UPDATE: a redelivered row starts over.
InsertChunk_Upsert(S) ==
    /\ \A e \in Fresh(S) : accepted[e] < MaxAccepted
    /\ rows' = [e \in Events |-> IF e \in S THEN "unfolded" ELSE rows[e]]
    /\ accepted' = [e \in Events |->
                      IF e \in Fresh(S) THEN accepted[e] + 1 ELSE accepted[e]]
    /\ UNCHANGED <<expired, tally, ready, lock, pc, txVars, failures>>

\* INSERT ... ON CONFLICT (id) DO NOTHING RETURNING id, for one chunk.
InsertChunk(S) ==
    /\ \A e \in Fresh(S) : accepted[e] < MaxAccepted
    /\ rows' = [e \in Events |-> IF e \in Fresh(S) THEN "unfolded" ELSE rows[e]]
    /\ accepted' = [e \in Events |->
                      IF e \in Fresh(S) THEN accepted[e] + 1 ELSE accepted[e]]
    /\ UNCHANGED <<expired, tally, ready, lock, pc, txVars, failures>>

\* The clock passes the end of event e's retention window.
Expire(e) ==
    /\ e \notin expired
    /\ expired' = expired \cup {e}
    /\ UNCHANGED <<rows, accepted, tally, ready, lock, pc, txVars, failures>>

-----------------------------------------------------------------------------
(* A run of the aggregation job.                                           *)

\* (mutant) The marker is not looked at.
StartRun_AlwaysReset(r) ==
    /\ pc[r] = "idle"
    /\ pc' = [pc EXCEPT ![r] = "reset"]
    /\ UNCHANGED <<rows, accepted, expired, tally, ready, lock, txVars, failures>>

\* getMeta("cumulative_ready") decides, and is not repeated under the lock.
StartRun(r) ==
    /\ pc[r] = "idle"
    /\ pc' = [pc EXCEPT ![r] = IF ready THEN "fold" ELSE "reset"]
    /\ UNCHANGED <<rows, accepted, expired, tally, ready, lock, txVars, failures>>

\* (mutant) TRUNCATE leaves the table counters out.
ResetCumulative_KeepCounters(r) ==
    /\ pc[r] = "reset"
    /\ lock = NoRunner
    /\ rows' = [e \in Events |->
                  IF rows[e] = "folded" THEN "unfolded" ELSE rows[e]]
    /\ tally' = [Empty EXCEPT ![Counters] = tally[Counters]]
    /\ pc' = [pc EXCEPT ![r] = "set_ready"]
    /\ UNCHANGED <<accepted, expired, ready, lock, txVars, failures>>

\* resetCumulative: one transaction under the advisory lock.
ResetCumulative(r) ==
    /\ pc[r] = "reset"
    /\ lock = NoRunner
    /\ rows' = [e \in Events |->
                  IF rows[e] = "folded" THEN "unfolded" ELSE rows[e]]
    /\ tally' = Empty
    /\ pc' = [pc EXCEPT ![r] = "set_ready"]
    /\ UNCHANGED <<accepted, expired, ready, lock, txVars, failures>>

SetReady(r) ==
    /\ pc[r] = "set_ready"
    /\ ready' = TRUE
    /\ pc' = [pc EXCEPT ![r] = "fold"]
    /\ UNCHANGED <<rows, accepted, expired, tally, lock, txVars, failures>>

\* BEGIN; SELECT pg_advisory_xact_lock
LockFold(r) ==
    /\ pc[r] = "fold"
    /\ lock = NoRunner
    /\ lock' = r
    /\ pc' = [pc EXCEPT ![r] = "statements"]
    /\ UNCHANGED <<rows, accepted, expired, tally, ready, txVars, failures>>

\* (mutant) One statement more than the plan has.
FoldStatement_NoEnd(r) ==
    /\ pc[r] = "statements"
    /\ seen' = [seen EXCEPT ![r][step[r]] =
                  {e \in Unfolded : Takes(step[r], e)}]
    /\ step' = [step EXCEPT ![r] = @ + 1]
    /\ UNCHANGED <<rows, accepted, expired, tally, ready, lock, pc, marked,
                   failures>>

\* The next INSERT ... SELECT (or SELECT) of the fold, on its own snapshot.
FoldStatement(r) ==
    /\ pc[r] = "statements"
    /\ step[r] <= NumStatements
    /\ seen' = [seen EXCEPT ![r][step[r]] =
                  {e \in Unfolded : Takes(step[r], e)}]
    /\ step' = [step EXCEPT ![r] = @ + 1]
    /\ UNCHANGED <<rows, accepted, expired, tally, ready, lock, pc, marked,
                   failures>>

\* UPDATE events SET folded = TRUE WHERE folded = FALSE
MarkFolded(r) ==
    /\ pc[r] = "statements"
    /\ step[r] = NumStatements + 1
    /\ marked' = [marked EXCEPT ![r] = Unfolded]
    /\ pc' = [pc EXCEPT ![r] = "commit"]
    /\ UNCHANGED <<rows, accepted, expired, tally, ready, lock, step, seen,
                   failures>>

\* (mutant) A session-level lock that nobody gives back.
EndTransaction_KeepLock(r) ==
    /\ step' = [step EXCEPT ![r] = 1]
    /\ seen' = [seen EXCEPT ![r] = Nothing]
    /\ marked' = [marked EXCEPT ![r] = {}]
    /\ UNCHANGED lock

EndTransaction(r) ==
    /\ lock' = NoRunner
    /\ step' = [step EXCEPT ![r] = 1]
    /\ seen' = [seen EXCEPT ![r] = Nothing]
    /\ marked' = [marked EXCEPT ![r] = {}]

\* (mutant) A run ends with the fold and never comes to the retention pass.
CommitFold_NoRetention(r) ==
    /\ pc[r] = "commit"
    /\ rows' = [e \in Events |-> IF e \in marked[r] THEN "folded" ELSE rows[e]]
    /\ tally' = [s \in Statements |-> [e \in Events |->
                   IF e \in seen[r][s] THEN tally[s][e] + 1 ELSE tally[s][e]]]
    /\ EndTransaction(r)
    /\ pc' = [pc EXCEPT ![r] = "idle"]
    /\ UNCHANGED <<accepted, expired, ready, failures>>

\* COMMIT: the writes become visible and the lock is released, in this order.
CommitFold(r) ==
    /\ pc[r] = "commit"
    /\ rows' = [e \in Events |-> IF e \in marked[r] THEN "folded" ELSE rows[e]]
    /\ tally' = [s \in Statements |-> [e \in Events |->
                   IF e \in seen[r][s] THEN tally[s][e] + 1 ELSE tally[s][e]]]
    /\ EndTransaction(r)
    /\ pc' = [pc EXCEPT ![r] = "retention"]
    /\ UNCHANGED <<accepted, expired, ready, failures>>

\* (mutant) Without "AND folded = TRUE".
Purgeable_Unfolded == expired

\* WHERE ts < cutoff AND folded = TRUE
Purgeable == {e \in expired : rows[e] = "folded"}

EnforceRetention(r) ==
    /\ pc[r] = "retention"
    /\ rows' = [e \in Events |-> IF e \in Purgeable THEN "absent" ELSE rows[e]]
    /\ pc' = [pc EXCEPT ![r] = "idle"]
    /\ UNCHANGED <<accepted, expired, tally, ready, lock, txVars, failures>>

\* A statement fails or the process dies: ROLLBACK, and the run is over.
FailRun(r) ==
    /\ pc[r] # "idle"
    /\ failures < MaxFailures
    /\ pc' = [pc EXCEPT ![r] = "idle"]
    /\ IF lock = r THEN EndTransaction(r) ELSE UNCHANGED <<lock, txVars>>
    /\ failures' = failures + 1
    /\ UNCHANGED <<rows, accepted, expired, tally, ready>>

Advance(r) ==
    \/ StartRun(r)
    \/ ResetCumulative(r)
    \/ SetReady(r)
    \/ LockFold(r)
    \/ FoldStatement(r)
    \/ MarkFolded(r)
    \/ CommitFold(r)
    \/ EnforceRetention(r)

Next ==
    \/ \E S \in SUBSET Events : InsertChunk(S)
    \/ \E e \in Events : Expire(e)
    \/ \E r \in Runners : Advance(r)
    \/ \E r \in Runners : FailRun(r)

Spec == Init /\ [][Next]_vars

\* The interval timer or the cron schedule keeps starting runs, and the
\* database keeps executing what a run asks for.
FairSpec ==
    /\ Spec
    /\ \A r \in Runners : WF_vars(Advance(r))

-----------------------------------------------------------------------------
(* Properties.                                                             *)

\* The shape of the state, which includes that a fold never runs past its
\* last statement.
TypeOK ==
    /\ rows \in [Events -> {"absent", "unfolded", "folded"}]
    /\ accepted \in [Events -> Nat]
    /\ expired \in SUBSET Events
    /\ tally \in [Statements -> [Events -> Nat]]
    /\ ready \in BOOLEAN
    /\ lock \in Runners \cup {NoRunner}
    /\ pc \in [Runners -> PC]
    /\ step \in [Runners -> 1 .. NumStatements + 1]
    /\ seen \in [Runners -> [Statements -> SUBSET Events]]
    /\ marked \in [Runners -> SUBSET Events]
    /\ failures \in 0 .. MaxFailures

\* What a row still waiting to be folded will add to every board.
Pending(e) == IF rows[e] = "unfolded" THEN 1 ELSE 0

\* No board ever counts a stored row twice: overlapping runs, a run that
\* failed half way and was repeated, redelivered events and the rebuild
\* included (the advisory lock and the folded flag of foldNewEvents).
AtMostOncePerRow ==
    \A s \in Statements, e \in Events :
        tally[s][e] + Pending(e) <= accepted[e]

\* Of two boards that take the same event, the one a later statement feeds
\* never counts it fewer times.  This is all that inserts landing between
\* two statements of a fold can do to the boards: sum(daily) >=
\* sum(countries) >= total_login_attempts, and never the other way round.
LaterBoardsCountMore ==
    \A s, t \in Statements : s < t =>
        \A e \in Events :
            Takes(s, e) /\ Takes(t, e) => tally[s][e] <= tally[t][e]

\* What the boards say of a row that retention has removed can never be
\* computed again, so no step may take it back (aggregate.ts: lifetime
\* aggregates "survive the raw-event purge").
PurgedCountsStay ==
    [][\A s \in Statements, e \in Events :
          rows[e] = "absent" => tally'[s][e] >= tally[s][e]]_vars

\* Every stored row is folded in the end, whatever fails before.
EventuallyFolded ==
    \A e \in Events : rows[e] = "unfolded" ~> rows[e] # "unfolded"

\* A raw row older than the retention window is deleted in the end: the
\* guard "AND folded = TRUE" never keeps a row for good.
ExpiredEventuallyPurged ==
    \A e \in Events :
        (rows[e] # "absent" /\ e \in expired) ~> rows[e] = "absent"

\* The transaction is atomic and serial: to its readers a fold is one step.
Ledger == INSTANCE AtomicFold WITH
    rows <- rows, accepted <- accepted, expired <- expired, tally <- tally
ImplementsAtomicFold == Ledger!Spec

(* What comments and documents of the repository say of the same state.    *)

\* "Fold every not-yet-folded event into the cumulative store exactly once"
\* (repository.ts): a row marked folded is on every board that takes it.
FoldedIsCounted ==
    \A s \in Statements, e \in Events :
        rows[e] = "folded" /\ Takes(s, e) => tally[s][e] >= 1
=============================================================================
