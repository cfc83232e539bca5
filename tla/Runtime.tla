--------------------------------- MODULE Runtime ---------------------------------
(***************************************************************************)
(* How a process comes by its database (ingest/src/runtime.ts, db.ts,      *)
(* config.ts).  A function (ingest/api) builds its runtime when the first  *)
(* request that got past the token asks for it, and keeps the promise for  *)
(* as long as the instance lives.  The long-running service                *)
(* (ingest/src/index.ts) does the same work once, before it listens, and   *)
(* is restarted by its container when that fails.                          *)
(*                                                                         *)
(* migrate runs one script of CREATE ... IF NOT EXISTS in a transaction    *)
(* that holds an advisory lock.  Two such transactions that both find the  *)
(* tables missing collide: the second to commit fails.                     *)
(***************************************************************************)
EXTENDS Handlers

CONSTANTS
    Deployments,    \* what is deployed: a subset of {"functions", "service"}
    HashSecret,     \* IP_HASH_SECRET, or Unset
    DatabaseUrl,    \* DATABASE_URL || POSTGRES_URL, or Unset
    MaxFaults       \* bound

ASSUME RuntimeAssumption ==
    /\ Deployments \subseteq {"functions", "service"}
    /\ MaxFaults \in Nat

VARIABLES
    deployment,
    db,             \* the database server
    schema,         \* its tables
    memo,           \* per process: the promise of its runtime
    collided,       \* history: a migration failed because of another one
    faults          \* history: faults so far

runtime == <<deployment, db, schema, memo, collided>>

Functions == {"events", "rollups", "cron"}
Processes == Functions \cup {"service"}

Migrating == {"creating", "adding"}     \* found no tables, found them all
Memo == {"none", "started", "rejected", "ready"} \cup Migrating

\* A service has been started before anybody calls; a function has not.
RuntimeInit ==
    /\ deployment \in Deployments
    /\ db = "up"
    /\ schema = IF deployment = "service" THEN "complete" ELSE "empty"
    /\ memo = [i \in Processes |->
                 IF i = "service" /\ deployment = "service" THEN "ready" ELSE "none"]
    /\ collided = FALSE
    /\ faults = 0

Fault == faults < MaxFaults /\ faults' = faults + 1

\* requireDatabaseUrl and loadConfig; the read runtime needs no secret.
ConfigOk(i) ==
    /\ DatabaseUrl # Unset
    /\ i # "rollups" => Unset \notin {IngestToken, HashSecret} /\ IngestToken # HashSecret

\* The service catches the error and stays (mutant).
Failed_Caught == "rejected"

\* What is left of a runtime that could not be built.  The promise of a
\* function stays rejected; a service exits and is started again.
Failed == IF deployment = "functions" THEN "rejected" ELSE "none"

\* getWriteRuntime, getReadRuntime: ??=.
Woken(i) == [memo EXCEPT ![i] = IF @ = "none" THEN "started" ELSE @]

\* The service starts by itself, a function when it is called.
StartService ==
    /\ deployment = "service" /\ memo["service"] = "none"
    /\ memo' = Woken("service")
    /\ UNCHANGED <<deployment, db, schema, collided, faults>>

\* Nothing is locked (mutant).
LockFree_Always == TRUE

\* pg_advisory_xact_lock: held to the end of the transaction.
LockFree == \A i \in Processes : memo[i] \notin Migrating

\* BEGIN, the lock, the script.
Migrate(i) ==
    /\ memo[i] = "started" /\ ConfigOk(i) /\ db = "up" /\ LockFree
    /\ memo' = [memo EXCEPT ![i] = IF schema = "empty" THEN "creating" ELSE "adding"]
    /\ UNCHANGED <<deployment, db, schema, collided, faults>>

\* COMMIT; then buildEnricher, which does not fail, and the repository.
CommitMigration(i) ==
    /\ memo[i] \in Migrating /\ db = "up"
    /\ IF memo[i] = "creating" /\ schema = "complete"
       THEN /\ memo' = [memo EXCEPT ![i] = Failed]
            /\ collided' = TRUE
            /\ UNCHANGED schema
       ELSE /\ memo' = [memo EXCEPT ![i] = "ready"]
            /\ schema' = "complete"
            /\ UNCHANGED collided
    /\ UNCHANGED <<deployment, db, faults>>

\* loadConfig throws, or the database does not answer.
InitFails(i) ==
    /\ memo[i] = "started"
    /\ ~ConfigOk(i) \/ db = "down"
    /\ memo' = [memo EXCEPT ![i] = Failed]
    /\ UNCHANGED <<deployment, db, schema, collided, faults>>

\* The database goes away, and rolls open transactions back.
GoDown ==
    /\ db = "up" /\ Fault
    /\ db' = "down"
    /\ memo' = [i \in Processes |-> IF memo[i] \in Migrating THEN Failed ELSE memo[i]]
    /\ UNCHANGED <<deployment, schema, collided>>

ComeUp ==
    /\ db = "down" /\ db' = "up"
    /\ UNCHANGED <<deployment, schema, memo, collided, faults>>

\* The platform recycles the instance of a function; the service is killed.
Recycle(i) ==
    /\ memo[i] # "none" /\ Fault
    /\ memo' = [memo EXCEPT ![i] = "none"]
    /\ UNCHANGED <<deployment, db, schema, collided>>

InitStep(i) == Migrate(i) \/ CommitMigration(i) \/ InitFails(i)
===============================================================================
