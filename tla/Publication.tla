---------------------------- MODULE Publication -----------------------------
(***************************************************************************)
(* From the lifetime boards to the dashboard: the second half of           *)
(* aggregate() reads the counters and replaces rollup_totals, and          *)
(* buildDashboard reads rollup_totals and then the boards, statement by    *)
(* statement, while runs of the job go on.                                 *)
(*                                                                         *)
(* Every row here is a login attempt, so a board is its sum, and the fold  *)
(* is what module AtomicFold promises of it: the rows that were there when *)
(* it began are on every board, and of the rows that came while it ran     *)
(* later statements counted more.  The rebuild is over (cumulative_ready). *)
(***************************************************************************)
EXTENDS Naturals

CONSTANTS
    Runners,        \* the concurrent executions of the aggregation job
    Nobody,         \* no runner
    MaxArrivals,    \* bound: login attempts that are stored
    MaxFailures     \* bound: runs that fail for a reason of their own

ASSUME PublicationAssumption ==
    /\ Nobody \notin Runners
    /\ {MaxArrivals, MaxFailures} \subseteq Nat

VARIABLES
    arrived,    \* rows ever stored
    retired,    \* rows marked folded
    sum,        \* sum[b]: the login attempts board b has counted
    lock,       \* the holder of the advisory lock, or Nobody
    known,      \* the unfolded rows when the open fold took the lock
    pc,         \* where runner r is in aggregate()
    got,        \* got[r]: the total_login_attempts runner r has read
    writer,     \* who has deleted the rows of rollup_totals, or Nobody
    totals,     \* total_login_attempts in rollup_totals
    failures,   \* only bounds FailRun
    reader,     \* the statements buildDashboard still has to run
    payload     \* what it has read

store == <<arrived, retired, sum, lock, known>>
publisher == <<got, writer, totals>>
page == <<reader, payload>>
vars == <<store, publisher, pc, failures, page>>

\* In the order in which the fold feeds them.
Boards == {"counters", "countries", "daily"}
Queries == {"totals", "countries", "daily"}

PC == {"idle", "fold", "counters", "delete", "insert"}

Init ==
    /\ arrived = 0
    /\ retired = 0
    /\ sum = [b \in Boards |-> 0]
    /\ lock = Nobody
    /\ known = 0
    /\ pc = [r \in Runners |-> "idle"]
    /\ got = [r \in Runners |-> 0]
    /\ writer = Nobody
    /\ totals = 0
    /\ failures = 0
    /\ reader = {}
    /\ payload = [q \in Queries |-> 0]

Unfolded == arrived - retired

\* Runner r is at from, and goes on to label.
Goto(r, from, label) == pc[r] = from /\ pc' = [pc EXCEPT ![r] = label]

Arrive ==
    /\ arrived < MaxArrivals
    /\ arrived' = arrived + 1
    /\ UNCHANGED <<retired, sum, lock, known, publisher, pc, failures, page>>

BeginFold(r) ==
    /\ Goto(r, "idle", "fold")
    /\ lock = Nobody
    /\ lock' = r
    /\ known' = Unfolded
    /\ UNCHANGED <<arrived, retired, sum, publisher, failures, page>>

\* What the statements of one fold add to the boards.
Feed(a, b, c) == sum' = [counters  |-> sum["counters"] + a,
                         countries |-> sum["countries"] + b,
                         daily     |-> sum["daily"] + c]

\* (mutant) The rows are not marked folded.
CommitFold_NoMark(r) ==
    /\ Goto(r, "fold", "counters")
    /\ \E a, b, c \in known .. Unfolded : a <= b /\ b <= c /\ Feed(a, b, c)
    /\ lock' = Nobody
    /\ known' = 0
    /\ UNCHANGED <<arrived, retired, publisher, failures, page>>

\* The last m rows are marked folded; the statements before the UPDATE
\* counted fewer of them.
CommitFold(r) ==
    /\ Goto(r, "fold", "counters")
    /\ \E a, b, c, m \in known .. Unfolded :
          /\ a <= b /\ b <= c /\ c <= m
          /\ Feed(a, b, c)
          /\ retired' = retired + m
    /\ lock' = Nobody
    /\ known' = 0
    /\ UNCHANGED <<arrived, publisher, failures, page>>

\* getCounter("total_login_attempts"), outside any transaction.
ReadCounter(r) ==
    /\ Goto(r, "counters", "delete")
    /\ got' = [got EXCEPT ![r] = sum["counters"]]
    /\ UNCHANGED <<store, writer, totals, failures, page>>

\* replaceRollup: BEGIN; DELETE FROM rollup_totals.  The row locks make the
\* DELETE of another run wait.
DeleteTotals(r) ==
    /\ Goto(r, "delete", "insert")
    /\ writer = Nobody
    /\ writer' = r
    /\ UNCHANGED <<store, got, totals, failures, page>>

\* (mutant) No DELETE, and INSERT ... ON CONFLICT DO NOTHING.
ReplaceTotals_KeepFirst(r) ==
    /\ Goto(r, "insert", "idle")
    /\ writer' = Nobody
    /\ totals' = IF totals = 0 THEN got[r] ELSE totals
    /\ UNCHANGED <<store, got, failures, page>>

\* The INSERTs and COMMIT.  W are the runs that wait in their DELETE: their
\* snapshot has the old rows only, so the new ones stay and refuse their
\* INSERTs (primary key), and these runs fail.
ReplaceTotals(r) ==
    /\ pc[r] = "insert"
    /\ \E W \in SUBSET {q \in Runners : pc[q] = "delete"} :
          pc' = [q \in Runners |-> IF q \in W \cup {r} THEN "idle" ELSE pc[q]]
    /\ writer' = Nobody
    /\ totals' = got[r]
    /\ UNCHANGED <<store, got, failures, page>>

\* A statement fails or the process dies: ROLLBACK of what is open.
FailRun(r) ==
    /\ pc[r] # "idle"
    /\ pc' = [pc EXCEPT ![r] = "idle"]
    /\ failures < MaxFailures
    /\ failures' = failures + 1
    /\ IF lock = r THEN lock' = Nobody /\ known' = 0
       ELSE UNCHANGED <<lock, known>>
    /\ writer' = IF writer = r THEN Nobody ELSE writer
    /\ UNCHANGED <<arrived, retired, sum, got, totals, page>>

Advance(r) ==
    \/ BeginFold(r)
    \/ CommitFold(r)
    \/ ReadCounter(r)
    \/ DeleteTotals(r)
    \/ ReplaceTotals(r)

-----------------------------------------------------------------------------
(* buildDashboard.                                                         *)

OpenPage ==
    /\ reader = {}
    /\ reader' = Queries
    /\ payload' = [q \in Queries |-> 0]
    /\ UNCHANGED <<store, publisher, pc, failures>>

\* rollup_totals is awaited first.
ReadTotals ==
    /\ "totals" \in reader
    /\ reader' = reader \ {"totals"}
    /\ payload' = [payload EXCEPT !["totals"] = totals]
    /\ UNCHANGED <<store, publisher, pc, failures>>

\* (mutant) rollup_totals is one of the queries of Promise.all.
ReadBoard_Unordered(b) ==
    /\ b \in reader
    /\ reader' = reader \ {b}
    /\ payload' = [payload EXCEPT ![b] = sum[b]]
    /\ UNCHANGED <<store, publisher, pc, failures>>

\* Promise.all: the boards in any order, each with a snapshot of its own.
ReadBoard(b) ==
    /\ b \in reader
    /\ "totals" \notin reader
    /\ reader' = reader \ {b}
    /\ payload' = [payload EXCEPT ![b] = sum[b]]
    /\ UNCHANGED <<store, publisher, pc, failures>>

-----------------------------------------------------------------------------
Next ==
    \/ Arrive
    \/ \E r \in Runners : Advance(r)
    \/ \E r \in Runners : FailRun(r)
    \/ OpenPage
    \/ ReadTotals
    \/ \E b \in {"countries", "daily"} : ReadBoard(b)

Spec == Init /\ [][Next]_vars

\* Runs are started again and again, and the database executes what they ask.
FairSpec == Spec /\ \A r \in Runners : WF_vars(Advance(r))

-----------------------------------------------------------------------------
(* Properties.                                                             *)

\* The shape of the state, which includes that no board ever counts more rows
\* than were stored.
TypeOK ==
    /\ arrived \in 0 .. MaxArrivals
    /\ retired \in 0 .. arrived
    /\ sum \in [Boards -> 0 .. MaxArrivals]
    /\ lock \in Runners \cup {Nobody}
    /\ known \in 0 .. Unfolded
    /\ pc \in [Runners -> PC]
    /\ got \in [Runners -> 0 .. MaxArrivals]
    /\ writer \in Runners \cup {Nobody}
    /\ totals \in 0 .. MaxArrivals
    /\ failures \in 0 .. MaxFailures
    /\ reader \in SUBSET Queries
    /\ payload \in [Queries -> 0 .. MaxArrivals]

\* Whatever runs while a page is put together, its headline number is never
\* larger than what the country board or the daily series below it adds up
\* to: buildDashboard reads rollup_totals first and the fold counts the
\* countries and the days after the counters, so both err on the same side.
HeadlineNeverOverstates ==
    reader = {} => /\ payload["totals"] <= payload["countries"]
                   /\ payload["totals"] <= payload["daily"]

\* Once no more rows come, rollup_totals shows what the counters hold and
\* keeps showing it, although runs that overlap make each other fail and one
\* that was held up may publish an old count in between.
HeadlineCatchesUp == <>[](totals = sum["counters"])
=============================================================================
