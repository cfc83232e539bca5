----------------------------- MODULE AtomicFold -----------------------------
(***************************************************************************)
(* What the lifetime store promises to its readers, with the transaction   *)
(* of foldNewEvents seen as ONE step.                                      *)
(*                                                                         *)
(* A fold retires a set M of unfolded rows.  Each row of M joined the fold *)
(* at some statement from[e]: that statement and every later one counted   *)
(* it, the earlier ones did not.  A row that arrived before the fold has   *)
(* from[e] = 1; a row that arrived while the fold ran has a later one,     *)
(* because the transaction runs at READ COMMITTED and every statement      *)
(* reads with a snapshot of its own.                                       *)
(***************************************************************************)
EXTENDS FoldPlan

VARIABLES
    rows,       \* rows[e]: "absent", "unfolded" or "folded"
    accepted,   \* accepted[e]: how often an INSERT created row e
    expired,    \* the events older than the retention window
    tally       \* tally[s][e]: how often the board of statement s counts e

ledgerVars == <<rows, accepted, expired, tally>>

Empty == [s \in Statements |-> [e \in Events |-> 0]]

Init ==
    /\ rows = [e \in Events |-> "absent"]
    /\ accepted = [e \in Events |-> 0]
    /\ expired = {}
    /\ tally = Empty

\* An INSERT creates some rows, each one unfolded.
Insert ==
    \E S \in SUBSET {e \in Events : rows[e] = "absent"} :
        /\ rows' = [e \in Events |-> IF e \in S THEN "unfolded" ELSE rows[e]]
        /\ accepted' = [e \in Events |->
                          IF e \in S THEN accepted[e] + 1 ELSE accepted[e]]
        /\ UNCHANGED <<expired, tally>>

Expire ==
    \E e \in Events :
        /\ expired' = expired \cup {e}
        /\ UNCHANGED <<rows, accepted, tally>>

\* One fold: every row of M is retired, and counted by the statements from
\* from[e] on that take it.
Fold ==
    \E M \in SUBSET {e \in Events : rows[e] = "unfolded"} :
        /\ rows' = [e \in Events |-> IF e \in M THEN "folded" ELSE rows[e]]
        /\ \E from \in [M -> 1 .. NumStatements + 1] :
              tally' = [s \in Statements |-> [e \in Events |->
                          IF /\ e \in M
                             /\ Takes(s, e)
                             /\ from[e] <= s
                          THEN tally[s][e] + 1
                          ELSE tally[s][e]]]
        /\ UNCHANGED <<accepted, expired>>

\* The rebuild: every board emptied, every row back to unfolded.
Reset ==
    /\ rows' = [e \in Events |->
                  IF rows[e] = "folded" THEN "unfolded" ELSE rows[e]]
    /\ tally' = Empty
    /\ UNCHANGED <<accepted, expired>>

\* Retention: only rows that are folded and expired go.
Purge ==
    /\ rows' = [e \in Events |->
                  IF e \in expired /\ rows[e] = "folded"
                  THEN "absent" ELSE rows[e]]
    /\ UNCHANGED <<accepted, expired, tally>>

Next == Insert \/ Expire \/ Fold \/ Reset \/ Purge

Spec == Init /\ [][Next]_ledgerVars
=============================================================================
