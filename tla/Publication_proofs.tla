-------------------------- MODULE Publication_proofs --------------------------
(***************************************************************************)
(* Type correctness of Publication, and that no page overstates its        *)
(* headline, for any number of runners, arrivals and failures.             *)
(*                                                                         *)
(* The number travels from the counters to a run (got), to rollup_totals   *)
(* and to a page; the boards it is compared with only grow meanwhile.      *)
(***************************************************************************)
EXTENDS Publication, TLAPS

\* The lock is held by the run whose fold is open.
LockIsFold == \A r \in Runners : pc[r] = "fold" <=> lock = r

\* The statements count in their order: later boards have more, and no board
\* more than was marked.
BoardsInOrder ==
    /\ sum["counters"] <= sum["countries"]
    /\ sum["countries"] <= sum["daily"]
    /\ sum["daily"] <= retired

\* Copies of the counters are old at most.
CopiesAreOld ==
    /\ \A r \in Runners : got[r] <= sum["counters"]
    /\ totals <= sum["counters"]

\* The headline is read first.  On a page that has it, each board already read covers it, and so
\* will the others.
PageCovers ==
    /\ "totals" \in reader => reader = Queries
    /\ "totals" \notin reader =>
           /\ payload["totals"] <= sum["counters"]
           /\ \A b \in {"countries", "daily"} \ reader :
                  payload["totals"] <= payload[b]

IInv == TypeOK /\ LockIsFold /\ BoardsInOrder /\ CopiesAreOld /\ PageCovers

\* The first state.
LEMMA Initially == Init => IInv
  <1>. SUFFICES ASSUME Init PROVE IInv
    OBVIOUS
  <1>. USE PublicationAssumption DEF Init
  <1>1. TypeOK
    BY DEF TypeOK, Boards, Queries, PC, Unfolded
  <1>2. LockIsFold
    BY DEF LockIsFold
  <1>3. BoardsInOrder /\ CopiesAreOld /\ PageCovers
    BY DEF BoardsInOrder, CopiesAreOld, PageCovers, Boards, Queries
  <1>. QED
    BY <1>1, <1>2, <1>3 DEF IInv

\* A commit adds to the boards in their order.
LEMMA CommitKeeps ==
    ASSUME IInv, NEW r \in Runners, CommitFold(r)
    PROVE  IInv'
  <1>. USE PublicationAssumption
  <1>1. PICK a, b, c, m \in known .. Unfolded :
          /\ a <= b /\ b <= c /\ c <= m
          /\ Feed(a, b, c)
          /\ retired' = retired + m
    BY DEF CommitFold
  <1>2. /\ arrived \in Nat /\ retired \in Nat /\ known \in Nat /\ MaxArrivals \in Nat
        /\ arrived <= MaxArrivals /\ retired <= arrived /\ known <= Unfolded
        /\ Unfolded = arrived - retired
    BY DEF IInv, TypeOK, Unfolded
  <1>3. /\ a \in Nat /\ b \in Nat /\ c \in Nat /\ m \in Nat /\ m <= arrived - retired
    BY <1>1, <1>2
  <1>4. /\ sum["counters"] \in Nat /\ sum["countries"] \in Nat /\ sum["daily"] \in Nat
        /\ BoardsInOrder
    BY DEF IInv, TypeOK, Boards
  <1>5. /\ sum'["counters"] = sum["counters"] + a
        /\ sum'["countries"] = sum["countries"] + b
        /\ sum'["daily"] = sum["daily"] + c
        /\ DOMAIN sum' = Boards
        /\ sum' = [x \in Boards |-> sum'[x]]
    BY <1>1 DEF Feed, Boards
  <1>6. /\ sum["counters"] + a <= sum["countries"] + b
        /\ sum["countries"] + b <= sum["daily"] + c
        /\ sum["daily"] + c <= retired + m
        /\ retired + m <= arrived
    BY <1>1, <1>2, <1>3, <1>4 DEF BoardsInOrder
  <1>7. BoardsInOrder'
    BY <1>1, <1>5, <1>6 DEF BoardsInOrder
  <1>8. /\ retired' \in 0 .. arrived /\ known' = 0 /\ lock' = Nobody
        /\ UNCHANGED <<arrived, publisher, failures, page>>
        /\ pc[r] = "fold" /\ pc' = [pc EXCEPT ![r] = "counters"]
    BY <1>1, <1>2, <1>3, <1>6 DEF CommitFold, Goto
  <1>9. sum' \in [Boards -> 0 .. MaxArrivals]
    BY <1>2, <1>3, <1>4, <1>5, <1>6 DEF Boards
  <1>10. TypeOK'
    <2>1. known' \in 0 .. Unfolded'
      <3>1. Unfolded' = arrived - (retired + m)
        BY <1>1, <1>8 DEF Unfolded
      <3>2. 0 \in 0 .. arrived - (retired + m)
        BY <1>2, <1>3, <1>6
      <3>. QED
        BY <1>8, <3>1, <3>2
    <2>2. pc' \in [Runners -> PC]
      BY <1>8 DEF IInv, TypeOK, PC
    <2>3. /\ arrived' \in 0 .. MaxArrivals /\ retired' \in 0 .. arrived'
          /\ lock' \in Runners \cup {Nobody}
      BY <1>2, <1>8
    <2>4. /\ got' \in [Runners -> 0 .. MaxArrivals]
          /\ writer' \in Runners \cup {Nobody}
          /\ totals' \in 0 .. MaxArrivals /\ failures' \in 0 .. MaxFailures
          /\ reader' \in SUBSET Queries
          /\ payload' \in [Queries -> 0 .. MaxArrivals]
      BY <1>8 DEF IInv, TypeOK, publisher, page
    <2>. QED
      BY <1>9, <2>1, <2>2, <2>3, <2>4 DEF TypeOK
  <1>11. LockIsFold'
    BY <1>8 DEF IInv, LockIsFold, TypeOK
  <1>12. sum["counters"] <= sum'["counters"]
    BY <1>3, <1>4, <1>5
  <1>13. CopiesAreOld'
    BY <1>3, <1>4, <1>5, <1>8, <1>12 DEF IInv, CopiesAreOld, TypeOK, publisher
  <1>14. PageCovers'
    BY <1>3, <1>4, <1>5, <1>8, <1>12 DEF IInv, PageCovers, TypeOK, page, Queries
  <1>. QED
    BY <1>7, <1>10, <1>11, <1>13, <1>14 DEF IInv

\* The other steps of a run move copies of a number.
LEMMA RunKeeps ==
    ASSUME IInv, NEW r \in Runners, Advance(r) \/ FailRun(r)
    PROVE  IInv'
  <1>. USE PublicationAssumption DEF IInv, store, publisher, page, Goto
  <1>1. CASE BeginFold(r)
    <2>1. TypeOK' /\ LockIsFold'
      BY <1>1 DEF BeginFold, TypeOK, LockIsFold, PC, Unfolded
    <2>2. BoardsInOrder' /\ CopiesAreOld' /\ PageCovers'
      BY <1>1 DEF BeginFold, BoardsInOrder, CopiesAreOld, PageCovers
    <2>. QED
      BY <2>1, <2>2
  <1>2. CASE CommitFold(r)
    BY <1>2, CommitKeeps
  <1>3. CASE ReadCounter(r)
    <2>1. TypeOK' /\ LockIsFold'
      BY <1>3 DEF ReadCounter, TypeOK, LockIsFold, PC, Unfolded, Boards
    <2>2. BoardsInOrder' /\ CopiesAreOld' /\ PageCovers'
      BY <1>3 DEF ReadCounter, BoardsInOrder, CopiesAreOld, PageCovers, TypeOK, Boards
    <2>. QED
      BY <2>1, <2>2
  <1>4. CASE DeleteTotals(r)
    <2>1. TypeOK' /\ LockIsFold'
      BY <1>4 DEF DeleteTotals, TypeOK, LockIsFold, PC, Unfolded
    <2>2. BoardsInOrder' /\ CopiesAreOld' /\ PageCovers'
      BY <1>4 DEF DeleteTotals, BoardsInOrder, CopiesAreOld, PageCovers
    <2>. QED
      BY <2>1, <2>2
  <1>5. CASE ReplaceTotals(r)
    <2>1. TypeOK' /\ LockIsFold'
      BY <1>5 DEF ReplaceTotals, TypeOK, LockIsFold, PC, Unfolded
    <2>2. BoardsInOrder' /\ CopiesAreOld' /\ PageCovers'
      BY <1>5 DEF ReplaceTotals, BoardsInOrder, CopiesAreOld, PageCovers
    <2>. QED
      BY <2>1, <2>2
  <1>6. CASE FailRun(r)
    <2>1. TypeOK' /\ LockIsFold'
      BY <1>6 DEF FailRun, TypeOK, LockIsFold, PC, Unfolded
    <2>2. BoardsInOrder' /\ CopiesAreOld' /\ PageCovers'
      BY <1>6 DEF FailRun, BoardsInOrder, CopiesAreOld, PageCovers
    <2>. QED
      BY <2>1, <2>2
  <1>. QED
    BY <1>1, <1>2, <1>3, <1>4, <1>5, <1>6 DEF Advance

\* The steps of a page, and a row that arrives.
LEMMA ReaderKeeps ==
    ASSUME IInv,
           Arrive \/ OpenPage \/ ReadTotals \/ \E b \in {"countries", "daily"} : ReadBoard(b)
    PROVE  IInv'
  <1>. USE PublicationAssumption DEF IInv, store, publisher, page
  <1>1. CASE Arrive
    <2>1. TypeOK' /\ LockIsFold'
      BY <1>1 DEF Arrive, TypeOK, LockIsFold, Unfolded
    <2>2. BoardsInOrder' /\ CopiesAreOld' /\ PageCovers'
      BY <1>1 DEF Arrive, BoardsInOrder, CopiesAreOld, PageCovers
    <2>. QED
      BY <2>1, <2>2
  <1>2. CASE OpenPage
    <2>1. TypeOK' /\ LockIsFold'
      BY <1>2 DEF OpenPage, TypeOK, LockIsFold, Unfolded
    <2>2. BoardsInOrder' /\ CopiesAreOld' /\ PageCovers'
      BY <1>2 DEF OpenPage, BoardsInOrder, CopiesAreOld, PageCovers, Queries
    <2>. QED
      BY <2>1, <2>2
  <1>3. CASE ReadTotals
    <2>1. TypeOK' /\ LockIsFold'
      BY <1>3 DEF ReadTotals, TypeOK, LockIsFold, Unfolded, Queries
    <2>2. BoardsInOrder' /\ CopiesAreOld'
      BY <1>3 DEF ReadTotals, BoardsInOrder, CopiesAreOld
    <2>3. PageCovers'
      BY <1>3 DEF ReadTotals, PageCovers, CopiesAreOld, TypeOK, Queries
    <2>. QED
      BY <2>1, <2>2, <2>3
  <1>4. ASSUME NEW b \in {"countries", "daily"}, ReadBoard(b)
        PROVE  IInv'
    <2>1. TypeOK' /\ LockIsFold'
      BY <1>4 DEF ReadBoard, TypeOK, LockIsFold, Unfolded, Queries, Boards
    <2>2. BoardsInOrder' /\ CopiesAreOld'
      BY <1>4 DEF ReadBoard, BoardsInOrder, CopiesAreOld
    <2>3. PageCovers'
      <3>1. payload["totals"] <= sum[b]
        BY <1>4 DEF ReadBoard, PageCovers, BoardsInOrder, TypeOK, Boards, Queries
      <3>. QED
        BY <1>4, <3>1 DEF ReadBoard, PageCovers, TypeOK, Queries
    <2>. QED
      BY <2>1, <2>2, <2>3
  <1>. QED
    BY <1>1, <1>2, <1>3, <1>4

\* IInv is inductive.
LEMMA Inductive == IInv /\ [Next]_vars => IInv'
  <1>. SUFFICES ASSUME IInv, [Next]_vars PROVE IInv'
    OBVIOUS
  <1>1. CASE UNCHANGED vars
    BY <1>1 DEF vars, store, publisher, page, IInv, TypeOK, LockIsFold,
                BoardsInOrder, CopiesAreOld, PageCovers, Unfolded
  <1>. QED
    BY <1>1, RunKeeps, ReaderKeeps DEF Next

\* The invariant holds in every state.
THEOREM Invariant == Spec => []IInv
  <1>. QED
    BY Initially, Inductive, PTL DEF Spec

\* Type correctness, for any runners and bounds: no board ever counts more
\* rows than were stored (foldNewEvents).
THEOREM TypeCorrect == Spec => []TypeOK
  <1>1. IInv => TypeOK
    BY DEF IInv
  <1>. QED
    BY <1>1, Invariant, PTL

\* The headline of a page never exceeds what its country board or its daily
\* series adds up to (buildDashboard reads rollup_totals first).
THEOREM NoPageOverstates == Spec => []HeadlineNeverOverstates
  <1>1. IInv => HeadlineNeverOverstates
    BY DEF IInv, PageCovers, HeadlineNeverOverstates
  <1>. QED
    BY <1>1, Invariant, PTL

=============================================================================
