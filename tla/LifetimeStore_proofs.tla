------------------------ MODULE LifetimeStore_proofs ------------------------
(***************************************************************************)
(* Proofs about LifetimeStore, for any sets of events and runners.         *)
(***************************************************************************)
EXTENDS LifetimeStore, WellFoundedInduction, TLAPS

-----------------------------------------------------------------------------
(* The inductive invariant.                                                *)

\* The advisory lock is held exactly while a fold transaction is open.
LockIsTransaction ==
    \A r \in Runners : pc[r] \in {"statements", "commit"} <=> lock = r

\* A runner without the lock has no transaction state.
OutsideClean ==
    \A r \in Runners : lock # r =>
        step[r] = 1 /\ seen[r] = Nothing /\ marked[r] = {}

\* What the open transaction has counted is still waiting to be folded:
\* nobody else folds, rebuilds or purges those rows.
SeenUnfolded ==
    \A r \in Runners, s \in Statements : seen[r][s] \subseteq Unfolded

\* A statement counts only the rows it takes.
SeenTaken ==
    \A r \in Runners, s \in Statements :
        \A e \in seen[r][s] : Takes(s, e)

\* The statements ahead have counted nothing.
AheadEmpty ==
    \A r \in Runners, s \in Statements : s >= step[r] => seen[r][s] = {}

\* A row one statement counted is counted by each later one that takes it.
SeenNested ==
    \A r \in Runners : \A s, t \in Statements :
        s < t /\ t < step[r] =>
            \A e \in Events :
                e \in seen[r][s] /\ Takes(t, e) => e \in seen[r][t]

\* The final UPDATE marks all that was counted, and only unfolded rows.
MarkedCovers ==
    \A r \in Runners :
        /\ pc[r] # "commit" => marked[r] = {}
        /\ marked[r] \subseteq Unfolded
        /\ pc[r] = "commit" =>
              /\ step[r] = NumStatements + 1
              /\ \A s \in Statements : seen[r][s] \subseteq marked[r]

TxInv == /\ LockIsTransaction
         /\ OutsideClean
         /\ SeenUnfolded
         /\ SeenTaken
         /\ AheadEmpty
         /\ SeenNested
         /\ MarkedCovers

\* A row that is there was accepted.
StoredAccepted ==
    \A e \in Events : rows[e] # "absent" => accepted[e] >= 1

IInv == /\ TypeOK
        /\ TxInv
        /\ StoredAccepted
        /\ AtMostOncePerRow
        /\ LaterBoardsCountMore

-----------------------------------------------------------------------------
(* Type correctness.                                                       *)

\* The numbers that name statements.
LEMMA StatementRange == NumStatements \in Nat /\ Statements = 1 .. NumStatements
BY DEF NumStatements, Statements

\* Boards at zero and a transaction that has counted nothing have their types.
LEMMA EmptyType ==
    /\ Empty \in [Statements -> [Events -> Nat]]
    /\ Nothing \in [Statements -> SUBSET Events]
BY DEF Empty, Nothing

\* The initial state has the right shape.
LEMMA TypeInit == Init => TypeOK
<1> SUFFICES ASSUME Init PROVE TypeOK
  OBVIOUS
<1>1. 1 \in 1 .. NumStatements + 1 /\ 0 \in 0 .. MaxFailures
  BY BoundAssumption DEF NumStatements
<1>2. "idle" \in PC
  BY DEF PC
<1> QED
  BY <1>1, <1>2, EmptyType DEF Init, TypeOK

\* The end of a transaction leaves its variables well typed.
LEMMA TypeEnd ==
    ASSUME TypeOK, NEW r \in Runners, EndTransaction(r)
    PROVE  /\ lock' \in Runners \cup {NoRunner}
           /\ step' \in [Runners -> 1 .. NumStatements + 1]
           /\ seen' \in [Runners -> [Statements -> SUBSET Events]]
           /\ marked' \in [Runners -> SUBSET Events]
BY EmptyType, StatementRange DEF TypeOK, EndTransaction

\* No step leaves the types.
LEMMA TypeStep == TypeOK /\ [Next]_vars => TypeOK'
<1> SUFFICES ASSUME TypeOK, [Next]_vars PROVE TypeOK'
  OBVIOUS
<1> USE DEF txVars
<1>1. ASSUME NEW S \in SUBSET Events, InsertChunk(S) PROVE TypeOK'
  BY <1>1 DEF TypeOK, InsertChunk
<1>2. ASSUME NEW e \in Events, Expire(e) PROVE TypeOK'
  BY <1>2 DEF TypeOK, Expire
<1>3. ASSUME NEW r \in Runners, StartRun(r) PROVE TypeOK'
  BY <1>3 DEF TypeOK, StartRun, PC
<1>4. ASSUME NEW r \in Runners, ResetCumulative(r) PROVE TypeOK'
  BY <1>4, EmptyType DEF TypeOK, ResetCumulative, PC
<1>5. ASSUME NEW r \in Runners, SetReady(r) PROVE TypeOK'
  BY <1>5 DEF TypeOK, SetReady, PC
<1>6. ASSUME NEW r \in Runners, LockFold(r) PROVE TypeOK'
  BY <1>6 DEF TypeOK, LockFold, PC
<1>7. ASSUME NEW r \in Runners, FoldStatement(r) PROVE TypeOK'
  <2>1. step[r] \in Statements /\ step[r] + 1 \in 1 .. NumStatements + 1
    BY <1>7, StatementRange DEF TypeOK, FoldStatement
  <2>2. seen' \in [Runners -> [Statements -> SUBSET Events]]
    BY <1>7, <2>1 DEF TypeOK, FoldStatement, Unfolded
  <2>3. step' \in [Runners -> 1 .. NumStatements + 1]
    BY <1>7, <2>1 DEF TypeOK, FoldStatement
  <2> QED
    BY <1>7, <2>2, <2>3 DEF TypeOK, FoldStatement
<1>8. ASSUME NEW r \in Runners, MarkFolded(r) PROVE TypeOK'
  BY <1>8 DEF TypeOK, MarkFolded, PC, Unfolded
<1>9. ASSUME NEW r \in Runners, CommitFold(r) PROVE TypeOK'
  <2>1. tally' \in [Statements -> [Events -> Nat]]
    BY <1>9 DEF TypeOK, CommitFold
  <2>2. rows' \in [Events -> {"absent", "unfolded", "folded"}]
    BY <1>9 DEF TypeOK, CommitFold
  <2> QED
    BY <1>9, <2>1, <2>2, TypeEnd DEF TypeOK, CommitFold, PC
<1>10. ASSUME NEW r \in Runners, EnforceRetention(r) PROVE TypeOK'
  BY <1>10 DEF TypeOK, EnforceRetention, Purgeable, PC
<1>11. ASSUME NEW r \in Runners, FailRun(r) PROVE TypeOK'
  <2>1. /\ lock' \in Runners \cup {NoRunner}
        /\ step' \in [Runners -> 1 .. NumStatements + 1]
        /\ seen' \in [Runners -> [Statements -> SUBSET Events]]
        /\ marked' \in [Runners -> SUBSET Events]
    BY <1>11, TypeEnd DEF TypeOK, FailRun
  <2>2. failures' \in 0 .. MaxFailures
    BY <1>11, BoundAssumption DEF TypeOK, FailRun
  <2>3. pc' \in [Runners -> PC]
    BY <1>11 DEF TypeOK, FailRun, PC
  <2> QED
    BY <1>11, <2>1, <2>2, <2>3 DEF TypeOK, FailRun
<1>12. CASE UNCHANGED vars
  BY <1>12 DEF TypeOK, vars
<1> QED
  BY <1>1, <1>2, <1>3, <1>4, <1>5, <1>6, <1>7, <1>8, <1>9, <1>10, <1>11,
     <1>12 DEF Next, Advance

\* Every variable of the store keeps its type.
THEOREM TypeCorrect == Spec => []TypeOK
BY TypeInit, TypeStep, PTL DEF Spec

-----------------------------------------------------------------------------
(* The transaction invariant.                                              *)

\* A step that leaves the transactions alone and takes no row out of the
\* unfolded ones.
LEMMA TxFrame ==
    ASSUME TypeOK, TxInv, UNCHANGED <<lock, step, seen, marked>>,
           Unfolded \subseteq Unfolded',
           \A r \in Runners :
              \/ pc'[r] = pc[r]
              \/ {pc[r], pc'[r]} \cap {"statements", "commit"} = {}
    PROVE  TxInv'
<1>1. LockIsTransaction'
  BY DEF TxInv, LockIsTransaction
<1>2. OutsideClean'
  BY DEF TxInv, OutsideClean
<1>3. SeenUnfolded' /\ SeenTaken'
  BY DEF TxInv, SeenUnfolded, SeenTaken
<1>4. AheadEmpty' /\ SeenNested'
  BY DEF TxInv, AheadEmpty, SeenNested
<1>5. MarkedCovers'
  BY DEF TxInv, MarkedCovers
<1> QED
  BY <1>1, <1>2, <1>3, <1>4, <1>5 DEF TxInv

\* The end of r's transaction, committed or rolled back.
LEMMA TxEnd ==
    ASSUME TypeOK, TxInv, NEW r \in Runners, lock = r, EndTransaction(r),
           pc'[r] \notin {"statements", "commit"},
           \A q \in Runners \ {r} : pc'[q] = pc[q]
    PROVE  TxInv'
<1> USE RunnerAssumption
<1>1. \A q \in Runners :
        step'[q] = 1 /\ seen'[q] = Nothing /\ marked'[q] = {}
  BY DEF TypeOK, TxInv, OutsideClean, EndTransaction
<1>2. LockIsTransaction'
  BY DEF TxInv, LockIsTransaction, EndTransaction
<1>3. OutsideClean'
  BY <1>1 DEF OutsideClean
<1>4. \A q \in Runners, s \in Statements : seen'[q][s] = {}
  BY <1>1 DEF Nothing
<1>5. SeenUnfolded' /\ SeenTaken' /\ AheadEmpty' /\ SeenNested'
  BY <1>4 DEF SeenUnfolded, SeenTaken, AheadEmpty, SeenNested
<1>6. \A q \in Runners : pc'[q] # "commit"
  BY <1>2 DEF LockIsTransaction, EndTransaction
<1>7. MarkedCovers'
  BY <1>1, <1>6 DEF MarkedCovers
<1> QED
  BY <1>2, <1>3, <1>5, <1>7 DEF TxInv

\* A transaction that opens has counted nothing.
LEMMA TxLock ==
    ASSUME TypeOK, TxInv, NEW r \in Runners, LockFold(r)
    PROVE  TxInv'
<1> USE RunnerAssumption DEF LockFold, txVars
<1>1. LockIsTransaction'
  BY DEF TypeOK, TxInv, LockIsTransaction
<1>2. OutsideClean'
  BY DEF TypeOK, TxInv, OutsideClean
<1>3. SeenUnfolded' /\ SeenTaken' /\ AheadEmpty' /\ SeenNested'
  BY DEF TxInv, SeenUnfolded, SeenTaken, AheadEmpty, SeenNested, Unfolded
<1>4. MarkedCovers'
  BY DEF TypeOK, TxInv, MarkedCovers, Unfolded
<1> QED
  BY <1>1, <1>2, <1>3, <1>4 DEF TxInv

\* A statement counts what earlier ones counted, if it takes it, and more.
LEMMA TxStatement ==
    ASSUME TypeOK, TxInv, NEW r \in Runners, FoldStatement(r)
    PROVE  TxInv'
<1>1. /\ step[r] \in Statements
      /\ step' = [step EXCEPT ![r] = step[r] + 1]
      /\ seen' = [seen EXCEPT ![r] = [seen[r] EXCEPT ![step[r]] =
                    {e \in Unfolded : Takes(step[r], e)}]]
      /\ UNCHANGED <<rows, lock, pc, marked>>
  BY StatementRange DEF TypeOK, FoldStatement
<1>2. \A q \in Runners : q # r => seen'[q] = seen[q] /\ step'[q] = step[q]
  BY <1>1 DEF TypeOK
<1>3. /\ step'[r] = step[r] + 1
      /\ seen'[r][step[r]] = {e \in Unfolded : Takes(step[r], e)}
      /\ \A s \in Statements : s # step[r] => seen'[r][s] = seen[r][s]
  BY <1>1 DEF TypeOK
<1>4. lock = r /\ pc[r] # "commit"
  BY DEF FoldStatement, TxInv, LockIsTransaction
<1>5. LockIsTransaction'
  BY <1>1 DEF TxInv, LockIsTransaction
<1>6. OutsideClean'
  BY <1>1, <1>2, <1>4 DEF TxInv, OutsideClean
<1>7. SeenUnfolded' /\ SeenTaken'
  BY <1>1, <1>2, <1>3 DEF TxInv, SeenUnfolded, SeenTaken, Unfolded
<1>8. AheadEmpty'
  BY <1>1, <1>2, <1>3, StatementRange DEF TypeOK, TxInv, AheadEmpty
<1>9. SeenNested'
  <2> SUFFICES ASSUME NEW q \in Runners, NEW s \in Statements,
                      NEW t \in Statements, s < t, t < step'[q],
                      NEW e \in Events, e \in seen'[q][s], Takes(t, e)
               PROVE  e \in seen'[q][t]
    BY DEF SeenNested
  <2>1. CASE q # r
    BY <1>2, <2>1 DEF TxInv, SeenNested
  <2>2. CASE q = r /\ t < step[r]
    <3>1. seen'[r][s] = seen[r][s] /\ seen'[r][t] = seen[r][t]
      BY <1>1, <1>3, <2>2, StatementRange
    <3> QED
      BY <2>2, <3>1 DEF TxInv, SeenNested
  <2>3. CASE q = r /\ t = step[r]
    <3>1. seen'[r][s] = seen[r][s]
      BY <1>1, <1>3, <2>3, StatementRange
    <3>2. e \in Unfolded
      BY <2>3, <3>1 DEF TxInv, SeenUnfolded
    <3> QED
      BY <1>3, <2>3, <3>2
  <2> QED
    BY <1>1, <1>3, <2>1, <2>2, <2>3, StatementRange
<1>10. MarkedCovers'
  BY <1>1, <1>2, <1>4 DEF TxInv, LockIsTransaction, MarkedCovers, Unfolded
<1> QED
  BY <1>5, <1>6, <1>7, <1>8, <1>9, <1>10 DEF TxInv

\* The final UPDATE covers what the statements counted.
LEMMA TxMark ==
    ASSUME TypeOK, TxInv, NEW r \in Runners, MarkFolded(r)
    PROVE  TxInv'
<1> USE DEF MarkFolded
<1>1. lock = r
  BY DEF TxInv, LockIsTransaction
<1>2. LockIsTransaction'
  BY DEF TypeOK, TxInv, LockIsTransaction
<1>3. OutsideClean'
  BY <1>1 DEF TypeOK, TxInv, OutsideClean
<1>4. SeenUnfolded' /\ SeenTaken' /\ AheadEmpty' /\ SeenNested'
  BY DEF TxInv, SeenUnfolded, SeenTaken, AheadEmpty, SeenNested, Unfolded
<1>5. MarkedCovers'
  BY DEF TypeOK, TxInv, MarkedCovers, SeenUnfolded, Unfolded
<1> QED
  BY <1>2, <1>3, <1>4, <1>5 DEF TxInv

\* Every step preserves the transaction invariant.
LEMMA TxStep == TypeOK /\ TypeOK' /\ TxInv /\ [Next]_vars => TxInv'
<1> SUFFICES ASSUME TypeOK, TypeOK', TxInv, [Next]_vars PROVE TxInv'
  OBVIOUS
<1> USE DEF txVars
<1>1. ASSUME NEW S \in SUBSET Events, InsertChunk(S) PROVE TxInv'
  BY <1>1, TxFrame DEF InsertChunk, Unfolded, Fresh
<1>2. ASSUME NEW e \in Events, Expire(e) PROVE TxInv'
  BY <1>2, TxFrame DEF Expire, Unfolded
<1>3. ASSUME NEW r \in Runners, StartRun(r) PROVE TxInv'
  BY <1>3, TxFrame DEF TypeOK, StartRun, Unfolded
<1>4. ASSUME NEW r \in Runners, ResetCumulative(r) PROVE TxInv'
  BY <1>4, TxFrame DEF TypeOK, ResetCumulative, Unfolded
<1>5. ASSUME NEW r \in Runners, SetReady(r) PROVE TxInv'
  BY <1>5, TxFrame DEF TypeOK, SetReady, Unfolded
<1>6. ASSUME NEW r \in Runners, CommitFold(r) PROVE TxInv'
  <2>1. lock = r
    BY <1>6 DEF CommitFold, TxInv, LockIsTransaction
  <2> QED
    BY <1>6, <2>1, TxEnd DEF TypeOK, CommitFold
<1>7. ASSUME NEW r \in Runners, EnforceRetention(r) PROVE TxInv'
  BY <1>7, TxFrame DEF TypeOK, EnforceRetention, Purgeable, Unfolded
<1>8. ASSUME NEW r \in Runners, FailRun(r) PROVE TxInv'
  <2>1. CASE lock = r
    BY <1>8, <2>1, TxEnd DEF TypeOK, FailRun
  <2>2. CASE lock # r
    <3>1. pc[r] \notin {"statements", "commit"}
      BY <2>2 DEF TxInv, LockIsTransaction
    <3> QED
      BY <1>8, <2>2, <3>1, TxFrame DEF TypeOK, FailRun, Unfolded
  <2> QED
    BY <2>1, <2>2
<1>9. CASE UNCHANGED vars
  BY <1>9, TxFrame DEF vars, Unfolded
<1> QED
  BY <1>1, <1>2, <1>3, <1>4, <1>5, <1>6, <1>7, <1>8, <1>9,
     TxLock, TxStatement, TxMark DEF Next, Advance

-----------------------------------------------------------------------------
(* The boards.                                                             *)

\* The inductive invariant holds at the start.
LEMMA CountsInit == Init => IInv
<1> SUFFICES ASSUME Init PROVE IInv
  OBVIOUS
<1> USE DEF Init
<1>1. TypeOK
  BY TypeInit
<1>2. TxInv
  BY RunnerAssumption, StatementRange
     DEF TxInv, LockIsTransaction, OutsideClean, SeenUnfolded, SeenTaken,
         AheadEmpty, SeenNested, MarkedCovers, Nothing
<1>3. AtMostOncePerRow /\ StoredAccepted
  BY DEF AtMostOncePerRow, StoredAccepted, Pending, Empty
<1>4. LaterBoardsCountMore
  BY DEF LaterBoardsCountMore, Empty
<1> QED
  BY <1>1, <1>2, <1>3, <1>4 DEF IInv

\* What a commit does to the boards, and to the rows behind them.
LEMMA CommitEffect ==
    ASSUME TypeOK, TxInv, NEW r \in Runners, CommitFold(r)
    PROVE  /\ \A s \in Statements, e \in Events :
                 /\ tally'[s][e] = tally[s][e] + (IF e \in seen[r][s] THEN 1 ELSE 0)
                 /\ e \in seen[r][s] => e \in marked[r]
           /\ \A e \in Events :
                 /\ rows'[e] = IF e \in marked[r] THEN "folded" ELSE rows[e]
                 /\ e \in marked[r] => rows[e] = "unfolded"
           /\ \A s, t \in Statements : s < t =>
                 \A e \in Events :
                    e \in seen[r][s] /\ Takes(t, e) => e \in seen[r][t]
           /\ \A s \in Statements : \A e \in seen[r][s] : Takes(s, e)
<1>1. /\ pc[r] = "commit"
      /\ step[r] = NumStatements + 1
      /\ \A s \in Statements : seen[r][s] \subseteq marked[r]
      /\ marked[r] \subseteq Unfolded
  BY DEF CommitFold, TxInv, MarkedCovers
<1>2. \A s \in Statements, e \in Events :
         tally'[s][e] = tally[s][e] + (IF e \in seen[r][s] THEN 1 ELSE 0)
  BY DEF TypeOK, CommitFold
<1>3. \A e \in Events :
         rows'[e] = IF e \in marked[r] THEN "folded" ELSE rows[e]
  BY DEF TypeOK, CommitFold
<1>4. \A s, t \in Statements : s < t =>
         \A e \in Events :
            e \in seen[r][s] /\ Takes(t, e) => e \in seen[r][t]
  BY <1>1, StatementRange DEF TxInv, SeenNested
<1> QED
  BY <1>1, <1>2, <1>3, <1>4 DEF Unfolded, TxInv, SeenTaken

\* No step counts a stored row a second time.
LEMMA AtMostOnceStep ==
    TypeOK /\ TxInv /\ StoredAccepted /\ AtMostOncePerRow /\ [Next]_vars
        => AtMostOncePerRow' /\ StoredAccepted'
<1> SUFFICES ASSUME TypeOK, TxInv, StoredAccepted, AtMostOncePerRow,
                    [Next]_vars
             PROVE  AtMostOncePerRow' /\ StoredAccepted'
  OBVIOUS
<1> USE DEF AtMostOncePerRow, StoredAccepted, Pending
<1>1. ASSUME NEW S \in SUBSET Events, InsertChunk(S)
      PROVE  AtMostOncePerRow' /\ StoredAccepted'
  BY <1>1 DEF TypeOK, InsertChunk, Fresh
<1>2. ASSUME NEW r \in Runners, ResetCumulative(r)
      PROVE  AtMostOncePerRow' /\ StoredAccepted'
  <2>1. \A s \in Statements, e \in Events : tally'[s][e] = 0
    BY <1>2 DEF ResetCumulative, Empty
  <2>2. StoredAccepted'
    BY <1>2 DEF TypeOK, ResetCumulative
  <2> QED
    BY <1>2, <2>1, <2>2 DEF TypeOK, ResetCumulative
<1>3. ASSUME NEW r \in Runners, CommitFold(r)
      PROVE  AtMostOncePerRow' /\ StoredAccepted'
  <2>1. accepted' = accepted
    BY <1>3 DEF CommitFold
  <2>2. AtMostOncePerRow'
    <3> SUFFICES ASSUME NEW s \in Statements, NEW e \in Events
                 PROVE  tally'[s][e] + Pending(e)' <= accepted[e]
      BY <2>1
    <3>1. tally[s][e] \in Nat /\ accepted[e] \in Nat
      BY DEF TypeOK
    <3>2. tally[s][e] + Pending(e) <= accepted[e]
      OBVIOUS
    <3>3. CASE e \in marked[r]
      <4>1. Pending(e) = 1 /\ Pending(e)' = 0
        BY <1>3, <3>3, CommitEffect
      <4>2. tally'[s][e] <= tally[s][e] + 1
        BY <1>3, <3>1, CommitEffect
      <4>3. tally'[s][e] \in Nat
        BY <1>3, <3>1, CommitEffect
      <4> HIDE DEF Pending
      <4> QED
        BY <3>1, <3>2, <4>1, <4>2, <4>3
    <3>4. CASE e \notin marked[r]
      <4>1. Pending(e)' = Pending(e) /\ tally'[s][e] = tally[s][e]
        BY <1>3, <3>1, <3>4, CommitEffect
      <4> HIDE DEF Pending
      <4> QED
        BY <3>2, <4>1
    <3> QED
      BY <3>3, <3>4
  <2>3. StoredAccepted'
    BY <1>3, <2>1, CommitEffect
  <2> QED
    BY <2>2, <2>3
<1>4. ASSUME NEW r \in Runners, EnforceRetention(r)
      PROVE  AtMostOncePerRow' /\ StoredAccepted'
  BY <1>4 DEF TypeOK, EnforceRetention, Purgeable
<1>5. ASSUME UNCHANGED <<rows, accepted, tally>>
      PROVE  AtMostOncePerRow' /\ StoredAccepted'
  BY <1>5
<1> QED
  BY <1>1, <1>2, <1>3, <1>4, <1>5
     DEF Next, Advance, Expire, StartRun, SetReady, LockFold, FoldStatement,
         MarkFolded, FailRun, vars

\* No step lets an earlier board get ahead of a later one.
LEMMA LaterBoardsStep ==
    TypeOK /\ TxInv /\ LaterBoardsCountMore /\ [Next]_vars
        => LaterBoardsCountMore'
<1> SUFFICES ASSUME TypeOK, TxInv, LaterBoardsCountMore, [Next]_vars
             PROVE  LaterBoardsCountMore'
  OBVIOUS
<1>1. ASSUME NEW r \in Runners, ResetCumulative(r)
      PROVE  LaterBoardsCountMore'
  BY <1>1 DEF ResetCumulative, LaterBoardsCountMore, Empty
<1>2. ASSUME NEW r \in Runners, CommitFold(r)
      PROVE  LaterBoardsCountMore'
  <2> SUFFICES ASSUME NEW s \in Statements, NEW t \in Statements, s < t,
                      NEW e \in Events, Takes(s, e), Takes(t, e)
               PROVE  tally'[s][e] <= tally'[t][e]
    BY DEF LaterBoardsCountMore
  <2>1. tally[s][e] \in Nat /\ tally[t][e] \in Nat
    BY DEF TypeOK
  <2>2. tally[s][e] <= tally[t][e]
    BY DEF LaterBoardsCountMore
  <2>3. e \in seen[r][s] => e \in seen[r][t]
    BY <1>2, CommitEffect
  <2> QED
    BY <1>2, <2>1, <2>2, <2>3, CommitEffect
<1>3. ASSUME UNCHANGED tally
      PROVE  LaterBoardsCountMore'
  BY <1>3 DEF LaterBoardsCountMore
<1> QED
  BY <1>1, <1>2, <1>3
     DEF Next, Advance, InsertChunk, Expire, StartRun, SetReady, LockFold,
         FoldStatement, MarkFolded, EnforceRetention, FailRun, vars

\* Every step preserves the inductive invariant.
LEMMA Inductive == IInv /\ [Next]_vars => IInv'
BY TypeStep, TxStep, AtMostOnceStep, LaterBoardsStep DEF IInv

\* The inductive invariant holds in every behaviour.
THEOREM Invariance == Spec => []IInv
BY CountsInit, Inductive, PTL DEF Spec

\* The fold counts every stored row at most once on every board, whatever the
\* number of runners, failures, redeliveries and rebuilds.
THEOREM CountedAtMostOnce == Spec => []AtMostOncePerRow
<1>1. IInv => AtMostOncePerRow
  BY DEF IInv
<1> QED
  BY <1>1, Invariance, PTL

\* Inserts that land between two statements of a fold skew the boards in one
\* direction only.
THEOREM BoardsSkewOneWay == Spec => []LaterBoardsCountMore
<1>1. IInv => LaterBoardsCountMore
  BY DEF IInv
<1> QED
  BY <1>1, Invariance, PTL

-----------------------------------------------------------------------------
(* The fold is one step.                                                   *)

\* A non-empty set of statement numbers has a least one.
LEMMA LeastStatement ==
    ASSUME NEW Q, Q \subseteq Statements, Q # {}
    PROVE  \E m \in Q : \A n \in Q : m <= n
<1>1. Q \subseteq Nat
  BY StatementRange
<1>2. PICK m \in Q : \A n \in Q : <<n, m>> \notin OpToRel(<, Nat)
  BY <1>1, WFMin, NatLessThanWellFounded
<1>3. \A n \in Q : ~(n < m)
  BY <1>1, <1>2 DEF OpToRel
<1> QED
  BY <1>1, <1>3

\* Every marked row joined the fold at some statement, or after the last one.
LEMMA JoinPoint ==
    ASSUME TypeOK, TxInv, NEW r \in Runners, CommitFold(r), NEW e \in Events
    PROVE  \E n \in 1 .. NumStatements + 1 :
              \A s \in Statements :
                 e \in seen[r][s] <=> Takes(s, e) /\ n <= s
<1> DEFINE Q == {s \in Statements : e \in seen[r][s]}
<1>1. CASE Q = {}
  <2>1. NumStatements + 1 \in 1 .. NumStatements + 1
    BY DEF NumStatements
  <2>2. \A s \in Statements : ~(NumStatements + 1 <= s)
    BY StatementRange
  <2> QED
    BY <1>1, <2>1, <2>2
<1>2. CASE Q # {}
  <2>1. PICK m \in Q : \A n \in Q : m <= n
    BY <1>2, LeastStatement
  <2>2. m \in 1 .. NumStatements + 1
    BY StatementRange
  <2>3. ASSUME NEW s \in Statements
        PROVE  e \in seen[r][s] <=> Takes(s, e) /\ m <= s
    <3>1. e \in seen[r][s] => Takes(s, e) /\ m <= s
      BY <2>1, CommitEffect
    <3>2. ASSUME Takes(s, e), m <= s PROVE e \in seen[r][s]
      <4>1. e \in seen[r][m] /\ m \in Statements
        OBVIOUS
      <4>2. m = s \/ m < s
        BY <3>2, <4>1, StatementRange
      <4> QED
        BY <3>2, <4>1, <4>2, CommitEffect
    <3> QED
      BY <3>1, <3>2
  <2> QED
    BY <2>2, <2>3
<1> QED
  BY <1>1, <1>2

\* The abstract specification uses the same plan.
LEMMA SamePlan ==
    /\ Ledger!NumStatements = NumStatements
    /\ Ledger!Statements = Statements
    /\ Ledger!Empty = Empty
    /\ \A s \in Statements, e \in Events : Ledger!Takes(s, e) <=> Takes(s, e)
<1>1. /\ Ledger!NumStatements = NumStatements
      /\ Ledger!Statements = Statements
  BY DEF Ledger!NumStatements, NumStatements, Ledger!Statements, Statements
<1>2. Ledger!Empty = Empty
  BY <1>1 DEF Ledger!Empty, Empty
<1>3. Ledger!Needs = Needs /\ Ledger!LoginBoards = LoginBoards
  BY <1>1
     DEF Ledger!Needs, Needs, Ledger!LoginBoards, LoginBoards,
         Ledger!Credentials, Credentials, Ledger!Usernames, Usernames,
         Ledger!Passwords, Passwords, Ledger!Countries, Countries,
         Ledger!Asns, Asns, Ledger!Clients, Clients,
         Ledger!Commands, Commands, Ledger!Daily, Daily
<1>4. Ledger!Clients = Clients /\ Ledger!Commands = Commands
  BY DEF Ledger!Clients, Clients, Ledger!Commands, Commands
<1> QED
  BY <1>1, <1>2, <1>3, <1>4 DEF Ledger!Takes, Takes

\* A commit is the Fold of the abstract store, of the rows it marked.
LEMMA CommitIsFold ==
    ASSUME TypeOK, TxInv, NEW r \in Runners, CommitFold(r)
    PROVE  Ledger!Fold
<1> DEFINE M == marked[r]
           J(e, n) == \A s \in Statements :
                         e \in seen[r][s] <=> Takes(s, e) /\ n <= s
           from == [e \in M |-> CHOOSE n \in 1 .. NumStatements + 1 : J(e, n)]
<1>1. M \in SUBSET {e \in Events : rows[e] = "unfolded"}
  BY CommitEffect DEF TypeOK
<1>2. ASSUME NEW e \in M
      PROVE  from[e] \in 1 .. NumStatements + 1 /\ J(e, from[e])
  <2>1. \E n \in 1 .. NumStatements + 1 : J(e, n)
    BY <1>1, JoinPoint
  <2> HIDE DEF J
  <2> QED
    BY <2>1
<1>3. from \in [M -> 1 .. NumStatements + 1]
  BY <1>2
<1>4. rows' = [e \in Events |-> IF e \in M THEN "folded" ELSE rows[e]]
  BY DEF CommitFold
<1>5. tally' = [s \in Statements |-> [e \in Events |->
                  IF e \in M /\ Takes(s, e) /\ from[e] <= s
                  THEN tally[s][e] + 1 ELSE tally[s][e]]]
  <2>1. ASSUME NEW s \in Statements, NEW e \in Events
        PROVE  e \in seen[r][s] <=> e \in M /\ Takes(s, e) /\ from[e] <= s
    <3>1. e \in seen[r][s] => e \in M
      BY CommitEffect
    <3> HIDE DEF M, from
    <3> QED
      BY <1>2, <3>1
  <2> HIDE DEF M, from
  <2> QED
    BY <2>1 DEF CommitFold
<1>6. UNCHANGED <<accepted, expired>>
  BY DEF CommitFold
<1> HIDE DEF M, from
<1> QED
  <2>1. tally' = [s \in Statements |-> [e \in Events |->
                    IF /\ e \in M
                       /\ Ledger!Takes(s, e)
                       /\ from[e] <= s
                    THEN tally[s][e] + 1 ELSE tally[s][e]]]
    BY <1>5, SamePlan
  <2> QED
    BY <1>1, <1>3, <1>4, <1>6, <2>1, SamePlan DEF Ledger!Fold

\* The initial states are initial states of the abstract store.
LEMMA RefinesInit == Init => Ledger!Init
BY SamePlan DEF Init, Ledger!Init

\* Every step is a step of the abstract store, or a stutter.
LEMMA RefinesStep ==
    TypeOK /\ TxInv /\ [Next]_vars => [Ledger!Next]_(Ledger!ledgerVars)
<1> SUFFICES ASSUME TypeOK, TxInv, [Next]_vars
             PROVE  Ledger!Next \/ UNCHANGED <<rows, accepted, expired, tally>>
  BY DEF Ledger!ledgerVars
<1> USE DEF Ledger!Next
<1>1. ASSUME NEW S \in SUBSET Events, InsertChunk(S) PROVE Ledger!Insert
  <2>1. Fresh(S) \in SUBSET {e \in Events : rows[e] = "absent"}
    BY DEF Fresh
  <2> QED
    BY <1>1, <2>1 DEF InsertChunk, Ledger!Insert
<1>2. ASSUME NEW e \in Events, Expire(e) PROVE Ledger!Expire
  BY <1>2 DEF Expire, Ledger!Expire
<1>3. ASSUME NEW r \in Runners, ResetCumulative(r) PROVE Ledger!Reset
  BY <1>3, SamePlan DEF ResetCumulative, Ledger!Reset
<1>4. ASSUME NEW r \in Runners, CommitFold(r) PROVE Ledger!Fold
  BY <1>4, CommitIsFold
<1>5. ASSUME NEW r \in Runners, EnforceRetention(r) PROVE Ledger!Purge
  BY <1>5 DEF EnforceRetention, Purgeable, Ledger!Purge
<1> QED
  BY <1>1, <1>2, <1>3, <1>4, <1>5
     DEF Next, Advance, StartRun, SetReady, LockFold, FoldStatement,
         MarkFolded, FailRun, vars

\* To its readers the fold transaction is one atomic step, and of the rows it
\* retires the statements counted a growing set.
THEOREM FoldIsAtomic == Spec => ImplementsAtomicFold
<1>1. IInv => TypeOK /\ TxInv
  BY DEF IInv
<1> QED
  BY <1>1, RefinesInit, RefinesStep, Invariance, PTL
     DEF Spec, ImplementsAtomicFold, Ledger!Spec
-----------------------------------------------------------------------------
(* One runner rebuilds the boards once, while they are still empty.        *)

\* Until the marker is set the boards are empty and no run is past the
\* rebuild; once it is set no run is before it.
RebuildFirst ==
    \A r \in Runners :
        /\ ready => pc[r] \notin {"reset", "set_ready"}
        /\ ~ready => pc[r] \in {"idle", "reset", "set_ready"} /\ tally = Empty

\* Where a single runner can be, no step leaves RebuildFirst.
LEMMA RebuildFirstStep ==
    ASSUME \A q, r \in Runners : q = r,
           TypeOK, RebuildFirst, [Next]_vars
    PROVE  RebuildFirst'
<1> SUFFICES ASSUME NEW q \in Runners
             PROVE  /\ ready' => pc'[q] \notin {"reset", "set_ready"}
                    /\ ~ready' => /\ pc'[q] \in {"idle", "reset", "set_ready"}
                                  /\ tally' = Empty
  BY DEF RebuildFirst, Empty
<1> USE DEF TypeOK, RebuildFirst
<1>1. CASE \/ \E S \in SUBSET Events : InsertChunk(S)
           \/ \E e \in Events : Expire(e)
  BY <1>1 DEF InsertChunk, Expire
<1>2. CASE StartRun(q)
  BY <1>2 DEF StartRun
<1>3. CASE ResetCumulative(q)
  BY <1>3 DEF ResetCumulative
<1>4. CASE SetReady(q)
  BY <1>4 DEF SetReady
<1>5. CASE LockFold(q)
  BY <1>5 DEF LockFold
<1>6. CASE FoldStatement(q)
  BY <1>6 DEF FoldStatement
<1>7. CASE MarkFolded(q)
  BY <1>7 DEF MarkFolded
<1>8. CASE CommitFold(q)
  BY <1>8 DEF CommitFold
<1>9. CASE EnforceRetention(q)
  BY <1>9 DEF EnforceRetention
<1>10. CASE FailRun(q)
  BY <1>10 DEF FailRun
<1>11. CASE UNCHANGED vars
  BY <1>11 DEF vars
<1> QED
  BY <1>1, <1>2, <1>3, <1>4, <1>5, <1>6, <1>7, <1>8, <1>9, <1>10, <1>11
     DEF Next, Advance

\* A step that finds RebuildFirst takes nothing off a board.
LEMMA NothingTakenBack ==
    ASSUME TypeOK, RebuildFirst, [Next]_vars,
           NEW s \in Statements, NEW e \in Events
    PROVE  tally'[s][e] >= tally[s][e]
<1>1. tally[s][e] \in Nat
  BY DEF TypeOK
<1>2. ASSUME NEW r \in Runners, ResetCumulative(r)
      PROVE  tally'[s][e] >= tally[s][e]
  <2>1. tally = Empty /\ tally' = Empty
    BY <1>2 DEF ResetCumulative, RebuildFirst
  <2> QED
    BY <1>1, <2>1
<1>3. ASSUME NEW r \in Runners, CommitFold(r)
      PROVE  tally'[s][e] >= tally[s][e]
  BY <1>1, <1>3 DEF CommitFold
<1>4. ASSUME UNCHANGED tally
      PROVE  tally'[s][e] >= tally[s][e]
  BY <1>1, <1>4
<1> QED
  BY <1>2, <1>3, <1>4
     DEF Next, Advance, InsertChunk, Expire, StartRun, SetReady, LockFold,
         FoldStatement, MarkFolded, EnforceRetention, FailRun, vars

\* With one runner of the aggregation job no step takes back what the boards
\* say of a purged row: the only rebuild finds them empty.  (Two runners that
\* both start before the marker is set break this; see RebuildRace.cfg.)
THEOREM OneRunnerKeepsPurgedCounts ==
    ASSUME \A q, r \in Runners : q = r
    PROVE  Spec => PurgedCountsStay
<1>1. Init => RebuildFirst
  BY DEF Init, RebuildFirst
<1>2. TypeOK /\ RebuildFirst /\ [Next]_vars => RebuildFirst'
  BY RebuildFirstStep
<1>3. TypeOK /\ RebuildFirst /\ [Next]_vars =>
        [\A s \in Statements, e \in Events :
            rows[e] = "absent" => tally'[s][e] >= tally[s][e]]_vars
  BY NothingTakenBack
<1> QED
  BY <1>1, <1>2, <1>3, TypeCorrect, PTL DEF Spec, PurgedCountsStay
=============================================================================
