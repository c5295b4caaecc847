-------------------------- MODULE JobTable_proofs ---------------------------
(***************************************************************************)
(* What the statements of JobTable make of a row, for every row and every  *)
(* value of max_retries.                                                   *)
(***************************************************************************)
EXTENDS JobTable, FiniteSetTheorems, WellFoundedInduction, TLAPS

\* A row that is not there and one that was just inserted.
LEMMA NewRows == NoRow \in Row /\ InsertedRow \in Row /\ InsertedRow.status = "pending"
                 /\ InsertedRow.retry_count = 0 /\ NoRow.retry_count = 0
                 /\ NoRow.status = "absent"
  BY JobsAssumption DEF NoRow, InsertedRow, Row, Status, Terminal, Heartbeat

\* The claim: running, owned, fresh; no retry is counted.
LEMMA ClaimedRowIs ==
  ASSUME NEW row \in Row, NEW w \in Workers
  PROVE  /\ ClaimedRow(row, w) \in Row
         /\ ClaimedRow(row, w).status = "running"
         /\ ClaimedRow(row, w).claimed_by = w
         /\ ClaimedRow(row, w).heartbeat_at = "fresh"
         /\ ClaimedRow(row, w).retry_count = row.retry_count
  BY DEF ClaimedRow, Row, Status, Terminal, Heartbeat

\* A tick changes the heartbeat only.
LEMMA BeatenRowIs ==
  ASSUME NEW row \in Row
  PROVE  /\ BeatenRow(row) \in Row
         /\ BeatenRow(row).status = row.status
         /\ BeatenRow(row).claimed_by = row.claimed_by
         /\ BeatenRow(row).heartbeat_at = "fresh"
         /\ BeatenRow(row).retry_count = row.retry_count
  BY DEF BeatenRow, Row, Heartbeat

\* markCompleted counts no retry.
LEMMA CompletedRowIs ==
  ASSUME NEW row \in Row
  PROVE  /\ CompletedRow(row) \in Row
         /\ CompletedRow(row).status = "success"
         /\ CompletedRow(row).retry_count = row.retry_count
  BY DEF CompletedRow, Row, Status, Terminal

\* markFailed counts one retry and ends the job exactly when they are used up.
LEMMA FailedRowIs ==
  ASSUME NEW row \in Row
  PROVE  /\ FailedRow(row) \in Row
         /\ \/ FailedRow(row).status = "failed" /\ row.retry_count + 1 >= MaxRetries
            \/ FailedRow(row).status = "pending" /\ row.retry_count + 1 < MaxRetries
         /\ FailedRow(row).retry_count = row.retry_count + 1
<1> DEFINE s == IF row.retry_count + 1 >= MaxRetries THEN "failed" ELSE "pending"
<1>1. row.retry_count + 1 \in Nat /\ MaxRetries \in Nat
  BY JobsAssumption DEF Row
<1>2. /\ s \in {"failed", "pending"}
      /\ s = "failed" => row.retry_count + 1 >= MaxRetries
      /\ s = "pending" => row.retry_count + 1 < MaxRetries
  BY <1>1
<1>3. FailedRow(row) = [row EXCEPT !.status = s, !.retry_count = row.retry_count + 1, !.claimed_by = Nobody]
  BY DEF FailedRow
<1> HIDE DEF s
<1>4. FailedRow(row) \in Row
  BY <1>1, <1>2, <1>3 DEF Row, Status, Terminal
<1>5. FailedRow(row).status = s /\ FailedRow(row).retry_count = row.retry_count + 1
  BY <1>3 DEF Row
<1> QED
  BY <1>2, <1>4, <1>5

\* The reclaim counts one retry and never ends a job.
LEMMA ReclaimedRowIs ==
  ASSUME NEW row \in Row
  PROVE  /\ ReclaimedRow(row) \in Row
         /\ ReclaimedRow(row).status = "pending"
         /\ ReclaimedRow(row).retry_count = row.retry_count + 1
<1>1. row.retry_count + 1 \in Nat /\ "pending" \in Status
  BY DEF Row, Status
<1> DEFINE n == row.retry_count + 1
<1>2. ReclaimedRow(row) = [row EXCEPT !.status = "pending", !.claimed_by = Nobody, !.retry_count = n]
  BY DEF ReclaimedRow
<1> HIDE DEF n
<1>3. /\ ReclaimedRow(row) \in Row
      /\ ReclaimedRow(row).status = "pending" /\ ReclaimedRow(row).retry_count = n
  BY <1>1, <1>2 DEF Row, n
<1> QED
  BY <1>3 DEF n

\* Growing old changes the heartbeat only.
LEMMA StaleRowIs ==
  ASSUME NEW row \in Row
  PROVE  /\ [row EXCEPT !.heartbeat_at = "stale"] \in Row
         /\ [row EXCEPT !.heartbeat_at = "stale"].status = row.status
         /\ [row EXCEPT !.heartbeat_at = "stale"].claimed_by = row.claimed_by
         /\ [row EXCEPT !.heartbeat_at = "stale"].retry_count = row.retry_count
  BY DEF Row, Heartbeat

-----------------------------------------------------------------------------
(* Orders on finite sets of jobs *)

\* A finite set that is not empty has an element that comes first in a strict order.
LEMMA FirstExists ==
  ASSUME NEW S, IsFiniteSet(S), S # {}, NEW R,
         \A i \in S : <<i, i>> \notin R,
         \A i, j, k \in S : <<i, j>> \in R /\ <<j, k>> \in R => <<i, k>> \in R
  PROVE  \E m \in S : \A i \in S : <<i, m>> \notin R
<1> DEFINE Before(j) == {i \in S : <<i, j>> \in R}
           B == {Before(j) : j \in S}
<1>1. B \subseteq FiniteSubsetsOf(S) /\ B # {}
  <2>1. B \subseteq SUBSET S /\ B # {}
    <3>1. \A j \in S : Before(j) \in SUBSET S
      OBVIOUS
    <3> HIDE DEF Before
    <3> QED
      BY <3>1
  <2> HIDE DEF B
  <2> QED
    BY <2>1, FS_FiniteSubsetsOfFinite
<1>2. PICK b \in B : \A c \in B : <<c, b>> \notin StrictSubsetOrdering(S)
  BY <1>1, FS_StrictSubsetOrderingWellFounded, WFMin
<1>3. PICK m \in S : b = Before(m)
  BY <1>2
<1>4. ASSUME NEW i \in S, <<i, m>> \in R PROVE FALSE
  <2>1. Before(i) \subseteq b /\ i \in b /\ i \notin Before(i)
    BY <1>3, <1>4
  <2>2. <<Before(i), b>> \in StrictSubsetOrdering(S)
    <3>1. Before(i) \in SUBSET S /\ b \in SUBSET S /\ Before(i) # b
      BY <1>3, <2>1
    <3> HIDE DEF Before
    <3> QED
      BY <2>1, <3>1 DEF StrictSubsetOrdering
  <2> QED
    BY <1>2, <2>2
<1> QED
  BY <1>4

\* Among finitely many rows the sub-select of the claim always finds the first.
LEMMA FirstOfFinds ==
  ASSUME NEW S \in SUBSET Jobs, IsFiniteSet(S), S # {}
  PROVE  FirstOf(S) # {}
<1> DEFINE R == {p \in S \X S : RanksBefore(p[1], p[2])}
<1>1. \A i \in S : StageOrder[i] \in Int /\ StepOrder[i] \in Int /\ Priority[i] \in Int
  BY JobsAssumption
<1>2. \A i \in S : ~RanksBefore(i, i)
  BY <1>1 DEF RanksBefore
<1>3. \A i, j, k \in S : RanksBefore(i, j) /\ RanksBefore(j, k) => RanksBefore(i, k)
  BY <1>1 DEF RanksBefore
<1>4. PICK m \in S : \A i \in S : <<i, m>> \notin R
  <2> HIDE DEF R
  <2>1. \A i \in S : <<i, i>> \notin R
    BY <1>2 DEF R
  <2>2. \A i, j, k \in S : <<i, j>> \in R /\ <<j, k>> \in R => <<i, k>> \in R
    BY <1>3 DEF R
  <2> QED
    BY <2>1, <2>2, FirstExists
<1> QED
  BY <1>4 DEF FirstOf

\* The order of steps is a strict order.
LEMMA EarlierTransitive ==
  ASSUME NEW i \in Jobs, NEW j \in Jobs, NEW k \in Jobs, Earlier(i, j), Earlier(j, k)
  PROVE  Earlier(i, k)
<1>1. \A m \in Jobs : StageOrder[m] \in Int /\ StepOrder[m] \in Int
  BY JobsAssumption
<1> QED
  BY <1>1 DEF Earlier

\* Of the steps a step waits for, if any, one waits for none of the others.
LEMMA FrontOfLine ==
  ASSUME NEW S \in SUBSET Jobs, IsFiniteSet(S), S # {}
  PROVE  \E m \in S : \A i \in S : ~Earlier(i, m)
<1> DEFINE R == {p \in S \X S : Earlier(p[1], p[2])}
<1>1. \A i \in S : StageOrder[i] \in Int /\ StepOrder[i] \in Int
  BY JobsAssumption
<1>2. \A i \in S : ~Earlier(i, i)
  BY <1>1 DEF Earlier
<1>3. \A i, j, k \in S : Earlier(i, j) /\ Earlier(j, k) => Earlier(i, k)
  BY EarlierTransitive
<1>4. PICK m \in S : \A i \in S : <<i, m>> \notin R
  <2> HIDE DEF R
  <2>1. \A i \in S : <<i, i>> \notin R
    BY <1>2 DEF R
  <2>2. \A i, j, k \in S : <<i, j>> \in R /\ <<j, k>> \in R => <<i, k>> \in R
    BY <1>3 DEF R
  <2> QED
    BY <2>1, <2>2, FirstExists
<1> QED
  BY <1>4
=============================================================================
