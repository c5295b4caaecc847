------------------------ MODULE WebhookOutbox_proofs ------------------------
(***************************************************************************)
(* Theorems about WebhookOutbox for every number of workers and items, every  *)
(* value of max_retries and either answer of the driver.                  *)
(***************************************************************************)
EXTENDS WebhookOutbox, TLAPS

\* The steps of Next, one by one.
LEMMA StepCases ==
  ASSUME [Next]_vars
  PROVE  \/ \E i \in Items : EnqueueNotification(i) \/ BecomesDue(i)
         \/ \E w \in Workers :
              \/ JobClaimed(w) \/ JobDone(w) \/ NoJob(w)
              \/ ClaimLock(w) \/ ClaimCommit(w) \/ ClaimReplyLost(w) \/ ClaimAbort(w)
              \/ FindNothing(w) \/ Post(w) \/ MarkWebhookProcessed(w) \/ MarkProcessedThrows(w)
              \/ MarkWebhookFailed(w) \/ MarkFailedThrows(w) \/ Crash(w) \/ Restart(w)
         \/ UNCHANGED vars
  BY DEF Next, WorkerStep

\* markWebhookFailed counts the try and ends the item exactly when they are used up.
LEMMA FailedItemIs ==
  ASSUME NEW row \in Row
  PROVE  /\ FailedItem(row) \in Row
         /\ \/ FailedItem(row).status = "failed" /\ row.retry_count + 1 >= MaxRetries
            \/ FailedItem(row).status = "pending" /\ row.retry_count + 1 < MaxRetries
         /\ FailedItem(row).retry_count = row.retry_count + 1
<1>1. row.retry_count + 1 \in Nat /\ MaxRetries \in Nat
  BY OutboxAssumption DEF Row
<1>2. (row.retry_count + 1 >= MaxRetries /\ row.due) \in BOOLEAN
  OBVIOUS
<1> DEFINE d == row.retry_count + 1 >= MaxRetries /\ row.due
           s == IF row.retry_count + 1 >= MaxRetries THEN "failed" ELSE "pending"
<1>3. FailedItem(row) = [status |-> s, retry_count |-> row.retry_count + 1, due |-> d]
  BY DEF FailedItem
<1>4. /\ s \in {"failed", "pending"}
      /\ s = "failed" => row.retry_count + 1 >= MaxRetries
      /\ s = "pending" => row.retry_count + 1 < MaxRetries
  BY <1>1
<1> HIDE DEF d, s
<1> QED
  BY <1>1, <1>2, <1>3, <1>4 DEF Row, d

-----------------------------------------------------------------------------
(* Type correctness *)

\* A worker that claims has an item, whatever the driver answers; one that does
\* not claim or send has none.
Typed ==
  TypeOK /\ \A w \in Workers : /\ at[w] = "claiming" => item[w] \in Items
                               /\ at[w] \notin {"claiming"} \cup InHand => item[w] = NoItem

LEMMA TypedInit == Init => Typed
<1> SUFFICES ASSUME Init PROVE Typed
  OBVIOUS
<1>1. outbox \in [Items -> Row]
  <2>1. FALSE \in BOOLEAN
    OBVIOUS
  <2> QED
    BY <2>1 DEF Init, Row
<1> QED
  BY <1>1 DEF Init, Typed, TypeOK, At, InHand

\* An UPDATE by id keeps the type of the table.
LEMMA UpdatedTyped ==
  ASSUME TypeOK, NEW w \in Workers
  PROVE  /\ Updated(w, Claimed) \in [Items -> Row]
         /\ Updated(w, Processed) \in [Items -> Row]
         /\ Updated(w, FailedItem) \in [Items -> Row]
<1>1. \A i \in Items : outbox[i] \in Row /\ FailedItem(outbox[i]) \in Row
  BY FailedItemIs DEF TypeOK
<1>2. Updated(w, FailedItem) \in [Items -> Row]
  BY <1>1 DEF Updated
<1>3. Updated(w, Claimed) \in [Items -> Row]
  BY <1>1 DEF Updated, Claimed, Row
<1>4. Updated(w, Processed) \in [Items -> Row]
  BY <1>1 DEF Updated, Processed, Row
<1> QED
  BY <1>2, <1>3, <1>4

LEMMA TypedStep == Typed /\ [Next]_vars => Typed'
<1> SUFFICES ASSUME Typed, [Next]_vars PROVE Typed'
  OBVIOUS
<1> USE DEF Typed, TypeOK, At, InHand
<1>1. ASSUME NEW i \in Items, EnqueueNotification(i) \/ BecomesDue(i) PROVE Typed'
  <2>0. TRUE \in BOOLEAN
    OBVIOUS
  <2>1. outbox' \in [Items -> Row]
    <3>1. CASE EnqueueNotification(i)
      BY <2>0, <3>1 DEF EnqueueNotification, Row
    <3>2. CASE BecomesDue(i)
      BY <2>0, <3>2 DEF BecomesDue, Row
    <3> QED
      BY <1>1, <3>1, <3>2
  <2> QED
    BY <1>1, <2>1 DEF EnqueueNotification, BecomesDue
<1>2. ASSUME NEW w \in Workers,
             JobClaimed(w) \/ JobDone(w) \/ NoJob(w) \/ FindNothing(w) \/ Restart(w)
      PROVE  Typed'
  BY <1>2 DEF JobClaimed, JobDone, NoJob, FindNothing, Restart, Goto
<1>3. ASSUME NEW w \in Workers, ClaimLock(w) PROVE Typed'
  BY <1>3 DEF ClaimLock, Candidates
<1>4. ASSUME NEW w \in Workers, ClaimCommit(w) \/ ClaimReplyLost(w) \/ ClaimAbort(w)
      PROVE  Typed'
  BY <1>4, UpdatedTyped DEF ClaimCommit, ClaimReplyLost, ClaimAbort, Leave
<1>5. ASSUME NEW w \in Workers, Post(w) PROVE Typed'
  <2>1. OneMore(w, posts) \in [Items -> Nat] /\ OneMore(w, accepts) \in [Items -> Nat]
    BY DEF OneMore
  <2> QED
    BY <1>5, <2>1 DEF Post
<1>6. ASSUME NEW w \in Workers, MarkWebhookProcessed(w) \/ MarkProcessedThrows(w) PROVE Typed'
  BY <1>6, UpdatedTyped DEF MarkWebhookProcessed, MarkProcessedThrows, Leave
<1>7. ASSUME NEW w \in Workers, MarkWebhookFailed(w) \/ MarkFailedThrows(w) PROVE Typed'
  BY <1>7, UpdatedTyped DEF MarkWebhookFailed, MarkFailedThrows, Leave
<1>8. ASSUME NEW w \in Workers, Crash(w) PROVE Typed'
  BY <1>8 DEF Crash, Leave
<1>9. CASE UNCHANGED vars
  BY <1>9 DEF vars
<1> QED
  BY <1>1, <1>2, <1>3, <1>4, <1>5, <1>6, <1>7, <1>8, <1>9, StepCases

\* Rows, items in hand and counts have the types of the schema, whichever mark
\* throws before or after it has committed.
THEOREM OutboxTypes == Spec => []TypeOK
<1>1. Init => Typed
  BY TypedInit
<1>2. Typed /\ [Next]_vars => Typed'
  BY TypedStep
<1>3. Typed => TypeOK
  BY DEF Typed
<1> QED
  BY <1>1, <1>2, <1>3, PTL DEF Spec

-----------------------------------------------------------------------------
(* One sender, and no request too many *)

\* Worker w has i, from the lock of its claim to its mark.
Has(w, i) == at[w] \in {"claiming"} \cup InHand /\ item[w] = i

\* OneSender is not inductive: what keeps a second worker from an item before
\* the claim commits is the row lock, after it the status.
OneHand == \A i \in Items : \A v, w \in Workers : Has(v, i) /\ Has(w, i) => v = w

\* How often an item was sent, against the tries its row counts.
Counted(i) ==
  /\ outbox[i].status \in {"absent", "pending", "failed"} => posts[i] = outbox[i].retry_count
  /\ outbox[i].status = "absent" => outbox[i].retry_count = 0
  /\ outbox[i].status = "failed" => outbox[i].retry_count = MaxRetries
  /\ outbox[i].status # "failed" => outbox[i].retry_count < MaxRetries
  /\ outbox[i].status = "processing" =>
       posts[i] \in {outbox[i].retry_count, outbox[i].retry_count + 1}
  /\ outbox[i].status = "processed" => posts[i] = outbox[i].retry_count + 1 /\ accepts[i] > 0

\* The row of the item a worker has: it is pending until the claim commits, it
\* was not given back since, and it is 'processed' only if the mark committed
\* and its reply was lost.
HandSound(w) ==
  item[w] \in Items =>
    /\ at[w] = "claiming" => outbox[item[w]].status = "pending"
    /\ at[w] = "posting" =>
         outbox[item[w]].status = "processing" /\ posts[item[w]] = outbox[item[w]].retry_count
    /\ at[w] \in {"accepted", "refused"} => posts[item[w]] = outbox[item[w]].retry_count + 1
    /\ at[w] = "accepted" => outbox[item[w]].status = "processing" /\ accepts[item[w]] > 0
    /\ at[w] = "refused" => outbox[item[w]].status \in {"processing", "processed"}

OutboxInv ==
  OneHand /\ (\A i \in Items : Counted(i)) /\ (\A w \in Workers : HandSound(w))

LEMMA OutboxInit == Init => OutboxInv
  BY OutboxAssumption DEF Init, OutboxInv, OneHand, Has, InHand, Counted, HandSound

\* A step of one worker on the one item nobody else has.
LEMMA OneItemStep ==
  ASSUME OutboxInv, NEW w \in Workers, NEW i \in Items,
         \A v \in Workers \ {w} : at'[v] = at[v] /\ item'[v] = item[v] /\ ~Has(v, i),
         \A k \in Items \ {i} : /\ outbox'[k] = outbox[k]
                                /\ posts'[k] = posts[k] /\ accepts'[k] = accepts[k],
         at'[w] \in {"claiming"} \cup InHand => item'[w] = i \/ item'[w] \notin Items,
         Counted(i)', HandSound(w)'
  PROVE  OutboxInv'
<1>1. \A k \in Items : Counted(k)'
  BY DEF OutboxInv, Counted
<1>2. ASSUME NEW v \in Workers \ {w} PROVE HandSound(v)'
  <2>1. at[v] \in {"claiming"} \cup InHand /\ item[v] \in Items => item[v] \in Items \ {i}
    BY DEF Has
  <2> QED
    BY <2>1 DEF OutboxInv, HandSound, InHand
<1>3. OneHand'
  BY DEF OutboxInv, OneHand, Has
<1> QED
  BY <1>1, <1>2, <1>3 DEF OutboxInv

\* A step of one worker that has no item, or lets go of it, and leaves the rows.
LEMMA NoItemStep ==
  ASSUME OutboxInv, NEW w \in Workers, UNCHANGED <<outbox, posts, accepts>>,
         \A v \in Workers \ {w} : at'[v] = at[v] /\ item'[v] = item[v],
         at'[w] \in {"claiming"} \cup InHand => item'[w] \notin Items
  PROVE  OutboxInv'
  BY DEF OutboxInv, OneHand, Has, Counted, HandSound, InHand

\* A row that is not locked and waits, or is not there, is nobody's.
LEMMA FreeRow ==
  ASSUME OutboxInv, NEW i \in Items, outbox[i].status \in {"absent", "pending"}, ~Locked(i)
  PROVE  \A w \in Workers : ~Has(w, i)
  BY DEF OutboxInv, HandSound, Has, InHand, Locked

\* The UPDATEs that write a status change the row of the item the worker has.
LEMMA UpdatedIs ==
  ASSUME TypeOK, NEW w \in Workers, NEW i \in Items, item[w] = i
  PROVE  /\ \A k \in Items \ {i} : /\ Updated(w, Claimed)[k] = outbox[k]
                                   /\ Updated(w, Processed)[k] = outbox[k]
         /\ Updated(w, Claimed)[i].status = "processing"
         /\ Updated(w, Claimed)[i].retry_count = outbox[i].retry_count
         /\ Updated(w, Processed)[i].status = "processed"
         /\ Updated(w, Processed)[i].retry_count = outbox[i].retry_count
  BY DEF TypeOK, Updated, Claimed, Processed, Row

\* Without an id it changes none.
LEMMA UpdatedNone ==
  ASSUME TypeOK, NEW w \in Workers, item[w] \notin Items
  PROVE  /\ Updated(w, FailedItem) = outbox
         /\ Updated(w, Processed) = outbox
         /\ OneMore(w, posts) = posts /\ OneMore(w, accepts) = accepts
  BY DEF TypeOK, Updated, OneMore

LEMMA OutboxStep == Typed /\ OutboxInv /\ [Next]_vars => OutboxInv'
<1> SUFFICES ASSUME Typed, OutboxInv, [Next]_vars PROVE OutboxInv'
  OBVIOUS
<1> USE DEF Typed, TypeOK
<1>1. ASSUME NEW i \in Items, EnqueueNotification(i) PROVE OutboxInv'
  <2>1. ~Locked(i)
    BY <1>1 DEF EnqueueNotification, Locked, OutboxInv, HandSound
  <2>2. \A w \in Workers : ~Has(w, i)
    BY <1>1, <2>1, FreeRow DEF EnqueueNotification
  <2>3. Counted(i)'
    BY <1>1, OutboxAssumption DEF EnqueueNotification, OutboxInv, Counted
  <2>4. \A w \in Workers : HandSound(w)'
    BY <1>1, <2>2 DEF EnqueueNotification, OutboxInv, HandSound, Has, InHand
  <2> QED
    BY <1>1, <2>3, <2>4 DEF EnqueueNotification, OutboxInv, OneHand, Has, Counted
<1>2. ASSUME NEW i \in Items, BecomesDue(i) PROVE OutboxInv'
  <2>1. \A k \in Items : /\ outbox'[k].status = outbox[k].status
                         /\ outbox'[k].retry_count = outbox[k].retry_count
    BY <1>2 DEF BecomesDue, Row
  <2> QED
    BY <1>2, <2>1 DEF BecomesDue, OutboxInv, OneHand, Has, Counted, HandSound
<1>3. ASSUME NEW w \in Workers,
             JobClaimed(w) \/ JobDone(w) \/ NoJob(w) \/ ClaimAbort(w) \/ Crash(w) \/ Restart(w)
      PROVE  OutboxInv'
  BY <1>3, NoItemStep
     DEF JobClaimed, JobDone, NoJob, ClaimAbort, Crash, Restart, Goto, Leave, InHand
<1>4. ASSUME NEW w \in Workers, FindNothing(w) PROVE OutboxInv'
  <2>1. item[w] = NoItem
    BY <1>4 DEF FindNothing, InHand
  <2> QED
    BY <1>4, <2>1, NoItemStep, OutboxAssumption DEF FindNothing, Goto, InHand
<1>5. ASSUME NEW w \in Workers, ClaimLock(w) PROVE OutboxInv'
  <2>1. PICK i \in Candidates : item' = [item EXCEPT ![w] = i]
    BY <1>5 DEF ClaimLock
  <2>2. i \in Items /\ Due(i) /\ ~Locked(i)
    BY <2>1 DEF Candidates
  <2>3. \A v \in Workers : ~Has(v, i)
    BY <2>2, FreeRow DEF Due
  <2>4. Counted(i)' /\ HandSound(w)'
    BY <1>5, <2>1, <2>2 DEF ClaimLock, Due, OutboxInv, Counted, HandSound
  <2> QED
    BY <1>5, <2>1, <2>2, <2>3, <2>4, OneItemStep DEF ClaimLock
\* From the lock on: the item a worker has is in no other hand.
<1>6. ASSUME NEW w \in Workers, at[w] \in {"claiming"} \cup InHand, item[w] \in Items
      PROVE  \A v \in Workers \ {w} : ~Has(v, item[w])
  BY <1>6 DEF OutboxInv, OneHand, Has
<1>7. ASSUME NEW w \in Workers, ClaimCommit(w) \/ ClaimReplyLost(w) PROVE OutboxInv'
  <2>1. PICK i \in Items : item[w] = i /\ at[w] = "claiming" /\ outbox' = Updated(w, Claimed)
    BY <1>7 DEF ClaimCommit, ClaimReplyLost
  <2>2. /\ outbox'[i].status = "processing" /\ outbox'[i].retry_count = outbox[i].retry_count
        /\ \A k \in Items \ {i} : outbox'[k] = outbox[k]
    BY <2>1, UpdatedIs
  <2>3. /\ UNCHANGED <<posts, accepts>> /\ at'[w] \in {"posting", "polling"}
        /\ item'[w] \in {i, NoItem}
        /\ \A v \in Workers \ {w} : at'[v] = at[v] /\ item'[v] = item[v]
    BY <1>7, <2>1 DEF ClaimCommit, ClaimReplyLost, Leave
  <2>4. outbox[i].status = "pending"
    BY <2>1 DEF OutboxInv, HandSound
  <2>5. Counted(i)' /\ HandSound(w)'
    BY <2>1, <2>2, <2>3, <2>4, OutboxAssumption DEF OutboxInv, Counted, HandSound
  <2> QED
    BY <1>6, <2>1, <2>2, <2>3, <2>5, OneItemStep, OutboxAssumption
<1>8. ASSUME NEW w \in Workers, Post(w) PROVE OutboxInv'
  <2>1. CASE item[w] \notin Items
    BY <1>8, <2>1, UpdatedNone, NoItemStep DEF Post
  <2>2. CASE item[w] \in Items
    <3>1. at[w] = "posting" /\ \A v \in Workers \ {w} : ~Has(v, item[w])
      BY <1>6, <1>8, <2>2 DEF Post, InHand
    <3>2. /\ posts'[item[w]] = posts[item[w]] + 1
          /\ at'[w] = "accepted" => accepts'[item[w]] > 0
          /\ at'[w] \in {"accepted", "refused"}
          /\ \A k \in Items \ {item[w]} : posts'[k] = posts[k] /\ accepts'[k] = accepts[k]
      BY <1>8, <2>2 DEF Post, OneMore
    <3>3. outbox' = outbox /\ item' = item
      BY <1>8 DEF Post
    <3>4. /\ outbox[item[w]].status = "processing"
          /\ posts[item[w]] = outbox[item[w]].retry_count
          /\ outbox[item[w]].retry_count \in Nat
      BY <2>2, <3>1 DEF OutboxInv, HandSound, Row
    <3>5. Counted(item[w])' /\ HandSound(w)'
      BY <2>2, <3>2, <3>3, <3>4 DEF OutboxInv, Counted, HandSound
    <3>6. \A v \in Workers \ {w} : at'[v] = at[v]
      BY <1>8 DEF Post
    <3> QED
      BY <2>2, <3>1, <3>2, <3>3, <3>5, <3>6, OneItemStep
  <2> QED
    BY <2>1, <2>2
<1>9. ASSUME NEW w \in Workers, MarkWebhookProcessed(w) \/ MarkProcessedThrows(w)
      PROVE  OutboxInv'
  <2>1. /\ at[w] = "accepted" /\ UNCHANGED <<posts, accepts>>
        /\ outbox' = outbox \/ outbox' = Updated(w, Processed)
        /\ at'[w] \in {"draining", "refused"} /\ item'[w] \in {item[w], NoItem}
        /\ \A v \in Workers \ {w} : at'[v] = at[v] /\ item'[v] = item[v]
    BY <1>9 DEF MarkWebhookProcessed, MarkProcessedThrows, Leave
  <2>2. CASE item[w] \notin Items
    BY <2>1, <2>2, UpdatedNone, NoItemStep, OutboxAssumption
  <2>3. CASE item[w] \in Items
    <3>1. PICK i \in Items : item[w] = i
      BY <2>3
    <3>2. /\ outbox'[i].status \in {"processing", "processed"}
          /\ outbox'[i].retry_count = outbox[i].retry_count
          /\ \A k \in Items \ {i} : outbox'[k] = outbox[k]
      <4>1. CASE outbox' = outbox
        BY <2>1, <3>1, <4>1 DEF OutboxInv, HandSound
      <4>2. CASE outbox' = Updated(w, Processed)
        BY <3>1, <4>2, UpdatedIs
      <4> QED
        BY <2>1, <4>1, <4>2
    <3>3. /\ outbox[i].status = "processing" /\ accepts[i] > 0
          /\ posts[i] = outbox[i].retry_count + 1
          /\ outbox[i].retry_count < MaxRetries
      BY <2>1, <3>1 DEF OutboxInv, HandSound, Counted
    <3>4. Counted(i)' /\ HandSound(w)'
      BY <2>1, <3>1, <3>2, <3>3, OutboxAssumption DEF Counted, HandSound
    <3>5. \A v \in Workers \ {w} : ~Has(v, i)
      BY <1>6, <2>1, <3>1 DEF InHand
    <3> QED
      BY <2>1, <3>1, <3>2, <3>4, <3>5, OneItemStep, OutboxAssumption
  <2> QED
    BY <2>2, <2>3
<1>10. ASSUME NEW w \in Workers, MarkWebhookFailed(w) \/ MarkFailedThrows(w) PROVE OutboxInv'
  <2>1. /\ at[w] = "refused" /\ UNCHANGED <<posts, accepts>>
        /\ outbox' = outbox \/ outbox' = Updated(w, FailedItem)
        /\ at'[w] \in {"draining", "polling"}
        /\ \A v \in Workers \ {w} : at'[v] = at[v] /\ item'[v] = item[v]
    BY <1>10 DEF MarkWebhookFailed, MarkFailedThrows, Leave
  <2>2. CASE outbox' = outbox \/ item[w] \notin Items
    BY <2>1, <2>2, UpdatedNone, NoItemStep DEF InHand
  <2>3. CASE outbox' = Updated(w, FailedItem) /\ item[w] \in Items
    <3>1. PICK i \in Items : item[w] = i
      BY <2>3
    <3>2. outbox'[i] = FailedItem(outbox[i]) /\ \A k \in Items \ {i} : outbox'[k] = outbox[k]
      BY <2>3, <3>1 DEF Updated
    <3>3. /\ posts[i] = outbox[i].retry_count + 1
          /\ outbox[i].retry_count < MaxRetries /\ outbox[i].retry_count \in Nat
      BY <2>1, <3>1 DEF OutboxInv, Counted, HandSound, Row
    <3>4. Counted(i)'
      BY <2>1, <3>2, <3>3, FailedItemIs, OutboxAssumption DEF Counted
    <3>5. HandSound(w)'
      BY <2>1 DEF HandSound
    <3>6. \A v \in Workers \ {w} : ~Has(v, i)
      BY <1>6, <2>1, <3>1 DEF InHand
    <3> QED
      BY <2>1, <3>2, <3>4, <3>5, <3>6, OneItemStep DEF InHand
  <2> QED
    BY <2>1, <2>2, <2>3
<1>11. CASE UNCHANGED vars
  BY <1>11 DEF vars, OutboxInv, OneHand, Has, Counted, HandSound
<1> QED
  BY <1>1, <1>2, <1>3, <1>4, <1>5, <1>7, <1>8, <1>9, <1>10, <1>11, StepCases

LEMMA OutboxAlways == Spec => [](Typed /\ OutboxInv)
<1>1. Init => Typed /\ OutboxInv
  BY TypedInit, OutboxInit
<1>2. Typed /\ OutboxInv /\ [Next]_vars => Typed' /\ OutboxInv'
  BY TypedStep, OutboxStep
<1> QED
  BY <1>1, <1>2, PTL DEF Spec

\* No two workers send the same item at the same time.
THEOREM SendersExclusive == Spec => []OneSender
<1>1. OutboxInv => OneSender
  BY DEF OutboxInv, OneHand, Has, OneSender, Holds
<1> QED
  BY <1>1, OutboxAlways, PTL

\* An item is sent at most max_retries times, over all workers and crashes and
\* although a mark may be sent twice.
THEOREM PostsBounded == Spec => []BoundedPosts
<1>1. Typed /\ OutboxInv => BoundedPosts
  <2> SUFFICES ASSUME Typed, OutboxInv, NEW i \in Items PROVE posts[i] <= MaxRetries
    BY DEF BoundedPosts
  <2>1. outbox[i] \in Row /\ posts[i] \in Nat /\ Counted(i)
    BY DEF Typed, TypeOK, OutboxInv
  <2> QED
    BY <2>1, OutboxAssumption DEF Row, Counted
<1> QED
  BY <1>1, OutboxAlways, PTL

\* An item that is given up was sent max_retries times.
THEOREM GivenUpAreSpent == Spec => []GivenUpIsSpent
<1>1. OutboxInv => GivenUpIsSpent
  BY DEF OutboxInv, Counted, GivenUpIsSpent
<1> QED
  BY <1>1, OutboxAlways, PTL

\* An item that is marked 'processed' was accepted by the endpoint.
THEOREM ProcessedAreAccepted == Spec => []ProcessedWasAccepted
<1>1. OutboxInv => ProcessedWasAccepted
  BY DEF OutboxInv, Counted, ProcessedWasAccepted
<1> QED
  BY <1>1, OutboxAlways, PTL
=============================================================================
