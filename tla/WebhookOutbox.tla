--------------------------- MODULE WebhookOutbox ----------------------------
(***************************************************************************)
(* The webhook outbox (src/src/queue/webhook-queue.service.ts) and the     *)
(* workers that drain it when the job queue has nothing for them           *)
(* (WorkerService.runLoop).  Nothing takes an item back from a worker:     *)
(* there is no lease and no reclaim, as the job queue has.                 *)
(*                                                                         *)
(* A claim is two steps, as in JobQueue: its sub-select locks a row and    *)
(* its UPDATE commits.  next_retry_at is reduced to what the claim asks of *)
(* it, whether it has passed; items that are due are taken in any order.   *)
(* A mark may fail in two ways, before and after it has committed.  Jobs   *)
(* are what keeps a worker from the outbox; whether a poll finds one is    *)
(* left open.                                                              *)
(***************************************************************************)
EXTENDS Integers

CONSTANTS
  Items,       \* ids of notifications
  Workers,     \* worker processes
  MaxRetries,  \* webhooks_outbox.max_retries (enqueueNotification defaults to 5)
  NoItem,      \* item.id is undefined, or no item in hand
  RowResult    \* TRUE: the driver answers UPDATE ... RETURNING with the rows

ASSUME OutboxAssumption ==
  /\ MaxRetries \in Nat \ {0}
  /\ NoItem \notin Items
  /\ RowResult \in BOOLEAN

VARIABLES
  outbox,   \* table webhooks_outbox: [Items -> Row]
  at,       \* where each worker is in runLoop and processOneWebhook
  item,     \* the item it claims or has claimed
  posts,    \* history: requests sent for each item
  accepts   \* history: requests of each item that the endpoint accepted

vars == <<outbox, at, item, posts, accepts>>

Row == [status : {"absent", "pending", "processing", "processed", "failed"},
        retry_count : Nat, due : BOOLEAN]

InHand == {"posting", "accepted", "refused"}

At == {"polling", "executing", "draining", "claiming", "down"} \cup InHand

Holds(w, i) == at[w] \in InHand /\ item[w] = i

\* The claim of some worker holds the row lock of i.
Locked(i) == \E w \in Workers : at[w] = "claiming" /\ item[w] = i

Init ==
  /\ outbox = [i \in Items |-> [status |-> "absent", retry_count |-> 0, due |-> FALSE]]
  /\ at = [w \in Workers |-> "polling"]
  /\ item = [w \in Workers |-> NoItem]
  /\ posts = [i \in Items |-> 0]
  /\ accepts = [i \in Items |-> 0]

-----------------------------------------------------------------------------
\* Mutant: a status the claim does not know.
EnqueuedMisspelt(i) ==
  /\ outbox[i].status = "absent"
  /\ outbox' = [outbox EXCEPT ![i] = [status |-> "queued", retry_count |-> 0, due |-> TRUE]]
  /\ UNCHANGED <<at, item, posts, accepts>>

\* next_retry_at is NOW(): the item is due at once.
EnqueueNotification(i) ==
  /\ outbox[i].status = "absent"
  /\ outbox' = [outbox EXCEPT ![i] = [status |-> "pending", retry_count |-> 0, due |-> TRUE]]
  /\ UNCHANGED <<at, item, posts, accepts>>

\* The back-off of a failed item has passed.
BecomesDue(i) ==
  /\ outbox[i].status = "pending" /\ ~outbox[i].due
  /\ outbox' = [outbox EXCEPT ![i].due = TRUE]
  /\ UNCHANGED <<at, item, posts, accepts>>

Goto(w, next) ==
  /\ at' = [at EXCEPT ![w] = next]
  /\ UNCHANGED <<outbox, item, posts, accepts>>

\* claimNext answers a job: the outbox waits until the job is marked.
JobClaimed(w) == at[w] = "polling" /\ Goto(w, "executing")

JobDone(w) == at[w] = "executing" /\ Goto(w, "polling")

\* claimNext answers null: the worker starts to drain the outbox.
NoJob(w) == at[w] = "polling" /\ Goto(w, "draining")

\* Mutant: the last try of an item is never made.
DueOneLess(i) ==
  outbox[i].status = "pending" /\ outbox[i].due /\ outbox[i].retry_count + 1 < MaxRetries

Due(i) == outbox[i].status = "pending" /\ outbox[i].due

\* Mutant: the sub-select without FOR UPDATE SKIP LOCKED.
CandidatesUnlocked == {i \in Items : Due(i)}

\* Rows the sub-select sees as due and SKIP LOCKED does not skip.
Candidates == {i \in Items : Due(i) /\ ~Locked(i)}

\* claimNextWebhook, its sub-select: one row is locked.
ClaimLock(w) ==
  /\ at[w] = "draining"
  /\ \E i \in Candidates : item' = [item EXCEPT ![w] = i]
  /\ at' = [at EXCEPT ![w] = "claiming"]
  /\ UNCHANGED <<outbox, posts, accepts>>

\* An UPDATE by the id a worker has, of no row if the id is undefined.
Updated(w, New(_)) == [i \in Items |-> IF i = item[w] THEN New(outbox[i]) ELSE outbox[i]]

Leave(w, next) ==
  /\ at' = [at EXCEPT ![w] = next]
  /\ item' = [item EXCEPT ![w] = NoItem]
  /\ UNCHANGED <<posts, accepts>>

Claimed(row) == [row EXCEPT !.status = "processing"]

\* claimNextWebhook, its UPDATE, commits and the worker gets result[0]: the row,
\* or, if the driver answers with a pair, an array that has no id.
ClaimCommit(w) ==
  /\ at[w] = "claiming"
  /\ outbox' = Updated(w, Claimed)
  /\ at' = [at EXCEPT ![w] = "posting"]
  /\ item' = IF RowResult THEN item ELSE [item EXCEPT ![w] = NoItem]
  /\ UNCHANGED <<posts, accepts>>

\* The claim commits, its reply is lost: runLoop catches and polls again.
ClaimReplyLost(w) ==
  /\ at[w] = "claiming"
  /\ outbox' = Updated(w, Claimed)
  /\ Leave(w, "polling")

\* The claim fails and is rolled back.
ClaimAbort(w) ==
  /\ at[w] = "claiming"
  /\ UNCHANGED outbox
  /\ Leave(w, "polling")

\* No row to claim: result[0] is undefined and the worker sleeps and polls for
\* jobs, unless the driver answers with a pair: its empty first part is no null.
FindNothing(w) ==
  /\ at[w] = "draining"
  /\ Candidates = {}
  /\ Goto(w, IF RowResult THEN "polling" ELSE "posting")

OneMore(w, count) == [i \in Items |-> IF i = item[w] THEN count[i] + 1 ELSE count[i]]

\* fetch: the endpoint accepts the request or not, and a 2xx answer arrives or
\* not; without a URL fetch rejects and sends nothing.
Post(w) ==
  /\ at[w] = "posting"
  /\ posts' = OneMore(w, posts)
  /\ \/ /\ item[w] # NoItem
        /\ at' = [at EXCEPT ![w] = "accepted"] /\ accepts' = OneMore(w, accepts)
     \/ /\ at' = [at EXCEPT ![w] = "refused"]
        /\ accepts' = OneMore(w, accepts) \/ UNCHANGED accepts
  /\ UNCHANGED <<outbox, item>>

Processed(row) == [row EXCEPT !.status = "processed"]

MarkWebhookProcessed(w) ==
  /\ at[w] = "accepted" /\ ~Locked(item[w])
  /\ outbox' = Updated(w, Processed)
  /\ Leave(w, "draining")

\* An error of markWebhookProcessed lands in the catch that is meant for fetch,
\* whether the UPDATE has committed or not.
MarkProcessedThrows(w) ==
  /\ at[w] = "accepted"
  /\ UNCHANGED outbox \/ (~Locked(item[w]) /\ outbox' = Updated(w, Processed))
  /\ at' = [at EXCEPT ![w] = "refused"]
  /\ UNCHANGED <<item, posts, accepts>>

\* Mutants: >= read as >; > read one too early; an item given up is marked processed.
FailedItemOneMore(row) ==
  [status |-> IF row.retry_count + 1 > MaxRetries THEN "failed" ELSE "pending",
   retry_count |-> row.retry_count + 1,
   due |-> row.retry_count + 1 >= MaxRetries /\ row.due]

FailedItemEarly(row) ==
  [status |-> IF row.retry_count + 2 >= MaxRetries THEN "failed" ELSE "pending",
   retry_count |-> row.retry_count + 1,
   due |-> row.retry_count + 1 >= MaxRetries /\ row.due]

FailedItemProcessed(row) ==
  [status |-> IF row.retry_count + 1 >= MaxRetries THEN "processed" ELSE "pending",
   retry_count |-> row.retry_count + 1,
   due |-> row.retry_count + 1 >= MaxRetries /\ row.due]

\* The UPDATE of markWebhookFailed: WHERE id = $1 and nothing else.
FailedItem(row) ==
  [status |-> IF row.retry_count + 1 >= MaxRetries THEN "failed" ELSE "pending",
   retry_count |-> row.retry_count + 1,
   due |-> row.retry_count + 1 >= MaxRetries /\ row.due]

MarkWebhookFailed(w) ==
  /\ at[w] = "refused" /\ ~Locked(item[w])
  /\ outbox' = Updated(w, FailedItem)
  /\ Leave(w, "draining")

\* Its error leaves processOneWebhook: runLoop catches and polls again.
MarkFailedThrows(w) ==
  /\ at[w] = "refused"
  /\ UNCHANGED outbox \/ (~Locked(item[w]) /\ outbox' = Updated(w, FailedItem))
  /\ Leave(w, "polling")

\* The process dies; its open claim, if any, is rolled back.
Crash(w) ==
  /\ at[w] # "down"
  /\ UNCHANGED outbox
  /\ Leave(w, "down")

Restart(w) == at[w] = "down" /\ Goto(w, "polling")

WorkerStep(w) ==
  \/ JobClaimed(w) \/ JobDone(w) \/ NoJob(w)
  \/ ClaimLock(w) \/ ClaimCommit(w) \/ ClaimReplyLost(w) \/ ClaimAbort(w) \/ FindNothing(w)
  \/ Post(w) \/ MarkWebhookProcessed(w) \/ MarkProcessedThrows(w)
  \/ MarkWebhookFailed(w) \/ MarkFailedThrows(w) \/ Crash(w) \/ Restart(w)

Next ==
  \/ \E i \in Items : EnqueueNotification(i) \/ BecomesDue(i)
  \/ \E w \in Workers : WorkerStep(w)

Spec == Init /\ [][Next]_vars

\* A back-off passes, a worker that has started to drain goes on, requests end,
\* and a claim that is sent again and again eventually commits.  Marks need not
\* succeed, jobs need not end, and no poll need find the job queue empty.
Fairness ==
  /\ \A i \in Items : WF_vars(BecomesDue(i))
  /\ \A w \in Workers :
       /\ WF_vars(ClaimLock(w) \/ FindNothing(w))
       /\ SF_vars(ClaimCommit(w) \/ ClaimReplyLost(w))
       /\ WF_vars(Post(w))
       /\ WF_vars(MarkWebhookProcessed(w) \/ MarkProcessedThrows(w))
       /\ WF_vars(MarkWebhookFailed(w) \/ MarkFailedThrows(w))

FairSpec == Spec /\ Fairness

-----------------------------------------------------------------------------
(* Properties *)

TypeOK ==
  /\ outbox \in [Items -> Row]
  /\ at \in [Workers -> At]
  /\ item \in [Workers -> Items \cup {NoItem}]
  /\ posts \in [Items -> Nat] /\ accepts \in [Items -> Nat]

\* No two workers send the same item at the same time, although claims race
\* between the lock and the commit and a mark whose reply was lost is followed by
\* a second mark of the same row.
OneSender == \A i \in Items : \A v, w \in Workers : Holds(v, i) /\ Holds(w, i) => v = w

\* An item is sent at most max_retries times, over all workers, crashes and
\* marks that were sent twice.
BoundedPosts == \A i \in Items : posts[i] <= MaxRetries

\* An item is given up only when every one of its max_retries requests was sent.
GivenUpIsSpent == \A i \in Items : outbox[i].status = "failed" => posts[i] = MaxRetries

\* An item is marked 'processed' only if the endpoint has accepted it.
ProcessedWasAccepted == \A i \in Items : outbox[i].status = "processed" => accepts[i] > 0

\* An item in 'processing' that no worker has in hand; nothing looks for those.
Abandoned(i) == outbox[i].status = "processing" /\ \A w \in Workers : ~Holds(w, i)

\* If some worker stays up and its polls find no job again and again, so that it
\* comes to drain the outbox, every notification ends as 'processed' or 'failed',
\* unless it was abandoned.
OutboxDrains ==
  (\E w \in Workers : <>[](at[w] # "down") /\ []<>(at[w] = "draining")) =>
    <>[](\A i \in Items : outbox[i].status \in {"absent", "processed", "failed"} \/ Abandoned(i))

-----------------------------------------------------------------------------
(* What the documentation says and the code does not keep *)

\* "an outbox table makes sure your Slack/Discord messages actually get
\* delivered" (README.md:24): no notification is left in 'processing' for ever.
NoneAbandoned == \A i \in Items : Abandoned(i) ~> ~Abandoned(i)
=============================================================================
