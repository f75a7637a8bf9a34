------------------------ MODULE JobServiceProperties ------------------------
(* What the service promises, and what each promise depends on. *)
EXTENDS JobService

Terminal(j) == jobs[j].status \in {"complete", "failed", "cancelled"}
Busy(j) == \E t \in Threads : note[t].job = j

-----------------------------------------------------------------------------
(* Properties of every execution: live maintenance, crashes and faults. *)

\* An idempotency key names at most one stored job, so that a retry with the
\* key can never start a second scan (create_or_reuse).
KeyBindsOneJob ==
    \A i, j \in Jobs :
      Exists(i) /\ Exists(j) /\ jobs[i].key = jobs[j].key
      /\ jobs[i].key # NoKey => i = j

\* A job that reached a terminal state is never queued or running again, no
\* matter which stale copy of its record is written back.
NeverReactivated ==
    [][\A j \in Jobs : Terminal(j) => ~Active(j)']_vars

\* The delivery of a verdict is recorded, or a thread is about to make it.
Unreported(j) ==
    /\ jobs[j].status \in {"complete", "failed"} /\ jobs[j].stage # "rejected"
    /\ jobs[j].hook = "none"

Kept(j) == Unreported(j) => Busy(j)

\* "The job record is the durable outbox": no verdict enters the store, and no
\* copy is written back over a receipt, without a delivery on record or under
\* way.  The exceptions are the two steps that really lose one, a crash between
\* the record and its receipt and an exception in the very notification: the
\* retry pass looks for failed receipts only and never finds such a job again.
OutboxHoldsEveryVerdict ==
    [][WebhookConfigured =>
         \A j \in Jobs :
           Kept(j) => \/ Kept(j)'
                      \/ Crash
                      \/ \E t \in Threads : note[t].job = j /\ NotifyRaises(t)]_vars

\* The most attempts a receipt is ever charged: a last batch may start when
\* one attempt is left of the budget.
Budget == MaxTotalAttempts + WebhookAttempts - 1

\* The posts about a job are bounded across restarts and passes ("the bounded
\* total prevents restart loops from creating an unbounded retry stream"): one
\* budget, a second one when the stale receipt of the job's runner, watcher or
\* POST handler puts back what maintenance had counted, and the batch that each
\* crash or fault cuts off.
PostsAreBounded ==
    \A j \in Jobs :
      posts[j] <= 2 * Budget + WebhookAttempts * (crashes + faults)

\* The job as its clients see it.
Life(j) ==
    IF sub[j] \in {"created", "refused"} THEN "offered"
    ELSE IF Exists(j) THEN jobs[j].status
    ELSE IF sub[j] = "none" THEN "none"
    ELSE "gone"

Lifecycle == INSTANCE JobLifecycle
               WITH Capacity <- MaxWorkers, life <- [j \in Jobs |-> Life(j)],
                    heard <- sent

\* The service as it is deployed, with the maintenance loop beside its workers,
\* crashes and raising writes, follows the life of a job up to the revisions
\* that stale copies bring about: no ended job starts again, none is cancelled
\* after it ended, none goes from cancelled to complete, and no event is posted
\* about a job that is neither complete nor failed.
ImplementsServedLifecycle == Lifecycle!ServedSpec

-----------------------------------------------------------------------------
(* Properties that need maintenance to keep away from live jobs. *)

\* No job is wedged: while the service is up, a queued or running job is in
\* the hands of its handler, in the queue, or watched by a worker.  The queue
\* is lost in a crash, so this is what the startup pass restores. 
NoWedgedJob ==
    mode = "up" =>
      \A j \in Jobs :
        Active(j) => \/ sub[j] \in {"created", "refused"}
                     \/ Queued(j)
                     \/ watch[j] = "waiting"

\* A client that was answered "cancelled" never sees a report of the job, and
\* no terminal event is posted about it (cancel).
CancelHonoured ==
    \A j \in Jobs :
      "cancelled" \in told[j] => sent[j] = {} /\ j \notin reports

\* A completed job stays complete until its record expires (maintain_store:
\* "without changing completed scan evidence").
CompleteIsFinal ==
    [][\A j \in Jobs : jobs[j].status = "complete"
                         => jobs'[j].status \in {"complete", "absent"}]_vars

\* The service, with its threads, its stale copies and its crashes, is an
\* implementation of the lifecycle its clients are promised.
ImplementsLifecycle == Lifecycle!Spec

-----------------------------------------------------------------------------
(* Liveness *)

\* Every job a client was told is accepted leaves the active states, even
\* when its scan hangs: by its result, a cancellation, the timeout, or the
\* startup pass after a crash.  A store write that raises may leave it to a
\* later pass.
AcceptedTerminates ==
    \A j \in Jobs : "accepted" \in told[j] ~> ~Active(j) \/ faults > 0

\* A failed delivery is retried, pass after pass and restart after restart,
\* until it is delivered or dead-lettered, unless the job expires or an
\* exception has ended the maintenance thread.
RetriesSettle ==
    \A j \in Jobs :
      jobs[j].hook = "failed"
        ~> jobs[j].hook # "failed" \/ maint.phase = "dead"

\* A worker that took a job is freed: "a wedged download or analyzer cannot
\* occupy a worker forever".  An exception in the worker ends it for good.
WorkerIsFreed ==
    \A j \in Jobs : watch[j] = "waiting" ~> ~Occupies(j) \/ watch[j] = "died"
=============================================================================
