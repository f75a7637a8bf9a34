-------------------------- MODULE StoreMaintenance --------------------------
(***************************************************************************)
(* maintain_store: purge expired files, mark jobs that were left running   *)
(* as interrupted, and retry failed webhook deliveries.  The service runs  *)
(* it once before it accepts requests and then on a daemon interval, beside*)
(* the workers.  It reads records without the lock and writes them back    *)
(* whole, so what it writes may be stale.                                  *)
(***************************************************************************)
EXTENDS ScanPool

VARIABLE maint  \* the phase of the pass and the jobs its loop has left

Phases == {"idle", "purgeJobs", "purgeReports", "mark", "retry", "dead"}

MaintTypeOK == maint \in [phase: Phases, todo: SUBSET Jobs]

NoPass == [phase |-> "idle", todo |-> {}]
MaintInit == maint = NoPass

-----------------------------------------------------------------------------
StoredJobs == {j \in Jobs : Exists(j)}

BeginPass == maint' = [phase |-> "purgeJobs", todo |-> {}]

\* Nothing of the pass is in flight for the job it looked at last.
AtLoop(phase) == maint.phase = phase /\ Quiet(Maint)

Drop(j) == maint' = [maint EXCEPT !.todo = @ \ {j}]

\* An unlink that raises is skipped, so any part of the old files may go.
PurgeJobs ==
    /\ AtLoop("purgeJobs")
    /\ \E gone \in SUBSET oldJobs :
         /\ jobs' = [j \in Jobs |-> IF j \in gone THEN Absent ELSE jobs[j]]
         /\ oldJobs' = oldJobs \ gone
    /\ maint' = [maint EXCEPT !.phase = "purgeReports"]
    /\ UNCHANGED <<reports, lock, oldReports, hookVars, poolVars>>

PurgeReports ==
    /\ AtLoop("purgeReports")
    /\ \E gone \in SUBSET oldReports :
         /\ reports' = reports \ gone
         /\ oldReports' = oldReports \ gone
    /\ maint' = [phase |-> "mark", todo |-> StoredJobs]
    /\ UNCHANGED <<jobs, lock, oldJobs, hookVars, poolVars>>

MarkRead(j) ==
    /\ AtLoop("mark")
    /\ j \in maint.todo
    /\ Active(j)
    /\ Step(Maint, "put", j, FailedAs(jobs[j], "interrupted"))
    /\ Drop(j)
    /\ UNCHANGED <<storeVars, sent, posts, poolVars>>

\* store.write(job), whatever the record has become, then the webhook.
MarkWrite ==
    /\ note[Maint].pc = "put"
    /\ WriteJob(note[Maint].job, note[Maint].snap)
    /\ BeginNotify(Maint, note[Maint].job)
    /\ UNCHANGED <<sent, posts, poolVars, maint>>

\* Mutant: only running jobs are marked interrupted.
MarkDoneMutant ==
    /\ AtLoop("mark")
    /\ \A j \in maint.todo : jobs[j].status # "running"
    /\ maint' = [phase |-> "retry", todo |-> StoredJobs]
    /\ UNCHANGED <<storeVars, hookVars, poolVars>>

\* The loop passes over what is terminal or gone, and that stays so.
MarkDone ==
    /\ AtLoop("mark")
    /\ \A j \in maint.todo : ~Active(j)
    /\ maint' = [phase |-> "retry", todo |-> StoredJobs]
    /\ UNCHANGED <<storeVars, hookVars, poolVars>>

\* Mutant: only completed jobs are retried.
NeedsRetryMutant(j) == jobs[j].status = "complete" /\ jobs[j].hook = "failed"

NeedsRetry(j) == jobs[j].status \in {"complete", "failed"}
                 /\ jobs[j].hook = "failed"

RetrySkip(j) ==
    /\ AtLoop("retry")
    /\ j \in maint.todo
    /\ ~NeedsRetry(j)
    /\ Drop(j)
    /\ UNCHANGED <<storeVars, hookVars, poolVars>>

\* The code first dead-letters a failed receipt whose budget is spent;
\* ReceiptsHaveBudget (JobServiceInvariant) shows that no record takes that branch.
RetryNotify(j) ==
    /\ AtLoop("retry")
    /\ j \in maint.todo
    /\ NeedsRetry(j)
    /\ BeginNotify(Maint, j)
    /\ Drop(j)
    /\ UNCHANGED <<storeVars, sent, posts, poolVars>>

RetryDone ==
    /\ AtLoop("retry")
    /\ maint.todo = {}
    /\ maint' = NoPass
    /\ UNCHANGED <<storeVars, hookVars, poolVars>>

Maintain ==
    \/ PurgeJobs \/ PurgeReports
    \/ \E j \in Jobs : MarkRead(j) \/ RetrySkip(j) \/ RetryNotify(j)
    \/ MarkWrite \/ MarkDone \/ RetryDone
=============================================================================
