------------------------------ MODULE ScanPool ------------------------------
(***************************************************************************)
(* The bounded worker pool (class ScanWorkerPool) and the marketplace job  *)
(* it runs (execute_marketplace_job).  A worker thread takes a job from    *)
(* the queue, starts a runner thread for it and waits; when the wait times *)
(* out the worker fails the job and goes on, and the runner, which cannot  *)
(* be killed, goes on too.  A job enters the queue once, so its runner and *)
(* the worker that watches it are named by the job.                        *)
(***************************************************************************)
EXTENDS TerminalWebhook

CONSTANTS MaxWorkers, MaxQueue

ASSUME PoolAssumption ==
    /\ MaxWorkers \in Nat \ {0}
    /\ MaxQueue \in Nat \ {0}

VARIABLES
    queue,  \* job ids waiting for a worker
    run,    \* the runner thread of each job
    watch   \* the worker thread that took each job

poolVars == <<queue, run, watch>>

RunPCs   == {"none", "claiming", "scanning", "failing", "published", "over"}
WatchPCs == {"none", "waiting", "expired", "released", "died"}

PoolTypeOK ==
    /\ queue \in Seq(Jobs)
    /\ run \in [Jobs -> RunPCs]
    /\ watch \in [Jobs -> WatchPCs]

PoolInit ==
    /\ queue = <<>>
    /\ run = [j \in Jobs |-> "none"]
    /\ watch = [j \in Jobs |-> "none"]

-----------------------------------------------------------------------------
Queued(j) == \E i \in 1..Len(queue) : queue[i] = j

\* The runner has returned and set the event its worker waits for.
RunnerOver(j) == run[j] \in {"published", "over"} /\ Quiet(Runner(j))

\* A worker thread is taken by j: it waits, reports a timeout, or is dead.
Occupies(j) ==
    \/ watch[j] \in {"waiting", "died"}
    \/ watch[j] = "expired" /\ ~Quiet(Watcher(j))

Occupied == {j \in Jobs : Occupies(j)}

\* A scan thread is executing for j, whether or not a worker waits for it.
Scanning == {j \in Jobs : run[j] = "scanning"}

WorkerTake ==
    /\ queue # <<>>
    /\ Cardinality(Occupied) < MaxWorkers
    /\ queue' = Tail(queue)
    /\ watch' = [watch EXCEPT ![Head(queue)] = "waiting"]
    /\ run' = [run EXCEPT ![Head(queue)] = "claiming"]
    /\ UNCHANGED <<storeVars, hookVars>>

RunnerClaim(j) ==
    /\ run[j] = "claiming"
    /\ Claim(j)
    /\ run' = [run EXCEPT ![j] = "scanning"]
    /\ UNCHANGED <<queue, watch, hookVars>>

\* The job was cancelled or failed while it waited.
RunnerDeclined(j) ==
    /\ run[j] = "claiming"
    /\ LockFree
    /\ jobs[j].status # "queued"
    /\ run' = [run EXCEPT ![j] = "over"]
    /\ UNCHANGED <<queue, watch, hookVars, storeVars>>

\* The scan returned a bundle and the job is still this runner's.
RunnerCommit(j) ==
    /\ run[j] = "scanning"
    /\ OpenCommit(j)
    /\ UNCHANGED <<poolVars, hookVars>>

\* Mutant: the terminal webhook is forgotten.
RunnerPublishMutant(j) ==
    /\ run[j] = "scanning"
    /\ CloseCommit(j)
    /\ run' = [run EXCEPT ![j] = "published"]
    /\ UNCHANGED <<queue, watch, hookVars>>

RunnerPublish(j) ==
    /\ run[j] = "scanning"
    /\ CloseCommit(j)
    /\ run' = [run EXCEPT ![j] = "published"]
    /\ BeginNotify(Runner(j), j)
    /\ UNCHANGED <<queue, watch, sent, posts>>

\* The scan returned, but the job timed out or was cancelled meanwhile.
RunnerLate(j) ==
    /\ run[j] = "scanning"
    /\ LockFree
    /\ jobs[j].status # "running"
    /\ run' = [run EXCEPT ![j] = "over"]
    /\ UNCHANGED <<queue, watch, hookVars, storeVars>>

\* The scan, the bundle or the commit raised: the except branch.
RunnerFail(j) ==
    /\ run[j] \in {"scanning", "failing"}
    /\ Fail(j, "failed")
    /\ run' = [run EXCEPT ![j] = "over"]
    /\ BeginNotify(Runner(j), j)
    /\ UNCHANGED <<queue, watch, sent, posts>>

RunnerFailLate(j) ==
    /\ run[j] = "failing"
    /\ LockFree
    /\ ~Active(j)
    /\ run' = [run EXCEPT ![j] = "over"]
    /\ UNCHANGED <<queue, watch, hookVars, storeVars>>

\* Mutant: the worker goes on without failing the job.
WatcherTimeoutMutant(j) ==
    /\ watch[j] = "waiting"
    /\ ~RunnerOver(j)
    /\ watch' = [watch EXCEPT ![j] = "expired"]
    /\ BeginNotify(Watcher(j), j)
    /\ UNCHANGED <<queue, run, sent, posts, storeVars>>

\* done.wait(job_timeout) elapsed: try_fail, then the webhook.
WatcherTimeout(j) ==
    /\ watch[j] = "waiting"
    /\ ~RunnerOver(j)
    /\ Fail(j, "timeout")
    /\ watch' = [watch EXCEPT ![j] = "expired"]
    /\ BeginNotify(Watcher(j), j)
    /\ UNCHANGED <<queue, run, sent, posts>>

\* Mutant: the wait has no timeout once the job is terminal.
WatcherReleaseMutant(j) ==
    /\ watch[j] = "waiting"
    /\ RunnerOver(j)
    /\ watch' = [watch EXCEPT ![j] = "released"]
    /\ UNCHANGED <<queue, run, hookVars, storeVars>>

\* The runner finished, or the wait elapsed on a job already terminal.
WatcherRelease(j) ==
    /\ watch[j] = "waiting"
    /\ \/ RunnerOver(j)
       \/ LockFree /\ ~Active(j)
    /\ watch' = [watch EXCEPT ![j] = "released"]
    /\ UNCHANGED <<queue, run, hookVars, storeVars>>

Pool(j) ==
    \/ RunnerClaim(j) \/ RunnerDeclined(j)
    \/ RunnerCommit(j) \/ RunnerPublish(j) \/ RunnerLate(j)
    \/ RunnerFail(j) \/ RunnerFailLate(j)
    \/ WatcherTimeout(j) \/ WatcherRelease(j)
=============================================================================
