------------------------------ MODULE JobStore ------------------------------
(***************************************************************************)
(* The durable job store of the scanner service (class JobStore).  A job   *)
(* is one JSON file, its report another; every write replaces a file       *)
(* atomically, and every read-modify-write below runs under the store's    *)
(* lock.  Only try_complete writes two files, so only it is split into two *)
(* steps: `lock` names the job whose commit is between them and holds the   *)
(* record the commit has read.  Reads by get() and by the maintenance pass *)
(* take no lock, and neither does the removal of expired files.            *)
(***************************************************************************)
EXTENDS Naturals, Sequences, FiniteSets

CONSTANTS
    Jobs,       \* job identifiers; each is drawn fresh by uuid4, used once
    Keys,       \* idempotency keys clients send
    Requests,   \* request fingerprints: extension id, version, platform
    NoKey,      \* no Idempotency-Key header
    NoRequest,  \* request_fingerprint of a job created without a key
    NoJob

ASSUME StoreAssumption ==
    /\ NoKey \notin Keys
    /\ NoRequest \notin Requests
    /\ NoJob \notin Jobs

VARIABLES
    jobs,       \* jobs_dir: the record of each job, Absent when no file
    reports,    \* reports_dir: the jobs with a report file
    lock,       \* the try_complete that is between its two writes
    oldJobs,    \* job files last modified before the retention cutoff
    oldReports  \* report files last modified before the cutoff

storeVars == <<jobs, reports, lock, oldJobs, oldReports>>

Statuses == {"absent", "queued", "running", "complete", "failed", "cancelled"}
Stages   == {"none", "downloading", "complete", "failed", "timeout",
             "interrupted", "rejected", "cancelled"}
Hooks    == {"none", "delivered", "failed", "dead_lettered"}

\* hook and tries are the status and total_attempts of webhook_delivery.
JobRecord ==
    [status: Statuses, stage: Stages, ref: BOOLEAN,
     key: Keys \cup {NoKey}, req: Requests \cup {NoRequest},
     hook: Hooks, tries: Nat]

Absent ==
    [status |-> "absent", stage |-> "none", ref |-> FALSE, key |-> NoKey,
     req |-> NoRequest, hook |-> "none", tries |-> 0]

Unlocked == [job |-> NoJob, rec |-> Absent]

\* Mutant: the fingerprint is stored in place of the key's request.
NewRecordMutant(k, r) ==
    [Absent EXCEPT !.status = "queued", !.key = k, !.req = k]

NewRecord(k, r) ==
    [Absent EXCEPT !.status = "queued", !.key = k,
                   !.req = IF k = NoKey THEN NoRequest ELSE r]

StoreTypeOK ==
    /\ jobs \in [Jobs -> JobRecord]
    /\ reports \subseteq Jobs
    /\ lock \in [job: Jobs \cup {NoJob}, rec: JobRecord]
    /\ oldJobs \subseteq Jobs
    /\ oldReports \subseteq Jobs

StoreInit ==
    /\ jobs = [j \in Jobs |-> Absent]
    /\ reports = {}
    /\ lock = Unlocked
    /\ oldJobs = {}
    /\ oldReports = {}

-----------------------------------------------------------------------------
LockFree  == lock.job = NoJob
Exists(j) == jobs[j].status # "absent"
Active(j) == jobs[j].status \in {"queued", "running"}
Holders(k) == {j \in Jobs : Exists(j) /\ jobs[j].key = k}

\* Mutant: the stage is set and the status is not.
FailedAsMutant(rec, stage) == [rec EXCEPT !.stage = stage]

FailedAs(rec, stage) == [rec EXCEPT !.status = "failed", !.stage = stage]

\* A write gives the file a new modification time.
Put(j, rec) ==
    /\ jobs' = [jobs EXCEPT ![j] = rec]
    /\ oldJobs' = oldJobs \ {j}

\* One locked replacement of a job file and of nothing else.
WriteJob(j, rec) ==
    /\ LockFree
    /\ Put(j, rec)
    /\ UNCHANGED <<reports, lock, oldReports>>

\* Mutant: the stored keys are not consulted.
CreateMutant(j, k, r) == WriteJob(j, NewRecord(k, r))

\* create_or_reuse, when no stored job holds the key.
Create(j, k, r) ==
    /\ k # NoKey => Holders(k) = {}
    /\ WriteJob(j, NewRecord(k, r))

\* Mutant: the stale queue copy is started, whatever the record says.
ClaimMutant(j) ==
    WriteJob(j, [jobs[j] EXCEPT !.status = "running", !.stage = "downloading"])

\* try_start: only a record that is still queued is claimed.
Claim(j) ==
    /\ jobs[j].status = "queued"
    /\ WriteJob(j, [jobs[j] EXCEPT !.status = "running",
                                   !.stage = "downloading"])

\* cancel
Cancel(j) ==
    /\ Active(j)
    /\ WriteJob(j, [jobs[j] EXCEPT !.status = "cancelled",
                                   !.stage = "cancelled"])

\* try_fail
Fail(j, stage) ==
    /\ Active(j)
    /\ WriteJob(j, FailedAs(jobs[j], stage))

\* Mutant: the report is written before the status is looked at.
OpenCommitMutant(j) ==
    /\ LockFree
    /\ reports' = reports \cup {j}
    /\ oldReports' = oldReports \ {j}
    /\ lock' = [job |-> j, rec |-> jobs[j]]
    /\ UNCHANGED <<jobs, oldJobs>>

\* try_complete, first write: the report, under the lock.
OpenCommit(j) ==
    /\ LockFree
    /\ jobs[j].status = "running"
    /\ reports' = reports \cup {j}
    /\ oldReports' = oldReports \ {j}
    /\ lock' = [job |-> j, rec |-> jobs[j]]
    /\ UNCHANGED <<jobs, oldJobs>>

\* try_complete, second write: the job record that names the report.
CloseCommit(j) ==
    /\ lock.job = j
    /\ Put(j, [lock.rec EXCEPT !.status = "complete", !.stage = "complete",
                               !.ref = TRUE])
    /\ lock' = Unlocked
    /\ UNCHANGED <<reports, oldReports>>

\* The second write of try_complete raises; the report stays behind.
AbortCommit(j) ==
    /\ lock.job = j
    /\ lock' = Unlocked
    /\ UNCHANGED <<jobs, reports, oldJobs, oldReports>>
=============================================================================
