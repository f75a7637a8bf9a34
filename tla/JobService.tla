----------------------------- MODULE JobService -----------------------------
(***************************************************************************)
(* The scanner service as a whole: the HTTP handlers that create, replay   *)
(* and cancel jobs, the worker pool, the maintenance thread, and a process *)
(* that may crash at any step and be restarted on the same data directory. *)
(***************************************************************************)
EXTENDS StoreMaintenance

CONSTANTS
    LiveMaintenance,  \* whether the maintenance loop wakes while serving
    MaxCrashes,  \* bound: crashes of the process
    MaxFaults,   \* bound: exceptions raised by a store write or a delivery
    Expiry       \* whether files may outlive the retention period

ASSUME ServiceAssumption ==
    /\ MaxCrashes \in Nat /\ MaxFaults \in Nat
    /\ LiveMaintenance \in BOOLEAN /\ Expiry \in BOOLEAN

VARIABLES
    mode,     \* the process: starting (serve before the server), up, down
    sub,      \* the POST handler that created each job
    told,     \* history: what clients were answered about each job
    crashes, faults  \* what the bounds count

httpVars == <<sub, told>>
envVars  == <<mode, crashes, faults>>
vars == <<storeVars, hookVars, poolVars, maint, httpVars, envVars>>

SubPCs  == {"none", "created", "refused", "answered"}
Answers == {"accepted", "rejected", "cancelled"}

TypeOK ==
    /\ StoreTypeOK
    /\ HookTypeOK
    /\ PoolTypeOK
    /\ MaintTypeOK
    /\ mode \in {"starting", "up", "down"}
    /\ sub \in [Jobs -> SubPCs]
    /\ told \in [Jobs -> SUBSET Answers]
    /\ crashes \in Nat /\ faults \in Nat

Init ==
    /\ StoreInit /\ HookInit /\ PoolInit /\ MaintInit
    /\ mode = "up"
    /\ sub = [j \in Jobs |-> "none"]
    /\ told = [j \in Jobs |-> {}]
    /\ crashes = 0 /\ faults = 0

Tell(j, answer) == told' = [told EXCEPT ![j] = @ \cup {answer}]

-----------------------------------------------------------------------------
(* POST /v1/scans/marketplace *)

\* create_or_reuse returns a new job; its id was never used before.
PostCreate(j, k, r) ==
    /\ sub[j] = "none"
    /\ Create(j, k, r)
    /\ sub' = [sub EXCEPT ![j] = "created"]
    /\ UNCHANGED <<hookVars, poolVars, maint, told, envVars>>

\* create_or_reuse returns the stored job of this key and request; the
\* answer is 429 for a rejected job and 202 for any other.  A key bound to
\* another request is answered 409 and changes nothing.
PostReplay(j, k, r) ==
    /\ LockFree
    /\ j \in Holders(k)
    /\ jobs[j].req = r
    /\ Tell(j, IF jobs[j].stage = "rejected" THEN "rejected" ELSE "accepted")
    /\ UNCHANGED <<storeVars, hookVars, poolVars, maint, sub, envVars>>

PostSubmit(j) ==
    /\ sub[j] = "created"
    /\ Len(queue) < MaxQueue
    /\ queue' = Append(queue, j)
    /\ sub' = [sub EXCEPT ![j] = "answered"]
    /\ Tell(j, "accepted")
    /\ UNCHANGED <<storeVars, hookVars, run, watch, maint, envVars>>

PostQueueFull(j) ==
    /\ sub[j] = "created"
    /\ Len(queue) >= MaxQueue
    /\ sub' = [sub EXCEPT ![j] = "refused"]
    /\ UNCHANGED <<storeVars, hookVars, poolVars, maint, told, envVars>>

\* The handler writes its own copy of the job, the one it created.
PostReject(j) ==
    /\ sub[j] = "refused"
    /\ WriteJob(j, FailedAs(NewRecord(jobs[j].key, jobs[j].req), "rejected"))
    /\ sub' = [sub EXCEPT ![j] = "answered"]
    /\ Tell(j, "rejected")
    /\ UNCHANGED <<hookVars, poolVars, maint, envVars>>

(* DELETE /v1/jobs/{id}; a terminal job is answered 409 and not changed. *)
DeleteJob(j) ==
    /\ Cancel(j)
    /\ Tell(j, "cancelled")
    /\ UNCHANGED <<hookVars, poolVars, maint, sub, envVars>>

Http ==
    \E j \in Jobs :
      \/ \E k \in Keys \cup {NoKey}, r \in Requests : PostCreate(j, k, r)
      \/ \E k \in Keys, r \in Requests : PostReplay(j, k, r)
      \/ PostSubmit(j) \/ PostQueueFull(j) \/ PostReject(j)
      \/ DeleteJob(j)

-----------------------------------------------------------------------------
(* Threads *)

NotifyStep(t) == Notify(t) /\ UNCHANGED <<poolVars, maint>>
PoolStep(j)   == Pool(j) /\ UNCHANGED maint
TakeStep      == WorkerTake /\ UNCHANGED maint

Work ==
    /\ \/ TakeStep
       \/ \E j \in Jobs : PoolStep(j)
       \/ \E t \in Threads \ {Maint} : NotifyStep(t)
    /\ UNCHANGED <<httpVars, envVars>>

MaintStep == Maintain \/ NotifyStep(Maint)

\* The daemon thread wakes up; nothing waits for the workers to be idle.
Tick ==
    /\ LiveMaintenance
    /\ maint.phase = "idle"
    /\ BeginPass
    /\ UNCHANGED <<storeVars, hookVars, poolVars, httpVars, envVars>>

-----------------------------------------------------------------------------
(* Time: a file passes the retention cutoff when nothing has written it   *)
(* for that long.  The shortest retention is one hour, the longest wait of*)
(* a worker and more than any webhook batch, so no thread but an abandoned*)
(* runner is at work on the job.  A report is written just before its     *)
(* record, so it is older.                                                *)

Unattended(j) ==
    /\ sub[j] = "answered"
    /\ watch[j] # "waiting"
    /\ lock.job # j
    /\ \A t \in Threads : note[t].job # j

ExpireReport(j) ==
    /\ Expiry
    /\ j \in reports \ oldReports
    /\ Unattended(j)
    /\ oldReports' = oldReports \cup {j}
    /\ UNCHANGED <<jobs, reports, lock, oldJobs, hookVars, poolVars, maint,
                   httpVars, envVars>>

ExpireJob(j) ==
    /\ Expiry
    /\ Exists(j)
    /\ j \notin oldJobs
    /\ j \in reports => j \in oldReports
    /\ Unattended(j)
    /\ oldJobs' = oldJobs \cup {j}
    /\ UNCHANGED <<jobs, reports, lock, oldReports, hookVars, poolVars, maint,
                   httpVars, envVars>>

-----------------------------------------------------------------------------
(* Crash and restart: files survive, threads and the queue do not. *)

Crash ==
    /\ mode # "down"
    /\ crashes < MaxCrashes
    /\ crashes' = crashes + 1
    /\ mode' = "down"
    /\ lock' = Unlocked
    /\ note' = [t \in Threads |-> IdleNote]
    /\ queue' = <<>>
    /\ run' = [j \in Jobs |-> IF run[j] = "none" THEN "none" ELSE "over"]
    /\ watch' = [j \in Jobs |-> IF watch[j] = "none" THEN "none"
                                                     ELSE "released"]
    /\ maint' = NoPass
    /\ sub' = [j \in Jobs |-> IF sub[j] = "none" THEN "none" ELSE "answered"]
    /\ UNCHANGED <<jobs, reports, oldJobs, oldReports, sent, posts, told,
                   faults>>

\* serve(): the store is maintained before anything else starts.
Restart ==
    /\ mode = "down"
    /\ mode' = "starting"
    /\ BeginPass
    /\ UNCHANGED <<storeVars, hookVars, poolVars, httpVars, crashes,
                   faults>>

StartServing ==
    /\ mode = "starting"
    /\ maint = NoPass
    /\ Quiet(Maint)
    /\ mode' = "up"
    /\ UNCHANGED <<storeVars, hookVars, poolVars, maint, httpVars, crashes, faults>>

-----------------------------------------------------------------------------
(* Faults: an exception where the code does not expect one. *)

Fault == faults < MaxFaults /\ faults' = faults + 1

\* try_start raises outside the try block: the runner just ends.
ClaimRaises(j) ==
    /\ Fault
    /\ run[j] = "claiming"
    /\ LockFree
    /\ run' = [run EXCEPT ![j] = "over"]
    /\ UNCHANGED <<storeVars, hookVars, queue, watch, maint, httpVars, mode,
                   crashes>>

\* The report was written and the record was not: the except branch runs.
CommitRaises(j) ==
    /\ Fault
    /\ run[j] = "scanning"
    /\ AbortCommit(j)
    /\ run' = [run EXCEPT ![j] = "failing"]
    /\ UNCHANGED <<hookVars, queue, watch, maint, httpVars, mode, crashes>>

\* try_fail raises in the except branch: the record stays as it is.
FailRaises(j) ==
    /\ Fault
    /\ run[j] \in {"scanning", "failing"}
    /\ LockFree
    /\ run' = [run EXCEPT ![j] = "over"]
    /\ UNCHANGED <<storeVars, hookVars, queue, watch, maint, httpVars, mode,
                   crashes>>

\* try_fail raises in the worker after a timeout: the worker thread ends.
WatchRaises(j) ==
    /\ Fault
    /\ watch[j] = "waiting"
    /\ ~RunnerOver(j)
    /\ LockFree
    /\ watch' = [watch EXCEPT ![j] = "died"]
    /\ UNCHANGED <<storeVars, hookVars, queue, run, maint, httpVars, mode,
                   crashes>>

\* The write of the rejection raises: the handler ends without an answer.
RejectRaises(j) ==
    /\ Fault
    /\ sub[j] = "refused"
    /\ LockFree
    /\ sub' = [sub EXCEPT ![j] = "answered"]
    /\ UNCHANGED <<storeVars, hookVars, poolVars, maint, told, mode,
                   crashes>>

\* A post or a store write of the notifier or of the maintenance pass raises.
\* The runner catches it inside its try block; a worker thread ends; the
\* startup pass ends the process, a later pass the maintenance thread.
NotifyRaises(t) ==
    /\ Fault
    /\ note[t].pc \in {"put", "send", "write"}
    /\ EndNotify(t)
    /\ \/ /\ \E j \in Jobs :
                /\ t = Runner(j)
                /\ run' = [run EXCEPT ![j] = IF @ = "published" THEN "failing"
                                                                ELSE @]
          /\ UNCHANGED <<watch, maint, mode>>
       \/ /\ \E j \in Jobs :
                /\ t = Watcher(j)
                /\ watch' = [watch EXCEPT ![j] = "died"]
          /\ UNCHANGED <<run, maint, mode>>
       \/ /\ t = Maint
          /\ mode = "up"
          /\ maint' = [phase |-> "dead", todo |-> {}]
          /\ UNCHANGED <<run, watch, mode>>
       \/ /\ t = Maint
          /\ mode = "starting"
          /\ maint' = NoPass
          /\ mode' = "down"
          /\ UNCHANGED <<run, watch>>
    /\ UNCHANGED <<storeVars, sent, posts, queue, httpVars, crashes>>

Faults ==
    \/ \E j \in Jobs : \/ ClaimRaises(j) \/ CommitRaises(j) \/ FailRaises(j)
                       \/ WatchRaises(j) \/ RejectRaises(j)
    \/ \E t \in Threads : NotifyRaises(t)

-----------------------------------------------------------------------------
Next ==
    \/ mode = "up" /\ (Http \/ Work \/ Tick)
    \/ mode # "down" /\ MaintStep /\ UNCHANGED <<httpVars, envVars>>
    \/ \E j \in Jobs : ExpireReport(j) \/ ExpireJob(j)
    \/ mode # "down" /\ Faults
    \/ Crash \/ Restart \/ StartServing

Spec == Init /\ [][Next]_vars

(***************************************************************************)
(* Fairness: the operating system runs every started thread, waits time    *)
(* out, and a post ends within its own timeout; a scan may hang, so nothing*)
(* is assumed of the runner before it returns.  A supervisor restarts a    *)
(* crashed process.                                                        *)
(***************************************************************************)
Up(A) == mode = "up" /\ A /\ UNCHANGED <<httpVars, envVars>>

Fairness ==
    /\ WF_vars(Up(TakeStep))
    /\ \A j \in Jobs :
         /\ WF_vars(Up(WatcherTimeout(j) /\ UNCHANGED maint))
         /\ WF_vars(Up(WatcherRelease(j) /\ UNCHANGED maint))
         /\ WF_vars(Up(RunnerPublish(j) /\ UNCHANGED maint))
         /\ WF_vars(mode = "up" /\ PostSubmit(j))
         /\ WF_vars(mode = "up" /\ PostQueueFull(j))
         /\ WF_vars(mode = "up" /\ PostReject(j))
    /\ \A t \in Threads \ {Maint} : WF_vars(Up(NotifyStep(t)))
    /\ WF_vars(mode # "down" /\ MaintStep /\ UNCHANGED <<httpVars, envVars>>)
    /\ WF_vars(Restart) /\ WF_vars(StartServing)
    /\ WF_vars(mode = "up" /\ Tick)

FairSpec == Spec /\ Fairness
=============================================================================
