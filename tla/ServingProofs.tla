---------------------------- MODULE ServingProofs ----------------------------
(***************************************************************************)
(* What the scanner service promises, for any number of jobs, workers and  *)
(* crashes.                                                                *)
(*                                                                         *)
(* As it is deployed, with the maintenance loop beside its workers,        *)
(* crashes, faults and expiry: a verdict is recorded for delivery but for  *)
(* a crash or an exception in between, it is not posted without end, only  *)
(* the maintenance pass ends a completion, and the service implements the  *)
(* lifecycle that JobLifecycle calls ServedSpec.  All four are about the   *)
(* copies of records that threads write back some time after the read.     *)
(*                                                                         *)
(* As long as the pass runs only before serving and nothing has raised: no *)
(* job is wedged, a cancellation is honoured, and the service implements   *)
(* JobLifecycle's stricter Spec.  serve() always starts the loop, and      *)
(* ServiceLiveMaintenance shows what a live pass does to these promises.   *)
(***************************************************************************)
EXTENDS JobServiceProofs, FiniteSetTheorems

-----------------------------------------------------------------------------
(* The webhook: its inductive invariant. *)

\* A job is in the pool only after its POST was answered.
PoolIsAnswered ==
    /\ \A i \in DOMAIN queue : sub[queue[i]] = "answered"
    /\ \A j \in Jobs :
         run[j] # "none" \/ watch[j] # "none" => sub[j] = "answered"

\* The runner and the watcher of a job notify about this job, once it ended.
PoolNotes ==
    \A j \in Jobs : \A t \in {Runner(j), Watcher(j)} :
      ~Quiet(t) => /\ note[t].job = j
                   /\ note[t].pc # "put"
                   /\ Terminal(j)
                   /\ sub[j] = "answered"

\* They never both do: the job was still active when the one began.
OneNotifier ==
    \A j \in Jobs : Quiet(Runner(j)) \/ Quiet(Watcher(j))

\* What the maintenance pass posts about has ended.
PassNotes ==
    note[Maint].pc \in {"send", "write"} => Terminal(note[Maint].job)

\* A record whose commit is open stays running, unless it is purged.
CommitIsOpen ==
    \A j \in Jobs : lock.job = j /\ Exists(j) => jobs[j].status = "running"

\* Nothing is posted about a job that may still become complete.
NothingIsEarly ==
    \A j \in Jobs :
      sub[j] = "none" \/ Active(j) \/ lock.job = j
        => posts[j] = 0 /\ sent[j] = {}

\* Receipts, stored or about to be, are charged within the budget.
Charged(rec) ==
    /\ rec.tries <= Budget
    /\ rec.hook \in {"none", "failed"} => rec.tries < MaxTotalAttempts

ReceiptsAreCharged ==
    /\ \A j \in Jobs : Charged(jobs[j])
    /\ \A t \in Threads : Charged(note[t].snap)
    /\ lock.job # NoJob => Charged(lock.rec)

\* What the posts about a job may exceed a record of it by.  A handler, a
\* runner or a watcher may still put back an old count: the allowance is spent
\* when it has.
Allowance(j) ==
    IF \/ sub[j] # "answered"
       \/ note[Runner(j)].pc \in {"read", "send"}
       \/ note[Watcher(j)].pc \in {"read", "send"} THEN 0
    ELSE IF note[Runner(j)].pc = "write" THEN note[Runner(j)].snap.tries
    ELSE IF note[Watcher(j)].pc = "write" THEN note[Watcher(j)].snap.tries
    ELSE Budget

\* The batch of the maintenance pass that is posted and not yet stored, and
\* the batches that were cut off.
Unstored(j) == IF note[Maint].pc = "write" /\ note[Maint].job = j
               THEN WebhookAttempts ELSE 0
CutOff == WebhookAttempts * (crashes + faults)

PostsAreCounted ==
    \A j \in Jobs :
      /\ Exists(j) => posts[j] <= jobs[j].tries + Allowance(j) + Unstored(j) + CutOff
      /\ note[Maint].pc \in {"put", "send", "write"} /\ note[Maint].job = j
           => posts[j] <= note[Maint].snap.tries + Allowance(j) + CutOff

\* A batch is posted when the delivery is open, and ends with a receipt.
BatchHasReceipt ==
    \A t \in Threads :
      /\ note[t].pc = "send" => ~Settled(note[t].snap)
      /\ note[t].pc = "write" => note[t].snap.hook # "none"

WebhookInv ==
    /\ IInv
    /\ PoolIsAnswered
    /\ PoolNotes
    /\ OneNotifier
    /\ PassNotes
    /\ CommitIsOpen
    /\ NothingIsEarly
    /\ ReceiptsAreCharged
    /\ PostsAreCounted
    /\ PostsAreBounded
    /\ BatchHasReceipt

-----------------------------------------------------------------------------
(* The kinds of steps, by what they do to the records and their copies. *)

\* A POST handler only goes forward.
Onward ==
  \A i \in Jobs :
    \/ sub'[i] = sub[i]
    \/ sub[i] \in {"created", "refused"} /\ sub'[i] # "none"

NoFault == UNCHANGED <<crashes, faults>>

\* Neither a record nor a copy changes.
Still ==
  /\ UNCHANGED <<jobs, lock, note, posts, sent>>
  /\ Onward
  /\ NoFault \/ (crashes' = crashes /\ faults' = faults + 1)

\* A runner or a watcher ends the job and begins to notify.
Ends(j) ==
  /\ \E stage \in Stages : Fail(j, stage)
  /\ \E t \in {Runner(j), Watcher(j)} : BeginNotify(t, j)
  /\ run[j] # "none" \/ watch[j] # "none"
  /\ UNCHANGED <<posts, sent, sub>> /\ NoFault

\* The record of an active job is replaced by one with the same receipt.
Rewrites(j) ==
  /\ Active(j)
  /\ \E rec \in JobRecord :
       /\ WriteJob(j, rec)
       /\ rec.status = "cancelled" \/ (rec.status = "running" /\ run[j] # "none")
       /\ rec.hook = jobs[j].hook /\ rec.tries = jobs[j].tries
  /\ UNCHANGED <<note, posts, sent, sub>> /\ NoFault

\* The maintenance pass changes a record or a copy.
Maintains ==
  /\ \/ PurgeJobs \/ MarkWrite
     \/ \E j \in Jobs : MarkRead(j) \/ RetryNotify(j)
  /\ UNCHANGED sub /\ NoFault

Kinds ==
  \/ Still
  \/ \E j \in Jobs : \/ \E k \in Keys \cup {NoKey}, r \in Requests : PostCreate(j, k, r)
                     \/ PostReject(j) \/ Rewrites(j) \/ Ends(j)
                     \/ RunnerCommit(j) /\ UNCHANGED sub /\ NoFault
                     \/ RunnerPublish(j) /\ UNCHANGED sub /\ NoFault
                     \/ CommitRaises(j)
  \/ \E t \in Threads : \/ Notify(t) /\ UNCHANGED sub /\ NoFault
                        \/ NotifyRaises(t)
  \/ Maintains
  \/ Crash

LEMMA HttpKinds ==
  ASSUME TypeOK, Http
  PROVE  Kinds
<1>1. ASSUME NEW j \in Jobs, NEW k \in Keys, NEW r \in Requests,
             PostReplay(j, k, r)
      PROVE  Still
  BY <1>1 DEF PostReplay, Still, Onward, NoFault, storeVars, hookVars, envVars
<1>2. ASSUME NEW j \in Jobs, PostSubmit(j) \/ PostQueueFull(j)
      PROVE  Still
  BY <1>2 DEF PostSubmit, PostQueueFull, Still, Onward, NoFault, storeVars,
     hookVars, envVars, TypeOK
<1>3. ASSUME NEW j \in Jobs, DeleteJob(j)
      PROVE  Rewrites(j)
  <2> DEFINE rec == [jobs[j] EXCEPT !.status = "cancelled", !.stage = "cancelled"]
  <2>1. jobs[j] \in JobRecord
    BY DEF TypeOK, StoreTypeOK
  <2>2. /\ rec \in JobRecord /\ rec.status = "cancelled"
        /\ rec.hook = jobs[j].hook /\ rec.tries = jobs[j].tries
    BY <2>1 DEF JobRecord, Statuses, Stages
  <2>3. WriteJob(j, rec) /\ Active(j)
    BY <1>3 DEF DeleteJob, Cancel
  <2> HIDE DEF rec
  <2> QED BY <1>3, <2>2, <2>3 DEF DeleteJob, Rewrites, NoFault, hookVars, envVars
<1> QED BY <1>1, <1>2, <1>3 DEF Http, Kinds

LEMMA PoolKinds ==
  ASSUME TypeOK, NEW j \in Jobs, Pool(j), UNCHANGED <<httpVars, envVars>>
  PROVE  Kinds
<1> USE DEF httpVars, envVars, NoFault
<1>1. CASE RunnerClaim(j)
  <2> DEFINE rec == [jobs[j] EXCEPT !.status = "running", !.stage = "downloading"]
  <2>1. jobs[j] \in JobRecord
    BY DEF TypeOK, StoreTypeOK
  <2>2. /\ rec \in JobRecord /\ rec.status = "running"
        /\ rec.hook = jobs[j].hook /\ rec.tries = jobs[j].tries
    BY <2>1 DEF JobRecord, Statuses, Stages
  <2>3. WriteJob(j, rec) /\ Active(j) /\ run[j] # "none"
        /\ UNCHANGED <<note, posts, sent>>
    BY <1>1 DEF RunnerClaim, Claim, Active, hookVars
  <2> HIDE DEF rec
  <2> QED BY <2>2, <2>3 DEF Rewrites, Kinds
<1>2. CASE RunnerDeclined(j) \/ RunnerLate(j) \/ RunnerFailLate(j) \/ WatcherRelease(j)
  <2>1. Still
    BY <1>2 DEF RunnerDeclined, RunnerLate, RunnerFailLate, WatcherRelease, Still,
       Onward, storeVars, hookVars
  <2> QED BY <2>1 DEF Kinds
<1>3. CASE RunnerFail(j)
  <2>1. Fail(j, "failed") /\ BeginNotify(Runner(j), j) /\ run[j] # "none"
        /\ UNCHANGED <<posts, sent>>
    BY <1>3 DEF RunnerFail
  <2>2. Ends(j)
    BY <2>1 DEF Ends, Stages
  <2> QED BY <2>2 DEF Kinds
<1>4. CASE WatcherTimeout(j)
  <2>1. Fail(j, "timeout") /\ BeginNotify(Watcher(j), j) /\ watch[j] # "none"
        /\ UNCHANGED <<posts, sent>>
    BY <1>4 DEF WatcherTimeout
  <2>2. Ends(j)
    BY <2>1 DEF Ends, Stages
  <2> QED BY <2>2 DEF Kinds
<1> QED BY <1>1, <1>2, <1>3, <1>4 DEF Pool, Kinds

LEMMA NextKinds ==
  ASSUME TypeOK, [Next]_vars
  PROVE  Kinds
<1> USE DEF storeVars, hookVars, httpVars, envVars, NoFault
<1>1. CASE Http
  BY <1>1, HttpKinds
<1>2. CASE Work
  <2>1. CASE TakeStep
    BY <1>2, <2>1 DEF Work, TakeStep, WorkerTake, Still, Onward, Kinds
  <2> QED BY <1>2, <2>1, PoolKinds DEF Work, PoolStep, NotifyStep, Kinds
<1>3. CASE MaintStep /\ UNCHANGED <<httpVars, envVars>>
  <2>1. CASE PurgeReports \/ MarkDone \/ RetryDone \/ \E j \in Jobs : RetrySkip(j)
    BY <1>3, <2>1 DEF PurgeReports, MarkDone, RetryDone, RetrySkip, Still, Onward, Kinds
  <2> QED BY <1>3, <2>1, ThreadNames DEF MaintStep, NotifyStep, Maintain, Maintains,
             Kinds
<1>4. CASE Faults
  <2>1. ASSUME NEW j \in Jobs,
               ClaimRaises(j) \/ FailRaises(j) \/ WatchRaises(j) \/ RejectRaises(j)
        PROVE  Still
    BY <2>1 DEF ClaimRaises, FailRaises, WatchRaises, RejectRaises, Fault, Still,
       Onward, TypeOK
  <2> QED BY <1>4, <2>1 DEF Faults, Kinds
<1>5. CASE \/ Tick \/ Restart \/ StartServing \/ UNCHANGED vars
           \/ \E j \in Jobs : ExpireReport(j) \/ ExpireJob(j)
  BY <1>5 DEF Tick, Restart, StartServing, vars, ExpireReport, ExpireJob, Still,
     Onward, Kinds
<1> QED BY <1>1, <1>2, <1>3, <1>4, <1>5 DEF Next, Kinds
-----------------------------------------------------------------------------
(* The pool takes answered jobs. *)

LEMMA AnsweredStays ==
  ASSUME TypeOK, [Next]_vars, NEW j \in Jobs, sub[j] = "answered"
  PROVE  sub'[j] = "answered"
<1> USE DEF TypeOK
<1>1. ASSUME NEW i \in Jobs, NEW k \in Keys \cup {NoKey}, NEW r \in Requests,
             PostCreate(i, k, r)
      PROVE  sub'[j] = "answered"
  BY <1>1 DEF PostCreate
<1>2. ASSUME NEW i \in Jobs, PostReject(i) \/ Rewrites(i) \/ Ends(i) \/ CommitRaises(i)
      PROVE  sub'[j] = "answered"
  BY <1>2 DEF PostReject, Rewrites, Ends, CommitRaises, httpVars
<1>3. CASE Still \/ Crash \/ UNCHANGED sub
  BY <1>3 DEF Still, Onward, Crash
<1>4. ASSUME NEW t \in Threads, NotifyRaises(t)
      PROVE  sub'[j] = "answered"
  BY <1>4 DEF NotifyRaises, httpVars
<1> QED BY <1>1, <1>2, <1>3, <1>4, NextKinds DEF Kinds, Maintains

Taken(j) == run[j] # "none" \/ watch[j] # "none"

LEMMA TakenStep ==
  ASSUME TypeOK, [Next]_vars, NEW j \in Jobs, Taken(j)'
  PROVE  Taken(j) \/ ~Quiet(Watcher(j)) \/ \E i \in DOMAIN queue : queue[i] = j
<1> USE DEF TypeOK, PoolTypeOK, Taken
<1>1. CASE TakeStep
  <2>1. 1 \in DOMAIN queue /\ Head(queue) = queue[1]
    BY <1>1 DEF TakeStep, WorkerTake
  <2> QED BY <1>1, <2>1 DEF TakeStep, WorkerTake
<1>2. ASSUME NEW i \in Jobs, Pool(i)
      PROVE  Taken(j)
  BY <1>2 DEF Pool, RunnerClaim, RunnerDeclined, RunnerCommit, RunnerPublish,
     RunnerLate, RunnerFail, RunnerFailLate, WatcherTimeout, WatcherRelease, poolVars
<1>3. CASE Crash \/ UNCHANGED <<run, watch>>
  BY <1>3 DEF Crash
<1>4. CASE Faults
  <2>1. ASSUME NEW i \in Jobs, \/ ClaimRaises(i) \/ CommitRaises(i) \/ FailRaises(i)
                              \/ WatchRaises(i) \/ RejectRaises(i)
        PROVE  Taken(j)
    BY <2>1 DEF ClaimRaises, CommitRaises, FailRaises, WatchRaises, RejectRaises, poolVars
  <2>2. ASSUME NEW t \in Threads, NotifyRaises(t)
        PROVE  Taken(j) \/ ~Quiet(Watcher(j))
    <3>1. ASSUME NEW i \in Jobs, UNCHANGED watch,
                 run' = [run EXCEPT ![i] = IF @ = "published" THEN "failing" ELSE @]
          PROVE  Taken(j)
      BY <3>1
    <3>2. ASSUME NEW i \in Jobs, UNCHANGED run, t = Watcher(i),
                 watch' = [watch EXCEPT ![i] = "died"]
          PROVE  Taken(j) \/ t = Watcher(j)
      BY <3>2
    <3>3. ~Quiet(t)
      BY <2>2 DEF NotifyRaises, Quiet
    <3> QED BY <1>3, <2>2, <3>1, <3>2, <3>3 DEF NotifyRaises
  <2> QED BY <1>4, <2>1, <2>2 DEF Faults
<1>5. CASE Http \/ Tick \/ Restart \/ StartServing \/ UNCHANGED vars
           \/ \E i \in Jobs : ExpireReport(i) \/ ExpireJob(i)
  <2>1. UNCHANGED <<run, watch>>
    BY <1>5 DEF Http, PostCreate, PostReplay, PostSubmit, PostQueueFull, PostReject,
       DeleteJob, Tick, Restart, StartServing, ExpireReport, ExpireJob, poolVars, vars
  <2> QED BY <1>3, <2>1
<1>6. CASE MaintStep
  <2>1. UNCHANGED <<run, watch>>
    BY <1>6 DEF MaintStep, NotifyStep, Maintain, PurgeJobs, PurgeReports, MarkRead,
       RetrySkip, RetryNotify, MarkWrite, MarkDone, RetryDone, poolVars
  <2> QED BY <1>3, <2>1
<1>7. CASE Work
  BY <1>1, <1>2, <1>3, <1>7 DEF Work, PoolStep, NotifyStep, poolVars
<1> QED BY <1>3, <1>4, <1>5, <1>6, <1>7 DEF Next

LEMMA QueueStep ==
  ASSUME TypeOK, [Next]_vars, NEW i \in DOMAIN queue'
  PROVE  \/ \E k \in DOMAIN queue : queue'[i] = queue[k]
         \/ sub'[queue'[i]] = "answered"
<1> USE DEF TypeOK, PoolTypeOK
<1>1. CASE TakeStep
  <2>1. queue' = Tail(queue) /\ queue # <<>>
    BY <1>1 DEF TakeStep, WorkerTake
  <2>2. i + 1 \in DOMAIN queue /\ queue'[i] = queue[i + 1]
    BY <2>1
  <2> QED BY <2>2
<1>2. ASSUME NEW j \in Jobs, PostSubmit(j)
      PROVE  \/ \E k \in DOMAIN queue : queue'[i] = queue[k]
             \/ sub'[queue'[i]] = "answered"
  <2>1. queue' = Append(queue, j) /\ sub'[j] = "answered"
    BY <1>2 DEF PostSubmit
  <2> QED BY <2>1
<1>3. CASE queue' = <<>> \/ UNCHANGED queue
  BY <1>3
<1>4. CASE Http
  BY <1>2, <1>3, <1>4 DEF Http, PostCreate, PostReplay, PostQueueFull, PostReject,
     DeleteJob, poolVars
<1>5. CASE Work
  BY <1>1, <1>3, <1>5 DEF Work, PoolStep, NotifyStep, Pool, RunnerClaim,
     RunnerDeclined, RunnerCommit, RunnerPublish, RunnerLate, RunnerFail,
     RunnerFailLate, WatcherTimeout, WatcherRelease, poolVars
<1>6. CASE MaintStep
  BY <1>3, <1>6 DEF MaintStep, NotifyStep, Maintain, PurgeJobs, PurgeReports, MarkRead,
     RetrySkip, RetryNotify, MarkWrite, MarkDone, RetryDone, poolVars
<1>7. CASE Faults
  BY <1>3, <1>7 DEF Faults, ClaimRaises, CommitRaises, FailRaises, WatchRaises,
     RejectRaises, NotifyRaises, poolVars
<1>8. CASE Tick \/ Crash \/ Restart \/ StartServing \/ UNCHANGED vars
           \/ \E j \in Jobs : ExpireReport(j) \/ ExpireJob(j)
  BY <1>3, <1>8 DEF Tick, Crash, Restart, StartServing, ExpireReport, ExpireJob,
     poolVars, vars
<1> QED BY <1>4, <1>5, <1>6, <1>7, <1>8 DEF Next

LEMMA PoolIsAnsweredStep ==
  ASSUME TypeOK, PoolIsAnswered, PoolNotes, [Next]_vars
  PROVE  PoolIsAnswered'
<1>0. TypeOK' /\ \A i \in DOMAIN queue : queue[i] \in Jobs
  BY TypeStep DEF TypeOK, PoolTypeOK
<1>1. ASSUME NEW i \in DOMAIN queue'
      PROVE  sub'[queue'[i]] = "answered"
  BY <1>0, QueueStep, AnsweredStays DEF PoolIsAnswered
<1>2. ASSUME NEW j \in Jobs, Taken(j)'
      PROVE  sub'[j] = "answered"
  BY <1>2, TakenStep, AnsweredStays DEF PoolIsAnswered, PoolNotes, Taken
<1> QED BY <1>1, <1>2 DEF PoolIsAnswered, Taken
-----------------------------------------------------------------------------
(* What a step may do to the record of one job. *)

IsPurged(j)  == /\ PurgeJobs /\ j \in oldJobs /\ jobs'[j] = Absent
                /\ UNCHANGED sub
IsCreated(j) == /\ sub[j] = "none" /\ sub'[j] = "created" /\ jobs'[j].status = "queued"
                /\ jobs'[j].hook = "none" /\ jobs'[j].tries = 0
IsPublished(j) == /\ RunnerPublish(j) /\ lock.job = j /\ jobs'[j].status = "complete"
                  /\ jobs'[j].hook = lock.rec.hook /\ jobs'[j].tries = lock.rec.tries
IsRewritten(j) == /\ Active(j) /\ LockFree /\ Exists(j)'
                  /\ Rewrites(j) \/ Ends(j)
                  /\ jobs'[j].hook = jobs[j].hook /\ jobs'[j].tries = jobs[j].tries
IsRejected(j) == /\ PostReject(j) /\ Exists(j) /\ jobs'[j].status = "failed"
                 /\ jobs'[j].stage = "rejected"
                 /\ jobs'[j].hook = "none" /\ jobs'[j].tries = 0
IsCopied(j) == \E t \in Threads :
                 /\ \/ NotifyWrite(t) \/ (t = Maint /\ MarkWrite)
                 /\ note[t].job = j /\ jobs'[j] = note[t].snap
                 /\ Exists(j) /\ Exists(j)' /\ UNCHANGED sub

RecordMoves(j) ==
  \/ jobs'[j] = jobs[j]
  \/ IsPurged(j) \/ IsCreated(j) \/ IsPublished(j) \/ IsRewritten(j)
  \/ IsRejected(j) \/ IsCopied(j)

LEMMA FailKeepsReceipt ==
  ASSUME TypeOK, NEW j \in Jobs, NEW stage \in Stages, Fail(j, stage)
  PROVE  /\ \A i \in Jobs \ {j} : jobs'[i] = jobs[i]
         /\ Active(j) /\ LockFree
         /\ jobs'[j].status = "failed"
         /\ jobs'[j].hook = jobs[j].hook /\ jobs'[j].tries = jobs[j].tries
         /\ UNCHANGED lock
<1>1. jobs[j] \in JobRecord
  BY DEF TypeOK, StoreTypeOK
<1> DEFINE rec == FailedAs(jobs[j], stage)
<1>2. rec.status = "failed" /\ rec.hook = jobs[j].hook /\ rec.tries = jobs[j].tries
  BY <1>1 DEF FailedAs, JobRecord
<1>3. jobs' = [jobs EXCEPT ![j] = rec] /\ Active(j) /\ LockFree /\ UNCHANGED lock
  BY DEF Fail, WriteJob, Put
<1> HIDE DEF rec
<1> QED BY <1>2, <1>3 DEF TypeOK, StoreTypeOK

LEMMA RejectedRecord ==
  ASSUME TypeOK, NEW j \in Jobs, PostReject(j)
  PROVE  /\ \A i \in Jobs \ {j} : jobs'[i] = jobs[i]
         /\ jobs'[j].status = "failed" /\ jobs'[j].stage = "rejected"
         /\ jobs'[j].hook = "none" /\ jobs'[j].tries = 0
<1> DEFINE new == NewRecord(jobs[j].key, jobs[j].req)
           rec == FailedAs(new, "rejected")
<1>1. jobs[j].key \in Keys \cup {NoKey} /\ jobs[j].req \in Requests \cup {NoRequest}
  BY DEF TypeOK, StoreTypeOK, JobRecord
<1>2. new \in JobRecord /\ new.hook = "none" /\ new.tries = 0
  BY <1>1, NewIsRecord DEF NewRecord, Absent
<1>3. rec = [new EXCEPT !.status = "failed", !.stage = "rejected"]
  BY DEF FailedAs
<1>4. jobs' = [jobs EXCEPT ![j] = rec]
  BY DEF PostReject, WriteJob, Put
<1> HIDE DEF new
<1>5. /\ rec.status = "failed" /\ rec.stage = "rejected"
      /\ rec.hook = "none" /\ rec.tries = 0
  BY <1>2, <1>3 DEF JobRecord
<1> HIDE DEF rec
<1> QED BY <1>4, <1>5 DEF TypeOK, StoreTypeOK

\* A copy is written back over an existing record.
LEMMA CopyStep ==
  ASSUME IInv, NEW t \in Threads, NEW j \in Jobs,
         note[t].pc \in {"put", "write"}, WriteJob(note[t].job, note[t].snap)
  PROVE  \/ jobs'[j] = jobs[j]
         \/ /\ note[t].job = j /\ jobs'[j] = note[t].snap
            /\ Exists(j) /\ Exists(j)'
<1>1. note[t].job \in Jobs
  BY BusyNote DEF Quiet, IInv, TypeOK, HookTypeOK
<1>2. /\ note[t].snap.status \in {"complete", "failed", "cancelled"}
      /\ Exists(note[t].job)
  BY DEF IInv, CopiesAreHarmless, CopiesAreTerminal
<1> QED BY <1>1, <1>2 DEF WriteJob, Put, IInv, TypeOK, StoreTypeOK, Exists

LEMMA RecordStep ==
  ASSUME IInv, [Next]_vars, NEW j \in Jobs
  PROVE  RecordMoves(j)
<1> USE DEF IInv, TypeOK, StoreTypeOK
<1>1. ASSUME NEW i \in Jobs, NEW k \in Keys \cup {NoKey}, NEW r \in Requests,
             PostCreate(i, k, r)
      PROVE  RecordMoves(j)
  BY <1>1 DEF PostCreate, Create, WriteJob, Put, NewRecord, Absent, IsCreated, RecordMoves
<1>2. ASSUME NEW i \in Jobs, PostReject(i)
      PROVE  RecordMoves(j)
  <2>1. Exists(i)
    BY <1>2 DEF PostReject, CopiesAreHarmless, OfferedIsStored
  <2> QED BY <1>2, <2>1, RejectedRecord DEF IsRejected, RecordMoves
<1>3. ASSUME NEW i \in Jobs, Rewrites(i)
      PROVE  RecordMoves(j)
  <2>1. PICK rec \in JobRecord :
          /\ WriteJob(i, rec)
          /\ rec.status \in {"running", "cancelled"}
          /\ rec.hook = jobs[i].hook /\ rec.tries = jobs[i].tries
    BY <1>3 DEF Rewrites
  <2> QED BY <1>3, <2>1 DEF Rewrites, WriteJob, Put, IsRewritten, RecordMoves, Exists
<1>4. ASSUME NEW i \in Jobs, Ends(i)
      PROVE  RecordMoves(j)
  BY <1>4, FailKeepsReceipt DEF Ends, IsRewritten, RecordMoves, Exists
<1>5. ASSUME NEW i \in Jobs, RunnerPublish(i)
      PROVE  RecordMoves(j)
  <2> DEFINE rec == [lock.rec EXCEPT !.status = "complete", !.stage = "complete",
                                     !.ref = TRUE]
  <2>1. rec.status = "complete" /\ rec.hook = lock.rec.hook /\ rec.tries = lock.rec.tries
    BY DEF JobRecord
  <2>2. jobs' = [jobs EXCEPT ![i] = rec] /\ lock.job = i
    BY <1>5 DEF RunnerPublish, CloseCommit, Put
  <2> HIDE DEF rec
  <2> QED BY <1>5, <2>1, <2>2 DEF IsPublished, RecordMoves
<1>6. ASSUME NEW t \in Threads, NotifyWrite(t), UNCHANGED sub
      PROVE  RecordMoves(j)
  BY <1>6, CopyStep DEF NotifyWrite, IsCopied, RecordMoves
<1>7. ASSUME MarkWrite, UNCHANGED sub
      PROVE  RecordMoves(j)
  BY <1>7, CopyStep, ThreadNames DEF MarkWrite, IsCopied, RecordMoves
<1>8. ASSUME PurgeJobs, UNCHANGED sub
      PROVE  RecordMoves(j)
  BY <1>8 DEF PurgeJobs, IsPurged, RecordMoves
<1>9. ASSUME UNCHANGED jobs
      PROVE  RecordMoves(j)
  BY <1>9 DEF RecordMoves
<1>10. CASE Maintains
  BY <1>7, <1>8, <1>9, <1>10 DEF Maintains, MarkRead, RetryNotify, storeVars
<1>11. ASSUME NEW t \in Threads, Notify(t), UNCHANGED sub
       PROVE  RecordMoves(j)
  BY <1>6, <1>9, <1>11 DEF Notify, NotifySkip, NotifyRead, NotifySend, storeVars
<1>12. ASSUME NEW t \in Threads, NotifyRaises(t)
       PROVE  RecordMoves(j)
  BY <1>9, <1>12 DEF NotifyRaises, storeVars
<1>13. ASSUME NEW i \in Jobs, RunnerCommit(i) \/ CommitRaises(i)
       PROVE  RecordMoves(j)
  BY <1>9, <1>13 DEF RunnerCommit, OpenCommit, CommitRaises, AbortCommit
<1>14. CASE Still \/ Crash
  BY <1>9, <1>14 DEF Still, Crash
<1> QED BY <1>1, <1>2, <1>3, <1>4, <1>5, <1>10, <1>11, <1>12, <1>13, <1>14, NextKinds
        DEF Kinds
\* A record that ended stays, unless it is old and the pass purges it, and a
\* job that ended or is gone is not active again.
LEMMA EndStays ==
  ASSUME IInv, [Next]_vars, NEW j \in Jobs, Terminal(j)
  PROVE  Terminal(j)' \/ IsPurged(j)
<1>1. StaysEnded(j)
  BY EndedStep
<1>2. TypeOK' /\ IInv'
  BY InvariantStep DEF IInv
<1>3. jobs'[j].status \in Statuses
  BY <1>2 DEF TypeOK, StoreTypeOK, JobRecord
<1>4. Exists(j) /\ sub[j] # "none"
  BY DEF Terminal, Exists, IInv, CopiesAreHarmless, FreshIds
<1>5. Exists(j)' \/ IsPurged(j)
  BY <1>4, RecordStep DEF RecordMoves, IsCreated, IsPublished, IsRewritten, IsRejected,
     IsCopied, Exists
<1> QED BY <1>1, <1>3, <1>5 DEF StaysEnded, Terminal, Active, Exists, Statuses

LEMMA ActiveIsNew ==
  ASSUME IInv, [Next]_vars, NEW j \in Jobs, Active(j)'
  PROVE  Active(j) \/ sub[j] = "none"
<1>1. ~Terminal(j)
  BY EndedStep DEF StaysEnded
<1>2. CASE Exists(j)
  BY <1>1, <1>2 DEF Active, Terminal, Exists, IInv, TypeOK, StoreTypeOK, JobRecord,
     Statuses
<1>3. CASE ~Exists(j)
  BY <1>3, RecordStep DEF RecordMoves, IsPurged, IsCreated, IsPublished, IsRewritten,
     IsRejected, IsCopied, Active, Exists, Absent
<1> QED BY <1>2, <1>3

-----------------------------------------------------------------------------
(* The copies that the threads hold. *)

\* One note, beside the records as they are.
NoteIsSound(t) ==
  /\ \A j \in Jobs :
       t \in {Runner(j), Watcher(j)} /\ ~Quiet(t) =>
         /\ note[t].job = j /\ note[t].pc # "put"
         /\ Terminal(j) /\ sub[j] = "answered"
  /\ t = Maint /\ note[t].pc \in {"send", "write"} => Terminal(note[t].job)
  /\ Charged(note[t].snap)
  /\ note[t].pc = "send" => ~Settled(note[t].snap)
  /\ note[t].pc = "write" => note[t].snap.hook # "none"

LEMMA ThreadKinds ==
  /\ \A t \in Threads : t = Maint \/ \E j \in Jobs : t \in {Runner(j), Watcher(j)}
  /\ \A i, j \in Jobs : /\ Runner(i) = Runner(j) => i = j
                        /\ Watcher(i) = Watcher(j) => i = j
                        /\ Runner(i) # Watcher(j)
BY DEF Threads, Maint, Runner, Watcher

LEMMA SoundNotes ==
  (PoolNotes /\ PassNotes /\ BatchHasReceipt /\ \A t \in Threads : Charged(note[t].snap))
    <=> \A t \in Threads : NoteIsSound(t)
BY ThreadNames, ThreadKinds
   DEF PoolNotes, PassNotes, BatchHasReceipt, NoteIsSound

LEMMA AbsentIsCharged == Charged(Absent)
BY WebhookAssumption DEF Charged, Absent, Budget

LEMMA IdleIsSound ==
  ASSUME NEW t \in Threads, note'[t] = IdleNote
  PROVE  NoteIsSound(t)'
BY AbsentIsCharged DEF NoteIsSound, IdleNote, Quiet, Charged

\* A note that no step touches stays sound: its job is not purged.
LEMMA KeptIsSound ==
  ASSUME IInv, [Next]_vars, NEW t \in Threads, NoteIsSound(t), note'[t] = note[t]
  PROVE  NoteIsSound(t)'
<1>1. ASSUME NEW j \in Jobs, note[t].job = j, Terminal(j), ~Quiet(t)
      PROVE  Terminal(j)'
  <2>1. SUFFICES ASSUME IsPurged(j) PROVE FALSE
    BY <1>1, EndStays
  <2>2. t # Maint
    BY <1>1, <2>1 DEF IsPurged, PurgeJobs, AtLoop
  <2> QED BY <1>1, <2>1, <2>2 DEF IsPurged, IInv, CopiesAreHarmless, NotifierIsRecent
<1>2. ASSUME NEW j \in Jobs, sub[j] = "answered"
      PROVE  sub'[j] = "answered"
  BY <1>2, AnsweredStays DEF IInv
<1>3. note[t].pc # "idle" => note[t].job \in Jobs
  BY BusyNote DEF Quiet, IInv, TypeOK, HookTypeOK
<1> QED BY <1>1, <1>2, <1>3 DEF NoteIsSound, Quiet, Charged, Settled

\* A receipt is charged within the budget.
LEMMA ReceiptIsCharged ==
  ASSUME NEW rec \in JobRecord, NEW ok \in BOOLEAN, NEW n \in 1..WebhookAttempts,
         Charged(rec), ~Settled(rec)
  PROVE  /\ Charged(Receipt(rec, ok, n))
         /\ Receipt(rec, ok, n).hook # "none"
         /\ n <= Receipt(rec, ok, n).tries
         /\ rec.tries + n <= Receipt(rec, ok, n).tries
<1> DEFINE total == rec.tries + (IF ok THEN n ELSE WebhookAttempts)
           hook == IF ok THEN "delivered"
                   ELSE IF total >= MaxTotalAttempts THEN "dead_lettered"
                   ELSE "failed"
           new == Receipt(rec, ok, n)
<1>1. rec.tries \in Nat /\ rec.tries < MaxTotalAttempts
  BY DEF JobRecord, Hooks, Charged, Settled
<1>2. /\ total \in Nat /\ n <= total /\ rec.tries + n <= total /\ total <= Budget
      /\ hook = "failed" => total < MaxTotalAttempts
      /\ hook # "none"
  BY <1>1, WebhookAssumption DEF Budget
<1>3. new = [rec EXCEPT !.tries = total, !.hook = hook]
  BY DEF Receipt
<1> HIDE DEF total, hook, new
<1>4. new.tries = total /\ new.hook = hook
  BY <1>3 DEF JobRecord
<1> QED BY <1>2, <1>4 DEF Charged, new
\* Beginning a notification about a job that the step ends.
LEMMA BegunIsSound ==
  ASSUME TypeOK, NEW j \in Jobs, NEW t \in {Runner(j), Watcher(j)}, BeginNotify(t, j),
         Terminal(j)', sub'[j] = "answered"
  PROVE  /\ NoteIsSound(t)'
         /\ \A s \in Threads : s # t => note'[s] = note[s]
<1>1. /\ note'[t] = [pc |-> "read", job |-> j, snap |-> Absent]
      /\ \A s \in Threads : s # t => note'[s] = note[s]
  BY ThreadNames DEF BeginNotify, Step, TypeOK, HookTypeOK
<1> QED BY <1>1, ThreadKinds, ThreadNames, AbsentIsCharged DEF NoteIsSound, Charged

\* What the maintenance pass takes up.
LEMMA TakenUpIsSound ==
  ASSUME TypeOK, NEW pc \in {"put", "read"}, NEW j \in Jobs, NEW rec \in JobRecord,
         Charged(rec), Step(Maint, pc, j, rec)
  PROVE  /\ NoteIsSound(Maint)'
         /\ \A s \in Threads : s # Maint => note'[s] = note[s]
<1>1. /\ note'[Maint] = [pc |-> pc, job |-> j, snap |-> rec]
      /\ \A s \in Threads : s # Maint => note'[s] = note[s]
  BY ThreadNames DEF Step, TypeOK, HookTypeOK
<1> QED BY <1>1, ThreadNames DEF NoteIsSound, Charged

LEMMA NotifyIsSound ==
  ASSUME WebhookInv, [Next]_vars, NEW t \in Threads, Notify(t), NoteIsSound(t),
         UNCHANGED sub
  PROVE  /\ NoteIsSound(t)'
         /\ \A s \in Threads : s # t => note'[s] = note[s]
<1> USE DEF WebhookInv, IInv
<1> DEFINE j == note[t].job
           rec == note[t].snap
<1>0. j \in Jobs /\ rec \in JobRecord /\ jobs[j] \in JobRecord
  BY BusyNote DEF Notify, NotifySkip, NotifyRead, NotifySend, NotifyWrite, Quiet,
     TypeOK, HookTypeOK, StoreTypeOK
<1>1. CASE NotifySkip(t) \/ NotifyWrite(t)
  <2>1. note'[t] = IdleNote /\ \A s \in Threads : s # t => note'[s] = note[s]
    BY <1>1 DEF NotifySkip, NotifyWrite, EndNotify, TypeOK, HookTypeOK
  <2> QED BY <2>1, IdleIsSound
<1>2. CASE NotifyRead(t)
  <2>1. /\ note'[t] = [pc |-> "send", job |-> j, snap |-> jobs[j]]
        /\ \A s \in Threads : s # t => note'[s] = note[s]
        /\ UNCHANGED jobs
        /\ ~Settled(jobs[j]) /\ ~Quiet(t)
    BY <1>2 DEF NotifyRead, Step, TypeOK, HookTypeOK, storeVars, Quiet
  <2>2. Terminal(j) /\ Charged(jobs[j])
    BY <1>0, <1>2 DEF NotifyRead, CopiesAreHarmless, NotifiesTerminal, ReceiptsAreCharged
  <2> QED BY <1>0, <2>1, <2>2 DEF NoteIsSound, Terminal, Charged, Settled
<1>3. CASE NotifySend(t)
  <2>1. PICK n \in 1..WebhookAttempts, ok \in BOOLEAN :
          Step(t, "write", j, Receipt(rec, ok, n))
    BY <1>3 DEF NotifySend
  <2> DEFINE new == Receipt(rec, ok, n)
  <2>2. /\ note'[t] = [pc |-> "write", job |-> j, snap |-> new]
        /\ \A s \in Threads : s # t => note'[s] = note[s]
        /\ UNCHANGED jobs
        /\ ~Quiet(t)
    BY <1>3, <2>1 DEF NotifySend, Step, TypeOK, HookTypeOK, storeVars, Quiet
  <2>3. Charged(new) /\ new.hook # "none"
    BY <1>0, <1>3, ReceiptIsCharged DEF NotifySend, NoteIsSound
  <2> HIDE DEF new
  <2> QED BY <1>0, <1>3, <2>2, <2>3 DEF NoteIsSound, NotifySend, Terminal, Charged
<1> QED BY <1>1, <1>2, <1>3 DEF Notify

LEMMA NotesStep ==
  ASSUME WebhookInv, [Next]_vars
  PROVE  \A t \in Threads : NoteIsSound(t)'
<1> SUFFICES ASSUME NEW t \in Threads
             PROVE  NoteIsSound(t)'
  OBVIOUS
<1>0. /\ TypeOK /\ IInv /\ TypeOK' /\ IInv'
      /\ \A s \in Threads : NoteIsSound(s)
  BY InvariantStep, SoundNotes DEF WebhookInv, IInv, ReceiptsAreCharged
<1>1. note'[t] = note[t] => NoteIsSound(t)'
  BY <1>0, KeptIsSound
<1>2. ASSUME NEW j \in Jobs, Ends(j)
      PROVE  NoteIsSound(t)'
  <2>1. PICK s \in {Runner(j), Watcher(j)} : BeginNotify(s, j)
    BY <1>2 DEF Ends
  <2>2. Terminal(j)'
    BY <1>0, <1>2, FailKeepsReceipt DEF Ends, Terminal
  <2>3. sub'[j] = "answered"
    BY <1>2 DEF Ends, WebhookInv, PoolIsAnswered
  <2> QED BY <1>0, <1>1, <2>1, <2>2, <2>3, BegunIsSound
<1>3. ASSUME NEW j \in Jobs, RunnerPublish(j)
      PROVE  NoteIsSound(t)'
  <2>1. BeginNotify(Runner(j), j) /\ run[j] # "none"
    BY <1>3 DEF RunnerPublish
  <2>2. Terminal(j)'
    BY <1>0, <1>3 DEF RunnerPublish, CloseCommit, Put, Terminal, TypeOK, StoreTypeOK,
       JobRecord
  <2>3. sub'[j] = "answered"
    BY <1>0, <2>1, AnsweredStays DEF WebhookInv, PoolIsAnswered
  <2> QED BY <1>0, <1>1, <2>1, <2>2, <2>3, BegunIsSound
<1>4. ASSUME NEW j \in Jobs, MarkRead(j)
      PROVE  NoteIsSound(t)'
  <2> DEFINE rec == FailedAs(jobs[j], "interrupted")
  <2>1. jobs[j] \in JobRecord /\ Charged(jobs[j])
    BY <1>0 DEF TypeOK, StoreTypeOK, WebhookInv, ReceiptsAreCharged
  <2>2. rec \in JobRecord
    BY <2>1, FailedIsRecord DEF Stages
  <2>3. Charged(rec)
    BY <2>1 DEF FailedAs, Charged, JobRecord
  <2>4. Step(Maint, "put", j, rec)
    BY <1>4 DEF MarkRead
  <2> HIDE DEF rec
  <2> QED BY <1>0, <1>1, <2>2, <2>3, <2>4, TakenUpIsSound
<1>5. ASSUME NEW j \in Jobs, BeginNotify(Maint, j)
      PROVE  NoteIsSound(t)'
  BY <1>0, <1>1, <1>5, TakenUpIsSound, AbsentIsRecord, AbsentIsCharged DEF BeginNotify
<1>6. CASE MarkWrite
  <2>1. note[Maint].job \in Jobs
    BY <1>0, <1>6, BusyNote, ThreadNames DEF MarkWrite, Quiet, TypeOK, HookTypeOK
  <2> QED BY <1>5, <1>6, <2>1 DEF MarkWrite
<1>7. ASSUME NEW s \in Threads, NotifyRaises(s)
      PROVE  NoteIsSound(t)'
  <2>1. note'[t] = note[t] \/ note'[t] = IdleNote
    BY <1>0, <1>7 DEF NotifyRaises, EndNotify, TypeOK, HookTypeOK
  <2> QED BY <1>1, <2>1, IdleIsSound
<1>8. CASE Crash
  BY <1>8, IdleIsSound DEF Crash
<1>9. CASE UNCHANGED note
  BY <1>1, <1>9
<1>10. ASSUME NEW s \in Threads, Notify(s), UNCHANGED sub
       PROVE  NoteIsSound(t)'
  BY <1>0, <1>1, <1>10, NotifyIsSound
<1>11. CASE Maintains
  BY <1>4, <1>5, <1>6, <1>9, <1>11 DEF Maintains, PurgeJobs, RetryNotify, hookVars
<1>12. ASSUME NEW j \in Jobs, NEW k \in Keys \cup {NoKey}, NEW r \in Requests,
              PostCreate(j, k, r)
       PROVE  NoteIsSound(t)'
  BY <1>9, <1>12 DEF PostCreate, hookVars
<1>13. ASSUME NEW j \in Jobs,
              PostReject(j) \/ Rewrites(j) \/ RunnerCommit(j) \/ CommitRaises(j)
       PROVE  NoteIsSound(t)'
  BY <1>9, <1>13 DEF PostReject, Rewrites, RunnerCommit, CommitRaises, hookVars
<1> QED BY <1>0, <1>2, <1>3, <1>7, <1>8, <1>9, <1>10, <1>11, <1>12, <1>13, NextKinds
        DEF Kinds, Still
-----------------------------------------------------------------------------
(* Who begins a notification, and about what. *)

LEMMA PublishedWasRunning ==
  ASSUME WebhookInv, NEW j \in Jobs, RunnerPublish(j)
  PROVE  ~Terminal(j) /\ lock.job = j /\ posts[j] = 0
BY DEF RunnerPublish, CloseCommit, WebhookInv, CommitIsOpen, NothingIsEarly, Terminal,
   Exists

\* A quiet thread of the pool begins only with a job that had not ended.
LEMMA WakeStep ==
  ASSUME WebhookInv, [Next]_vars, NEW t \in Threads, t # Maint, Quiet(t), ~Quiet(t)'
  PROVE  \E j \in Jobs : /\ t \in {Runner(j), Watcher(j)}
                         /\ ~Terminal(j) /\ posts[j] = 0 /\ note'[t].pc = "read"
                         /\ \A s \in Threads : s # t => note'[s] = note[s]
<1> USE DEF Quiet
<1>0. TypeOK
  BY DEF WebhookInv, IInv
<1>1. ASSUME NEW j \in Jobs, NEW s \in {Runner(j), Watcher(j)}, BeginNotify(s, j),
             ~Terminal(j), posts[j] = 0
      PROVE  s = t /\ note'[t].pc = "read" /\ \A u \in Threads : u # t => note'[u] = note[u]
  BY <1>0, <1>1, ThreadNames DEF BeginNotify, Step, TypeOK, HookTypeOK
<1>2. ASSUME NEW j \in Jobs, Ends(j)
      PROVE  \E s \in {Runner(j), Watcher(j)} : 
               BeginNotify(s, j) /\ ~Terminal(j) /\ posts[j] = 0
  BY <1>0, <1>2, FailKeepsReceipt DEF Ends, Active, Terminal, WebhookInv, NothingIsEarly
<1>3. ASSUME NEW j \in Jobs, RunnerPublish(j)
      PROVE  BeginNotify(Runner(j), j) /\ ~Terminal(j) /\ posts[j] = 0
  BY <1>3, PublishedWasRunning DEF RunnerPublish
<1>4. ASSUME NEW s \in Threads, Notify(s)
      PROVE  FALSE
  BY <1>0, <1>4 DEF Notify, NotifySkip, NotifyRead, NotifySend, NotifyWrite, EndNotify,
     Step, IdleNote, TypeOK, HookTypeOK
<1>5. ASSUME NEW s \in Threads, NotifyRaises(s)
      PROVE  FALSE
  BY <1>0, <1>5 DEF NotifyRaises, EndNotify, IdleNote, TypeOK, HookTypeOK
<1>6. ~Maintains
  BY <1>0, ThreadNames DEF Maintains, PurgeJobs, MarkWrite, MarkRead, RetryNotify,
     BeginNotify, Step, hookVars, TypeOK, HookTypeOK
<1>7. ~Crash
  BY DEF Crash, IdleNote
<1>8. UNCHANGED note => FALSE
  OBVIOUS
<1>9. ASSUME NEW j \in Jobs, NEW k \in Keys \cup {NoKey}, NEW r \in Requests,
             PostCreate(j, k, r)
      PROVE  FALSE
  BY <1>8, <1>9 DEF PostCreate, hookVars
<1>10. ASSUME NEW j \in Jobs,
              PostReject(j) \/ Rewrites(j) \/ RunnerCommit(j) \/ CommitRaises(j)
       PROVE  FALSE
  BY <1>8, <1>10 DEF PostReject, Rewrites, RunnerCommit, CommitRaises, hookVars
<1>11. \E j \in Jobs : Ends(j) \/ RunnerPublish(j)
  <2>1. Kinds /\ ~Still
    BY <1>0, <1>8, NextKinds DEF Still
  <2> QED BY <1>4, <1>5, <1>6, <1>7, <1>9, <1>10, <2>1 DEF Kinds
<1> QED BY <1>1, <1>2, <1>3, <1>11

LEMMA OneNotifierStep ==
  ASSUME WebhookInv, [Next]_vars
  PROVE  OneNotifier'
<1> SUFFICES ASSUME NEW j \in Jobs, ~Quiet(Runner(j))', ~Quiet(Watcher(j))'
             PROVE  FALSE
  BY DEF OneNotifier
<1>1. ASSUME NEW t \in {Runner(j), Watcher(j)}, NEW s \in {Runner(j), Watcher(j)},
             s # t, Quiet(t)
      PROVE  FALSE
  <2>1. PICK i \in Jobs : /\ t \in {Runner(i), Watcher(i)}
                          /\ ~Terminal(i) /\ posts[i] = 0
                          /\ \A u \in Threads : u # t => note'[u] = note[u]
    BY <1>1, WakeStep, ThreadNames
  <2>2. i = j
    BY <2>1, ThreadKinds
  <2>3. ~Quiet(s)
    BY <1>1, <2>1, ThreadNames DEF Quiet
  <2> QED BY <2>1, <2>2, <2>3 DEF WebhookInv, PoolNotes
<1>2. Runner(j) # Watcher(j)
  BY ThreadKinds
<1> QED BY <1>1, <1>2 DEF WebhookInv, OneNotifier

LEMMA LockStep ==
  ASSUME IInv, [Next]_vars, NEW j \in Jobs, lock'.job = j
  PROVE  \/ /\ lock' = lock
            /\ jobs'[j] = jobs[j] \/ ~Exists(j)'
         \/ /\ jobs[j].status = "running" /\ lock'.rec = jobs[j]
            /\ UNCHANGED <<jobs, note, posts, sent, sub>> /\ NoFault
<1> USE StoreAssumption DEF IInv
<1>1. ASSUME NEW i \in Jobs, RunnerCommit(i), UNCHANGED sub, NoFault
      PROVE  /\ jobs[j].status = "running" /\ lock'.rec = jobs[j]
             /\ UNCHANGED <<jobs, note, posts, sent, sub>> /\ NoFault
  BY <1>1 DEF RunnerCommit, OpenCommit, hookVars
<1>2. ASSUME NEW i \in Jobs, RunnerPublish(i) \/ CommitRaises(i)
      PROVE  FALSE
  BY <1>2 DEF RunnerPublish, CloseCommit, CommitRaises, AbortCommit, Unlocked
<1>3. CASE Crash
  BY <1>3 DEF Crash, Unlocked
<1>4. ASSUME LockFree, UNCHANGED lock
      PROVE  FALSE
  BY <1>4 DEF LockFree
<1>5. ASSUME UNCHANGED <<lock, jobs>>
      PROVE  lock' = lock /\ jobs'[j] = jobs[j]
  BY <1>5
<1>6. ASSUME PurgeJobs
      PROVE  lock' = lock /\ (jobs'[j] = jobs[j] \/ ~Exists(j)')
  BY <1>6 DEF PurgeJobs, Exists, Absent
<1>7. ASSUME NEW i \in Jobs, NEW rec, WriteJob(i, rec)
      PROVE  FALSE
  BY <1>4, <1>7 DEF WriteJob
<1>8. ASSUME NEW i \in Jobs, NEW k \in Keys \cup {NoKey}, NEW r \in Requests,
             PostCreate(i, k, r)
      PROVE  FALSE
  BY <1>7, <1>8 DEF PostCreate, Create
<1>9. ASSUME NEW i \in Jobs, PostReject(i) \/ Rewrites(i) \/ Ends(i)
      PROVE  FALSE
  BY <1>7, <1>9 DEF PostReject, Rewrites, Ends, Fail
<1>10. ASSUME NEW t \in Threads, NotifyWrite(t) \/ (MarkWrite /\ t = Maint)
       PROVE  FALSE
  BY <1>4, <1>10 DEF NotifyWrite, MarkWrite, WriteJob
<1>11. ASSUME NEW t \in Threads, Notify(t)
       PROVE  lock' = lock /\ jobs'[j] = jobs[j]
  BY <1>5, <1>10, <1>11 DEF Notify, NotifySkip, NotifyRead, NotifySend, storeVars
<1>12. ASSUME NEW t \in Threads, NotifyRaises(t)
       PROVE  lock' = lock /\ jobs'[j] = jobs[j]
  BY <1>5, <1>12 DEF NotifyRaises, storeVars
<1>13. CASE Maintains
  BY <1>5, <1>6, <1>10, <1>13, ThreadNames DEF Maintains, MarkRead, RetryNotify, storeVars
<1>14. CASE Still
  BY <1>5, <1>14 DEF Still
<1> QED BY <1>1, <1>2, <1>3, <1>8, <1>9, <1>11, <1>12, <1>13, <1>14, NextKinds DEF Kinds

LEMMA CommitIsOpenStep ==
  ASSUME WebhookInv, [Next]_vars
  PROVE  CommitIsOpen'
BY LockStep DEF WebhookInv, CommitIsOpen, Exists

\* Posts are made by the send step of a notification, about a job that ended.
LEMMA PostStep ==
  ASSUME WebhookInv, [Next]_vars, NEW j \in Jobs
  PROVE  \/ posts'[j] = posts[j] /\ sent'[j] = sent[j]
         \/ \E t \in Threads : NotifySend(t) /\ note[t].job = j /\ UNCHANGED sub /\ NoFault
<1> USE DEF WebhookInv, IInv, TypeOK, HookTypeOK
<1>1. ASSUME NEW t \in Threads, NotifySend(t), note[t].job # j
      PROVE  posts'[j] = posts[j] /\ sent'[j] = sent[j]
  <2>1. note[t].job \in Jobs
    BY <1>1, BusyNote DEF NotifySend, Quiet
  <2> QED BY <1>1, <2>1 DEF NotifySend
<1>2. ASSUME NEW t \in Threads, Notify(t), UNCHANGED sub, NoFault
      PROVE  \/ posts'[j] = posts[j] /\ sent'[j] = sent[j]
             \/ \E s \in Threads : NotifySend(s) /\ note[s].job = j /\ UNCHANGED sub /\ NoFault
  BY <1>1, <1>2 DEF Notify, NotifySkip, NotifyRead, NotifyWrite
<1>3. ASSUME NEW i \in Jobs, NEW k \in Keys \cup {NoKey}, NEW r \in Requests,
             PostCreate(i, k, r)
      PROVE  UNCHANGED <<posts, sent>>
  BY <1>3 DEF PostCreate, hookVars
<1>4. ASSUME NEW i \in Jobs, \/ PostReject(i) \/ Rewrites(i) \/ Ends(i) \/ RunnerCommit(i)
                             \/ RunnerPublish(i) \/ CommitRaises(i)
      PROVE  UNCHANGED <<posts, sent>>
  BY <1>4 DEF PostReject, Rewrites, Ends, RunnerCommit, RunnerPublish, CommitRaises,
     hookVars
<1>5. ASSUME NEW t \in Threads, NotifyRaises(t)
      PROVE  UNCHANGED <<posts, sent>>
  BY <1>5 DEF NotifyRaises
<1>6. CASE Maintains \/ Crash \/ Still
  BY <1>6 DEF Maintains, PurgeJobs, MarkWrite, MarkRead, RetryNotify, Crash, Still,
     hookVars
<1> QED BY <1>2, <1>3, <1>4, <1>5, <1>6, NextKinds DEF Kinds

LEMMA SenderEnded ==
  ASSUME WebhookInv, NEW t \in Threads, note[t].pc \in {"send", "write"}
  PROVE  /\ note[t].job \in Jobs /\ Terminal(note[t].job)
         /\ lock.job # note[t].job /\ sub[note[t].job] # "none"
<1>1. note[t].job \in Jobs
  BY BusyNote DEF Quiet, WebhookInv, IInv, TypeOK, HookTypeOK
<1>2. Terminal(note[t].job)
  BY ThreadKinds DEF WebhookInv, PoolNotes, PassNotes, Quiet
<1> QED BY <1>1, <1>2 DEF WebhookInv, IInv, CopiesAreHarmless, FreshIds, CommitIsOpen,
           Terminal, Exists

LEMMA NothingIsEarlyStep ==
  ASSUME WebhookInv, [Next]_vars
  PROVE  NothingIsEarly'
<1> SUFFICES ASSUME NEW j \in Jobs, sub'[j] = "none" \/ Active(j)' \/ lock'.job = j
             PROVE  posts'[j] = 0 /\ sent'[j] = {}
  BY DEF NothingIsEarly
<1>0. IInv /\ TypeOK
  BY DEF WebhookInv, IInv
<1>1. sub'[j] = "none" => sub[j] = "none"
  BY <1>0, InvariantStep, NextKinds DEF Kinds, Still, Onward, PostCreate, PostReject,
     Rewrites, Ends, CommitRaises, NotifyRaises, Maintains, Crash, httpVars, TypeOK
<1>2. sub[j] = "none" \/ Active(j) \/ lock.job = j
  BY <1>0, <1>1, ActiveIsNew, LockStep DEF Active
<1>3. posts[j] = 0 /\ sent[j] = {}
  BY <1>2 DEF WebhookInv, NothingIsEarly
<1>4. ASSUME NEW t \in Threads, NotifySend(t), note[t].job = j
      PROVE  FALSE
  BY <1>2, <1>4, SenderEnded DEF NotifySend, Active, Terminal
<1> QED BY <1>3, <1>4, PostStep
-----------------------------------------------------------------------------
(* The counts. *)

LEMMA ReceiptsAreChargedStep ==
  ASSUME WebhookInv, [Next]_vars
  PROVE  ReceiptsAreCharged'
<1>0. /\ IInv /\ TypeOK /\ TypeOK'
      /\ \A j \in Jobs : Charged(jobs[j])
  BY InvariantStep DEF WebhookInv, IInv, ReceiptsAreCharged
<1>1. \A t \in Threads : Charged(note[t].snap)'
  BY NotesStep DEF NoteIsSound
<1>2. ASSUME NEW j \in Jobs
      PROVE  Charged(jobs[j])'
  <2>1. CASE IsPublished(j)
    <3>1. Charged(lock.rec)
      BY <2>1, StoreAssumption DEF IsPublished, WebhookInv, ReceiptsAreCharged
    <3> QED BY <2>1, <3>1 DEF IsPublished, Charged
  <2>2. CASE IsCreated(j) \/ IsRejected(j)
    BY <2>2, WebhookAssumption DEF IsCreated, IsRejected, Charged, Budget
  <2>3. CASE IsRewritten(j)
    BY <1>0, <2>3 DEF IsRewritten, Charged
  <2>4. CASE IsCopied(j)
    BY <2>4 DEF IsCopied, WebhookInv, ReceiptsAreCharged, Charged
  <2>5. CASE IsPurged(j)
    BY <2>5, AbsentIsCharged DEF IsPurged, Charged
  <2>6. CASE jobs'[j] = jobs[j]
    BY <1>0, <2>6 DEF Charged
  <2> QED BY <1>0, <2>1, <2>2, <2>3, <2>4, <2>5, <2>6, RecordStep DEF RecordMoves
<1>3. ASSUME lock'.job # NoJob
      PROVE  Charged(lock.rec)'
  <2>1. lock'.job \in Jobs
    BY <1>0, <1>3 DEF TypeOK, StoreTypeOK
  <2> QED BY <1>0, <1>3, <2>1, LockStep DEF WebhookInv, ReceiptsAreCharged, Charged
<1> QED BY <1>1, <1>2, <1>3 DEF ReceiptsAreCharged

IsNumbered(j) ==
  /\ posts[j] \in Nat /\ jobs[j].tries \in Nat /\ jobs[j].tries <= Budget
  /\ Allowance(j) \in Nat /\ Allowance(j) <= Budget
  /\ Unstored(j) \in Nat /\ Unstored(j) <= WebhookAttempts
  /\ CutOff \in Nat /\ Budget \in Nat

AreNumbered == \A j \in Jobs : IsNumbered(j)

LEMMA Numbers == TypeOK /\ ReceiptsAreCharged => AreNumbered
<1> SUFFICES ASSUME TypeOK, ReceiptsAreCharged, NEW j \in Jobs
             PROVE  IsNumbered(j)
  BY DEF AreNumbered
<1> USE WebhookAssumption DEF IsNumbered
<1>1. Budget \in Nat
  BY DEF Budget
<1>2. posts[j] \in Nat /\ jobs[j].tries \in Nat /\ jobs[j].tries <= Budget
  BY DEF TypeOK, HookTypeOK, StoreTypeOK, JobRecord, ReceiptsAreCharged, Charged
<1>3. \A t \in Threads : note[t].snap.tries <= Budget /\ note[t].snap.tries \in Nat
  <2> SUFFICES ASSUME NEW t \in Threads
               PROVE  note[t].snap.tries <= Budget /\ note[t].snap.tries \in Nat
    OBVIOUS
  <2>1. note[t] \in NoteState
    BY DEF TypeOK, HookTypeOK
  <2>2. note[t].snap \in JobRecord
    BY <2>1, AbsentIsRecord DEF NoteState, IdleNote
  <2> QED BY <2>2 DEF JobRecord, ReceiptsAreCharged, Charged
<1>4. Allowance(j) \in Nat /\ Allowance(j) <= Budget
  BY <1>1, <1>3, ThreadNames DEF Allowance
<1>5. Unstored(j) \in Nat /\ Unstored(j) <= WebhookAttempts
  BY DEF Unstored
<1>6. CutOff \in Nat
  <2>1. crashes + faults \in Nat
    BY DEF TypeOK
  <2> QED BY <2>1 DEF CutOff
<1> QED BY <1>1, <1>2, <1>4, <1>5, <1>6

LEMMA NumbersNext ==
  TypeOK' /\ ReceiptsAreCharged' => AreNumbered'
BY Numbers, PTL

LEMMA CutOffGrows ==
  ASSUME TypeOK, [Next]_vars
  PROVE  /\ CutOff' >= CutOff
         /\ (Crash \/ \E t \in Threads : NotifyRaises(t)) => CutOff' = CutOff + WebhookAttempts
<1> DEFINE cut == crashes + faults
<1>1. cut \in Nat
  BY DEF TypeOK
<1>2. cut' = cut \/ cut' = cut + 1
  BY NextKinds DEF Kinds, Still, PostCreate, PostReject, Rewrites, Ends, CommitRaises,
     NotifyRaises, Fault, Maintains, Crash, NoFault, envVars, TypeOK
<1>3. (Crash \/ \E t \in Threads : NotifyRaises(t)) => cut' = cut + 1
  BY DEF NotifyRaises, Fault, Crash, TypeOK
<1>4. WebhookAttempts * (cut + 1) = WebhookAttempts * cut + WebhookAttempts
  BY <1>1, WebhookAssumption
<1>5. WebhookAttempts * cut \in Nat
  BY <1>1, WebhookAssumption
<1>6. CutOff = WebhookAttempts * cut /\ CutOff' = WebhookAttempts * cut'
  BY DEF CutOff
<1> HIDE DEF cut
<1> QED BY <1>2, <1>3, <1>4, <1>5, <1>6, WebhookAssumption
\* A receipt on its way into the record only goes there, or is lost.
LEMMA ReceiptGoes ==
  ASSUME WebhookInv, [Next]_vars, NEW t \in Threads, t # Maint, note[t].pc = "write"
  PROVE  note'[t] = note[t] \/ note'[t] = IdleNote
<1>0. TypeOK /\ IInv
  BY DEF WebhookInv, IInv
<1>1. PICK j \in Jobs : t \in {Runner(j), Watcher(j)}
  BY ThreadKinds
<1>2. Terminal(j)
  BY <1>1 DEF WebhookInv, PoolNotes, Quiet
<1>3. ASSUME NEW i \in Jobs, NEW s \in {Runner(i), Watcher(i)}, BeginNotify(s, i),
             ~Terminal(i)
      PROVE  note'[t] = note[t]
  <2>1. s # t
    BY <1>1, <1>2, <1>3, ThreadKinds
  <2> QED BY <1>0, <1>3, <2>1 DEF BeginNotify, Step, TypeOK, HookTypeOK
<1>4. ASSUME NEW i \in Jobs, Ends(i)
      PROVE  note'[t] = note[t]
  <2>1. ~Terminal(i)
    BY <1>0, <1>4, FailKeepsReceipt DEF Ends, Active, Terminal
  <2> QED BY <1>3, <1>4, <2>1 DEF Ends
<1>5. ASSUME NEW i \in Jobs, RunnerPublish(i)
      PROVE  note'[t] = note[t]
  BY <1>3, <1>5, PublishedWasRunning DEF RunnerPublish
<1>6. ASSUME NEW s \in Threads, Notify(s) \/ NotifyRaises(s)
      PROVE  note'[t] = note[t] \/ note'[t] = IdleNote
  BY <1>0, <1>6 DEF Notify, NotifySkip, NotifyRead, NotifySend, NotifyWrite,
     NotifyRaises, EndNotify, Step, TypeOK, HookTypeOK
<1>7. CASE Maintains
  BY <1>0, <1>7 DEF Maintains, PurgeJobs, MarkWrite, MarkRead, RetryNotify,
     BeginNotify, Step, hookVars, TypeOK, HookTypeOK
<1>8. CASE Crash
  BY <1>8 DEF Crash
<1>9. CASE UNCHANGED note
  BY <1>9
<1>10. ASSUME NEW i \in Jobs, NEW k \in Keys \cup {NoKey}, NEW r \in Requests,
              PostCreate(i, k, r)
       PROVE  note'[t] = note[t]
  BY <1>10 DEF PostCreate, hookVars
<1>11. ASSUME NEW i \in Jobs,
              PostReject(i) \/ Rewrites(i) \/ RunnerCommit(i) \/ CommitRaises(i)
       PROVE  note'[t] = note[t]
  BY <1>11 DEF PostReject, Rewrites, RunnerCommit, CommitRaises, hookVars
<1> QED BY <1>0, <1>4, <1>5, <1>6, <1>7, <1>8, <1>9, <1>10, <1>11, NextKinds
        DEF Kinds, Still

\* The allowance is not spent twice.
LEMMA AllowanceGrows ==
  ASSUME WebhookInv, [Next]_vars, NEW j \in Jobs
  PROVE  posts[j] = 0 \/ Allowance(j) <= Allowance(j)'
<1>0. /\ TypeOK /\ TypeOK' /\ ReceiptsAreCharged /\ ReceiptsAreCharged'
  BY InvariantStep, ReceiptsAreChargedStep DEF WebhookInv, IInv
<1>1. /\ Allowance(j) \in Nat /\ Allowance(j)' \in Nat
      /\ Allowance(j) <= Budget /\ Budget \in Nat
  BY <1>0, Numbers, NumbersNext DEF AreNumbered, IsNumbered
<1>2. SUFFICES ASSUME posts[j] # 0, Allowance(j) # 0
               PROVE  Allowance(j) <= Allowance(j)'
  BY <1>1
<1> DEFINE r == Runner(j)
           w == Watcher(j)
<1>3. /\ r \in Threads /\ w \in Threads /\ r # Maint /\ w # Maint /\ r # w
      /\ note'[r].pc \in {"idle", "put", "read", "send", "write"}
      /\ note'[w].pc \in {"idle", "put", "read", "send", "write"}
  BY <1>0, ThreadNames, ThreadKinds DEF TypeOK, HookTypeOK, NoteState, IdleNote
<1>4. sub[j] = "answered" /\ sub'[j] = "answered"
  BY <1>0, <1>2, AnsweredStays DEF Allowance
<1>5. /\ note[r].pc \in {"idle", "write"} /\ note[w].pc \in {"idle", "write"}
      /\ note[r].pc = "idle" \/ note[w].pc = "idle"
  <2>1. /\ note[r].pc \in {"idle", "put", "read", "send", "write"}
        /\ note[w].pc \in {"idle", "put", "read", "send", "write"}
    BY <1>0, <1>3 DEF TypeOK, HookTypeOK, NoteState, IdleNote
  <2> QED BY <1>2, <2>1 DEF Allowance, WebhookInv, PoolNotes, OneNotifier, Quiet
<1>6. ASSUME NEW t \in {r, w}, note[t].pc = "idle"
      PROVE  note'[t].pc = "idle"
  <2>1. SUFFICES ASSUME ~Quiet(t)' PROVE FALSE
    BY DEF Quiet
  <2>2. PICK i \in Jobs : t \in {Runner(i), Watcher(i)} /\ posts[i] = 0
    BY <1>3, <1>6, <2>1, WakeStep DEF Quiet
  <2> QED BY <1>2, <2>2, ThreadKinds
<1>7. ASSUME NEW t \in {r, w}, note[t].pc = "write"
      PROVE  note'[t] = note[t] \/ note'[t].pc = "idle"
  BY <1>3, <1>7, ReceiptGoes DEF IdleNote
<1> HIDE DEF r, w
<1> QED BY <1>1, <1>3, <1>4, <1>5, <1>6, <1>7 DEF Allowance, r, w

\* What one step may do to the note of the maintenance pass.
PassMoves ==
  \/ note'[Maint] = note[Maint]
  \/ note'[Maint].pc = "read" /\ (note[Maint].pc = "idle" \/ MarkWrite)
  \/ note'[Maint] = IdleNote /\ (Crash \/ NotifyRaises(Maint) \/ NotifyWrite(Maint)
                                   \/ note[Maint].pc = "read")
  \/ \E j \in Jobs : Active(j) /\ note'[Maint].job = j /\ note[Maint].pc = "idle"
                       /\ note'[Maint].pc = "put"
  \/ NotifyRead(Maint) \/ NotifySend(Maint)

LEMMA PassStep ==
  ASSUME TypeOK, [Next]_vars
  PROVE  PassMoves
<1>1. ASSUME NEW j \in Jobs, NEW t \in {Runner(j), Watcher(j)}, BeginNotify(t, j)
      PROVE  note'[Maint] = note[Maint]
  BY <1>1, ThreadNames DEF BeginNotify, Step, TypeOK, HookTypeOK
<1>2. ASSUME NEW j \in Jobs, Ends(j) \/ RunnerPublish(j)
      PROVE  note'[Maint] = note[Maint]
  BY <1>1, <1>2 DEF Ends, RunnerPublish
<1>3. ASSUME NEW t \in Threads, Notify(t)
      PROVE  PassMoves
  BY <1>3, ThreadNames DEF Notify, NotifySkip, NotifyRead, NotifySend, NotifyWrite,
     EndNotify, Step, TypeOK, HookTypeOK, PassMoves
<1>4. ASSUME NEW t \in Threads, NotifyRaises(t)
      PROVE  PassMoves
  BY <1>4, ThreadNames DEF NotifyRaises, EndNotify, TypeOK, HookTypeOK, PassMoves
<1>5. CASE Maintains
  BY <1>5, ThreadNames DEF Maintains, PurgeJobs, MarkWrite, MarkRead, RetryNotify,
     AtLoop, Quiet, BeginNotify, Step, hookVars, TypeOK, HookTypeOK, PassMoves
<1>6. CASE Crash
  BY <1>6, ThreadNames DEF Crash, PassMoves
<1>7. CASE UNCHANGED note
  BY <1>7 DEF PassMoves
<1>8. ASSUME NEW i \in Jobs, NEW k \in Keys \cup {NoKey}, NEW r \in Requests,
              PostCreate(i, k, r)
       PROVE  UNCHANGED note
  BY <1>8 DEF PostCreate, hookVars
<1>9. ASSUME NEW i \in Jobs,
              PostReject(i) \/ Rewrites(i) \/ RunnerCommit(i) \/ CommitRaises(i)
       PROVE  UNCHANGED note
  BY <1>9 DEF PostReject, Rewrites, RunnerCommit, CommitRaises, hookVars
<1>10. CASE Still
  BY <1>7, <1>10 DEF Still
<1>11. CASE \E j \in Jobs : Ends(j) \/ RunnerPublish(j)
  BY <1>2, <1>11 DEF PassMoves
<1> QED BY <1>3, <1>4, <1>5, <1>6, <1>7, <1>8, <1>9, <1>10, <1>11, NextKinds DEF Kinds
\* The two counts of one job: by its record, and by the copy that the pass holds.
RecordCounts(j) ==
  Exists(j) => posts[j] <= jobs[j].tries + Allowance(j) + Unstored(j) + CutOff
CopyCounts(j) ==
  note[Maint].pc \in {"put", "send", "write"} /\ note[Maint].job = j
    => posts[j] <= note[Maint].snap.tries + Allowance(j) + CutOff

\* A batch is posted: it is charged to the copy, or to the allowance.
LEMMA BatchCounts ==
  ASSUME WebhookInv, [Next]_vars, NEW j \in Jobs, NEW t \in Threads,
         NotifySend(t), note[t].job = j, NoFault, UNCHANGED sub
  PROVE  RecordCounts(j)' /\ CopyCounts(j)'
<1>0. /\ TypeOK /\ TypeOK' /\ ReceiptsAreCharged /\ ReceiptsAreCharged'
      /\ AreNumbered /\ AreNumbered'
  BY InvariantStep, ReceiptsAreChargedStep, Numbers, NumbersNext DEF WebhookInv, IInv
<1> DEFINE rec == note[t].snap
<1>1. PICK n \in 1..WebhookAttempts, ok \in BOOLEAN :
        /\ Step(t, "write", j, Receipt(rec, ok, n))
        /\ posts' = [posts EXCEPT ![note[t].job] = @ + n]
  BY DEF NotifySend
<1> DEFINE new == Receipt(rec, ok, n)
<1>2. rec \in JobRecord /\ rec.tries \in Nat /\ Charged(rec) /\ ~Settled(rec)
      /\ note[t].pc = "send"
  BY <1>0, BusyNote DEF NotifySend, Quiet, TypeOK, HookTypeOK, JobRecord, WebhookInv,
     ReceiptsAreCharged, BatchHasReceipt
<1>3. /\ n <= new.tries /\ rec.tries + n <= new.tries /\ new.tries \in Nat
      /\ n \in Nat /\ n <= WebhookAttempts
  <2>1. n <= new.tries /\ rec.tries + n <= new.tries
    BY <1>2, ReceiptIsCharged
  <2>2. new \in JobRecord
    BY <1>2, ReceiptIsRecord
  <2>3. n \in Nat /\ n <= WebhookAttempts
    BY WebhookAssumption
  <2> HIDE DEF new
  <2> QED BY <2>1, <2>2, <2>3 DEF JobRecord
<1>4. /\ note'[t] = [pc |-> "write", job |-> j, snap |-> new]
      /\ \A s \in Threads : s # t => note'[s] = note[s]
      /\ posts'[j] = posts[j] + n /\ UNCHANGED <<jobs, sub>> /\ CutOff' = CutOff
  BY <1>0, <1>1 DEF NotifySend, Step, TypeOK, HookTypeOK, storeVars, CutOff, NoFault
<1> HIDE DEF new
<1>5. /\ posts[j] \in Nat /\ jobs[j].tries \in Nat /\ Allowance(j) \in Nat
      /\ Allowance(j)' \in Nat /\ Unstored(j) \in Nat /\ CutOff \in Nat
  BY <1>0 DEF AreNumbered, IsNumbered
<1>6. RecordCounts(j) /\ CopyCounts(j)
  BY DEF WebhookInv, PostsAreCounted, RecordCounts, CopyCounts
<1>7. CASE t = Maint
  <2>1. Allowance(j)' = Allowance(j)
    BY <1>4, <1>7, ThreadNames DEF Allowance
  <2>2. Unstored(j)' = WebhookAttempts /\ Unstored(j) = 0
    BY <1>2, <1>4, <1>7 DEF Unstored
  <2>3. CopyCounts(j)'
    <3>1. posts[j] <= rec.tries + Allowance(j) + CutOff
      BY <1>2, <1>6, <1>7 DEF CopyCounts
    <3> QED BY <1>2, <1>3, <1>4, <1>5, <1>7, <2>1, <3>1 DEF CopyCounts
  <2>4. RecordCounts(j)'
    <3>1. SUFFICES ASSUME Exists(j)
                   PROVE  posts'[j] <= jobs[j].tries + Allowance(j) + WebhookAttempts + CutOff
      BY <1>4, <2>1, <2>2 DEF RecordCounts, Exists
    <3>2. posts[j] <= jobs[j].tries + Allowance(j) + 0 + CutOff
      BY <1>6, <2>2, <3>1 DEF RecordCounts
    <3> QED BY <1>3, <1>4, <1>5, <3>2, WebhookAssumption
  <2> QED BY <2>3, <2>4
<1>8. CASE t # Maint
  <2>1. t \in {Runner(j), Watcher(j)} /\ sub[j] = "answered"
    BY <1>2, <1>8, ThreadKinds DEF WebhookInv, PoolNotes, Quiet
  <2>2. Allowance(j) = 0
    BY <1>2, <2>1 DEF Allowance
  <2>3. Allowance(j)' = new.tries
    <3>1. note[Runner(j)].pc = "idle" \/ note[Watcher(j)].pc = "idle"
      BY DEF WebhookInv, OneNotifier, Quiet
    <3> QED BY <1>2, <1>4, <2>1, <3>1, ThreadNames, ThreadKinds DEF Allowance
  <2>4. note'[Maint] = note[Maint] /\ Unstored(j)' = Unstored(j)
    BY <1>4, <1>8, ThreadNames DEF Unstored
  <2>5. RecordCounts(j)'
    BY <1>3, <1>4, <1>5, <1>6, <2>2, <2>3, <2>4 DEF RecordCounts, Exists
  <2>6. CopyCounts(j)'
    <3>1. note[Maint].pc \in {"put", "send", "write"} => note[Maint].snap.tries \in Nat
      BY <1>0, BusyNote, ThreadNames DEF Quiet, TypeOK, HookTypeOK, JobRecord
    <3> QED BY <1>3, <1>4, <1>5, <1>6, <2>2, <2>3, <2>4, <3>1 DEF CopyCounts
  <2> QED BY <2>5, <2>6
<1> QED BY <1>7, <1>8

\* No batch about the job is posted.  The pass takes a copy of the record as it
\* is counted; else the copy and the allowance stay.
LEMMA CopyCountsStep ==
  ASSUME WebhookInv, [Next]_vars, NEW j \in Jobs, posts'[j] = posts[j], posts[j] # 0
  PROVE  CopyCounts(j)'
<1>0. /\ TypeOK /\ TypeOK' /\ AreNumbered /\ AreNumbered'
  BY InvariantStep, ReceiptsAreChargedStep, Numbers, NumbersNext DEF WebhookInv, IInv
<1>1. /\ posts[j] \in Nat /\ jobs[j].tries \in Nat /\ Allowance(j) \in Nat
      /\ Allowance(j)' \in Nat /\ CutOff \in Nat /\ CutOff' \in Nat
      /\ Allowance(j) <= Allowance(j)' /\ CutOff <= CutOff'
  BY <1>0, AllowanceGrows, CutOffGrows DEF AreNumbered, IsNumbered
<1>2. RecordCounts(j) /\ CopyCounts(j)
  BY DEF WebhookInv, PostsAreCounted, RecordCounts, CopyCounts
<1>3. SUFFICES ASSUME note'[Maint].pc \in {"put", "send", "write"}, note'[Maint].job = j
               PROVE  posts[j] <= note'[Maint].snap.tries + Allowance(j)' + CutOff'
  BY DEF CopyCounts
<1>4. CASE note'[Maint] = note[Maint]
  <2>1. note[Maint].snap.tries \in Nat
    BY <1>0, <1>3, <1>4, BusyNote, ThreadNames DEF Quiet, TypeOK, HookTypeOK, JobRecord
  <2>2. posts[j] <= note[Maint].snap.tries + Allowance(j) + CutOff
    BY <1>2, <1>3, <1>4 DEF CopyCounts
  <2> QED BY <1>1, <1>4, <2>1, <2>2
<1>5. CASE NotifyRead(Maint)
  <2>1. /\ note[Maint].pc = "read" /\ Exists(note[Maint].job)
        /\ note'[Maint] = [pc |-> "send", job |-> note[Maint].job,
                           snap |-> jobs[note[Maint].job]]
    BY <1>0, <1>5, ThreadNames DEF NotifyRead, Step, TypeOK, HookTypeOK
  <2>2. posts[j] <= jobs[j].tries + Allowance(j) + 0 + CutOff
    BY <1>2, <1>3, <2>1 DEF RecordCounts, Unstored
  <2> QED BY <1>1, <1>3, <2>1, <2>2
<1>6. CASE NotifySend(Maint)
  <2>1. posts'[j] # posts[j]
    <3>1. PICK n \in 1..WebhookAttempts, ok \in BOOLEAN :
            /\ Step(Maint, "write", note[Maint].job, Receipt(note[Maint].snap, ok, n))
            /\ posts' = [posts EXCEPT ![note[Maint].job] = @ + n]
      BY <1>6 DEF NotifySend
    <3>2. note'[Maint].job = note[Maint].job
      BY <1>0, <3>1, ThreadNames DEF Step, TypeOK, HookTypeOK
    <3>3. posts'[j] = posts[j] + n /\ n \in Nat /\ n # 0
      BY <1>0, <1>3, <3>1, <3>2, WebhookAssumption DEF TypeOK, HookTypeOK
    <3> QED BY <1>1, <3>3
  <2> QED BY <2>1
<1>7. ~Active(j)
  BY DEF WebhookInv, NothingIsEarly
<1> QED BY <1>0, <1>3, <1>4, <1>5, <1>6, <1>7, PassStep DEF PassMoves, IdleNote

LEMMA RecordCountsStep ==
  ASSUME WebhookInv, [Next]_vars, NEW j \in Jobs, posts'[j] = posts[j], posts[j] # 0
  PROVE  RecordCounts(j)'
<1>0. /\ TypeOK /\ TypeOK' /\ IInv /\ AreNumbered /\ AreNumbered'
  BY InvariantStep, ReceiptsAreChargedStep, Numbers, NumbersNext DEF WebhookInv, IInv
<1>1. /\ posts[j] \in Nat /\ jobs[j].tries \in Nat /\ jobs'[j].tries \in Nat
      /\ Allowance(j) \in Nat /\ Allowance(j)' \in Nat
      /\ Unstored(j) \in Nat /\ Unstored(j)' \in Nat /\ Unstored(j) <= WebhookAttempts
      /\ CutOff \in Nat /\ CutOff' \in Nat /\ Budget \in Nat
      /\ Allowance(j) <= Allowance(j)' /\ CutOff <= CutOff' /\ jobs[j].tries <= Budget
  BY <1>0, AllowanceGrows, CutOffGrows DEF AreNumbered, IsNumbered
<1>2. RecordCounts(j) /\ CopyCounts(j)
  BY DEF WebhookInv, PostsAreCounted, RecordCounts, CopyCounts
<1>3. SUFFICES ASSUME Exists(j)'
               PROVE  posts[j] <= jobs'[j].tries + Allowance(j)' + Unstored(j)' + CutOff'
  BY DEF RecordCounts
<1>4. /\ ~Active(j) /\ lock.job # j /\ sub[j] # "none"
  BY DEF WebhookInv, NothingIsEarly
\* The pass stores its copy.
<1>5. CASE (NotifyWrite(Maint) \/ MarkWrite) /\ note[Maint].job = j
  <2>1. jobs'[j] = note[Maint].snap
    BY <1>0, <1>5, ThreadNames DEF NotifyWrite, MarkWrite, WriteJob, Put, TypeOK,
       StoreTypeOK
  <2>2. posts[j] <= note[Maint].snap.tries + Allowance(j) + CutOff
    BY <1>2, <1>5, ThreadNames DEF CopyCounts, NotifyWrite, MarkWrite
  <2> QED BY <1>1, <2>1, <2>2
<1>6. ASSUME ~((NotifyWrite(Maint) \/ MarkWrite) /\ note[Maint].job = j)
      PROVE  Unstored(j) + CutOff <= Unstored(j)' + CutOff'
  <2>1. CASE Crash \/ NotifyRaises(Maint)
    BY <1>0, <1>1, <2>1, CutOffGrows, ThreadNames, WebhookAssumption
  <2>2. CASE ~(Crash \/ NotifyRaises(Maint)) /\ note[Maint].pc = "write"
                 /\ note[Maint].job = j
    <3>1. note'[Maint] = note[Maint]
      BY <1>0, <1>6, <2>2, PassStep DEF PassMoves, NotifyRead, NotifySend, MarkWrite
    <3> QED BY <1>1, <3>1 DEF Unstored
  <2>3. CASE ~(note[Maint].pc = "write" /\ note[Maint].job = j)
    BY <1>1, <2>3 DEF Unstored
  <2> QED BY <2>1, <2>2, <2>3
<1>7. CASE jobs'[j] = jobs[j] /\ ~((NotifyWrite(Maint) \/ MarkWrite) /\ note[Maint].job = j)
  <2>1. posts[j] <= jobs[j].tries + Allowance(j) + Unstored(j) + CutOff
    BY <1>2, <1>3, <1>7 DEF RecordCounts, Exists
  <2> QED BY <1>1, <1>6, <1>7, <2>1
\* The handler stores the record it made: the count of the pass is lost.
<1>8. CASE IsRejected(j)
  <2>1. /\ sub[j] = "refused" /\ sub'[j] = "answered" /\ Exists(j) /\ jobs'[j].tries = 0
        /\ UNCHANGED <<note, crashes, faults>>
    BY <1>0, <1>8 DEF IsRejected, PostReject, TypeOK, hookVars, envVars
  <2>2. Allowance(j) = 0
    BY <2>1 DEF Allowance
  <2>3. Allowance(j)' = Budget
    <3>1. /\ note[Runner(j)].pc = "idle" /\ note[Watcher(j)].pc = "idle"
      BY <2>1 DEF WebhookInv, PoolNotes, Quiet
    <3> QED BY <2>1, <3>1 DEF Allowance
  <2>4. Unstored(j)' = Unstored(j) /\ CutOff' = CutOff
    BY <2>1 DEF Unstored, CutOff
  <2>5. posts[j] <= jobs[j].tries + 0 + Unstored(j) + CutOff
    BY <1>2, <2>1, <2>2 DEF RecordCounts
  <2> QED BY <1>1, <2>1, <2>3, <2>4, <2>5
\* A runner or a watcher stores its copy: the count of the pass is lost.
<1>9. ASSUME NEW t \in Threads, t # Maint, NotifyWrite(t), note[t].job = j,
             jobs'[j] = note[t].snap, Exists(j), UNCHANGED sub
      PROVE  RecordCounts(j)'
  <2>1. t \in {Runner(j), Watcher(j)} /\ sub[j] = "answered" /\ note[t].pc = "write"
    BY <1>9, ThreadKinds DEF WebhookInv, PoolNotes, Quiet, NotifyWrite
  <2>2. note'[t].pc = "idle" /\ \A s \in Threads : s # t => note'[s] = note[s]
    BY <1>0, <1>9 DEF NotifyWrite, EndNotify, IdleNote, TypeOK, HookTypeOK
  <2>3. \A s \in {Runner(j), Watcher(j)} : s # t => note[s].pc = "idle"
    BY <2>1 DEF WebhookInv, OneNotifier, Quiet
  <2>4. Allowance(j) = note[t].snap.tries
    BY <2>1, <2>3, ThreadKinds DEF Allowance
  <2>5. Allowance(j)' = Budget
    BY <1>9, <2>1, <2>2, <2>3, ThreadKinds, ThreadNames DEF Allowance
  <2>6. Unstored(j)' = Unstored(j)
    BY <1>9, <2>2, ThreadNames DEF Unstored
  <2>7. posts[j] <= jobs[j].tries + Allowance(j) + Unstored(j) + CutOff
    BY <1>2, <1>9 DEF RecordCounts
  <2> QED BY <1>1, <1>9, <2>4, <2>5, <2>6, <2>7 DEF RecordCounts
<1> QED BY <1>0, <1>3, <1>4, <1>5, <1>7, <1>8, <1>9, RecordStep
        DEF RecordMoves, IsPurged, IsCreated, IsPublished, IsRewritten, IsCopied, Exists,
            Absent, RecordCounts
LEMMA PostsAreCountedStep ==
  ASSUME WebhookInv, [Next]_vars
  PROVE  PostsAreCounted'
<1>0. AreNumbered /\ AreNumbered' /\ TypeOK'
  BY InvariantStep, ReceiptsAreChargedStep, Numbers, NumbersNext DEF WebhookInv, IInv
<1>1. ASSUME NEW j \in Jobs
      PROVE  RecordCounts(j)' /\ CopyCounts(j)'
  <2>1. CASE posts'[j] = posts[j] /\ posts[j] # 0
    BY <2>1, CopyCountsStep, RecordCountsStep
  <2>2. CASE posts'[j] = 0
    <3>1. /\ jobs'[j].tries \in Nat /\ Allowance(j)' \in Nat /\ Unstored(j)' \in Nat
          /\ CutOff' \in Nat
      BY <1>0 DEF AreNumbered, IsNumbered
    <3>2. RecordCounts(j)'
      BY <2>2, <3>1 DEF RecordCounts
    <3>3. note'[Maint].pc \in {"put", "send", "write"} => note'[Maint].snap.tries \in Nat
      <4>1. note'[Maint].pc # "idle" => note'[Maint].snap \in JobRecord
        BY <1>0, ThreadNames DEF TypeOK, HookTypeOK, NoteState, IdleNote
      <4> QED BY <4>1 DEF JobRecord
    <3>4. CopyCounts(j)'
      BY <2>2, <3>1, <3>3 DEF CopyCounts
    <3> QED BY <3>2, <3>4
  <2>3. CASE \E t \in Threads : NotifySend(t) /\ note[t].job = j /\ UNCHANGED sub /\ NoFault
    BY <2>3, BatchCounts
  <2> QED BY <2>1, <2>2, <2>3, PostStep
<1> QED BY <1>1 DEF PostsAreCounted, RecordCounts, CopyCounts

\* The bound is looked at when a batch is posted, while the record is there.
LEMMA PostsAreBoundedStep ==
  ASSUME WebhookInv, [Next]_vars
  PROVE  PostsAreBounded'
<1>0. /\ TypeOK /\ TypeOK' /\ ReceiptsAreCharged' /\ AreNumbered /\ AreNumbered'
  BY InvariantStep, ReceiptsAreChargedStep, Numbers, NumbersNext DEF WebhookInv, IInv
<1> SUFFICES ASSUME NEW j \in Jobs
             PROVE  posts'[j] <= 2 * Budget + CutOff'
  BY DEF PostsAreBounded, CutOff, Budget
<1>1. /\ posts[j] \in Nat /\ posts'[j] \in Nat /\ Budget \in Nat /\ jobs'[j].tries \in Nat
      /\ jobs'[j].tries <= Budget /\ Allowance(j)' \in Nat /\ Allowance(j)' <= Budget
      /\ Unstored(j)' \in Nat /\ CutOff \in Nat /\ CutOff' \in Nat /\ CutOff <= CutOff'
  <2>1. Budget' = Budget
    BY DEF Budget
  <2> QED BY <1>0, <2>1, CutOffGrows DEF AreNumbered, IsNumbered
<1>2. CASE posts'[j] = posts[j]
  <2>1. posts[j] <= 2 * Budget + CutOff
    BY DEF WebhookInv, PostsAreBounded, CutOff
  <2> QED BY <1>1, <1>2, <2>1
<1>3. ASSUME NEW t \in Threads, NotifySend(t), note[t].job = j
      PROVE  posts'[j] <= 2 * Budget + CutOff'
  <2>1. Exists(j)'
    BY <1>3, SenderEnded DEF NotifySend, Terminal, Exists, storeVars
  <2>2. RecordCounts(j)' /\ CopyCounts(j)'
    BY PostsAreCountedStep DEF PostsAreCounted, RecordCounts, CopyCounts
  <2>3. CASE note'[Maint].pc = "write" /\ note'[Maint].job = j
    <3>1. posts'[j] <= note'[Maint].snap.tries + Allowance(j)' + CutOff'
      BY <2>2, <2>3 DEF CopyCounts
    <3>2. note'[Maint].snap \in JobRecord
      BY <1>0, <2>3, ThreadNames DEF TypeOK, HookTypeOK, NoteState, IdleNote
    <3>3. note'[Maint].snap.tries \in Nat
      BY <3>2 DEF JobRecord
    <3>4. note'[Maint].snap.tries <= Budget
      BY <1>0, ThreadNames DEF ReceiptsAreCharged, Charged, Budget
    <3> QED BY <1>1, <3>1, <3>3, <3>4
  <2>4. CASE ~(note'[Maint].pc = "write" /\ note'[Maint].job = j)
    <3>1. Unstored(j)' = 0
      BY <2>4 DEF Unstored
    <3>2. posts'[j] <= jobs'[j].tries + Allowance(j)' + 0 + CutOff'
      BY <2>1, <2>2, <3>1 DEF RecordCounts
    <3> QED BY <1>1, <3>2
  <2> QED BY <2>3, <2>4
<1> QED BY <1>2, <1>3, PostStep

-----------------------------------------------------------------------------
(* The invariant of the webhooks. *)

LEMMA WebhookInit == Init => WebhookInv
<1> SUFFICES ASSUME Init PROVE WebhookInv
  OBVIOUS
<1>1. IInv
  BY InvariantInit
<1>2. /\ sub = [j \in Jobs |-> "none"] /\ posts = [j \in Jobs |-> 0]
      /\ sent = [j \in Jobs |-> {}] /\ queue = <<>>
      /\ run = [j \in Jobs |-> "none"] /\ watch = [j \in Jobs |-> "none"]
      /\ jobs = [j \in Jobs |-> Absent] /\ lock = Unlocked
      /\ note = [t \in Threads |-> IdleNote] /\ crashes = 0 /\ faults = 0
  BY DEF Init, StoreInit, HookInit, PoolInit
<1>3. \A t \in Threads : note[t] = [pc |-> "idle", job |-> NoJob, snap |-> Absent]
  BY <1>2 DEF IdleNote
<1>4. PoolIsAnswered /\ PoolNotes /\ OneNotifier /\ PassNotes /\ BatchHasReceipt
  BY <1>2, <1>3, ThreadNames DEF PoolIsAnswered, PoolNotes, OneNotifier, PassNotes,
     BatchHasReceipt, Quiet
<1>5. CommitIsOpen /\ NothingIsEarly
  BY <1>2 DEF CommitIsOpen, NothingIsEarly, Exists, Absent
<1>6. ReceiptsAreCharged
  BY <1>2, <1>3, AbsentIsCharged DEF ReceiptsAreCharged, Charged, Unlocked
<1>7. PostsAreCounted
  BY <1>2, <1>3, ThreadNames DEF PostsAreCounted, Exists, Absent
<1>8. PostsAreBounded
  <2>1. Budget \in Nat /\ WebhookAttempts * (0 + 0) = 0
    BY WebhookAssumption DEF Budget
  <2> QED BY <1>2, <2>1 DEF PostsAreBounded
<1> QED BY <1>1, <1>4, <1>5, <1>6, <1>7, <1>8 DEF WebhookInv

LEMMA WebhookStep == WebhookInv /\ [Next]_vars => WebhookInv'
<1> SUFFICES ASSUME WebhookInv, [Next]_vars PROVE WebhookInv'
  OBVIOUS
<1>1. IInv'
  BY InvariantStep DEF WebhookInv
<1>2. PoolIsAnswered'
  BY PoolIsAnsweredStep DEF WebhookInv, IInv
<1>3. PoolNotes' /\ PassNotes' /\ BatchHasReceipt'
  BY NotesStep, ThreadNames, ThreadKinds
     DEF PoolNotes, PassNotes, BatchHasReceipt, NoteIsSound
<1> QED BY <1>1, <1>2, <1>3, OneNotifierStep, CommitIsOpenStep, NothingIsEarlyStep,
           ReceiptsAreChargedStep, PostsAreCountedStep, PostsAreBoundedStep
        DEF WebhookInv

\* The invariant of the webhooks holds in every state of every execution.
THEOREM WebhooksStaySound == Spec => []WebhookInv
BY WebhookInit, WebhookStep, PTL DEF Spec

\* For any budget and any size of a batch: the posts about a job never exceed
\* two budgets and the batches that crashes and faults cut off
\* (retry_failed_webhook_deliveries, _notify_terminal_job).
THEOREM PostingIsBounded == Spec => []PostsAreBounded
<1>1. WebhookInv => PostsAreBounded
  BY DEF WebhookInv
<1> QED BY <1>1, WebhooksStaySound, PTL

-----------------------------------------------------------------------------
(* The outbox. *)

\* The notification of this job raises.
Raises(j) == \E t \in Threads : note[t].job = j /\ NotifyRaises(t)

\* Whoever is to report a verdict is still at it after a step, unless the
\* record has its receipt, the process crashes or the notification raises.
LEMMA BusyStays ==
  ASSUME WebhookInv, [Next]_vars, ~Crash, WebhookConfigured, NEW j \in Jobs,
         ~Raises(j), Busy(j), Terminal(j), jobs'[j] = jobs[j], jobs[j].hook = "none"
  PROVE  Busy(j)'
<1>0. TypeOK /\ IInv
  BY DEF WebhookInv, IInv
<1>1. PICK t \in Threads : note[t].job = j
  BY DEF Busy
<1>2. note[t].pc # "idle"
  BY <1>0, <1>1, StoreAssumption DEF TypeOK, HookTypeOK, NoteState, IdleNote
<1>3. note'[t] = note[t] => Busy(j)'
  BY <1>1 DEF Busy
<1>4. ASSUME NEW s \in Threads, NotifyRaises(s)
      PROVE  note'[t] = note[t]
  <2>1. s # t
    BY <1>1, <1>4 DEF Raises
  <2> QED BY <1>0, <1>4, <2>1 DEF NotifyRaises, EndNotify, TypeOK, HookTypeOK
<1>5. ASSUME NEW s \in Threads, NotifySkip(s)
      PROVE  note'[t] = note[t]
  <2>1. s # t
    BY <1>1, <1>5 DEF NotifySkip, Settled, Terminal, Exists
  <2> QED BY <1>0, <1>5, <2>1 DEF NotifySkip, EndNotify, TypeOK, HookTypeOK
<1>6. ASSUME NEW s \in Threads, NotifyWrite(s)
      PROVE  note'[t] = note[t]
  <2>1. s # t
    <3>1. SUFFICES ASSUME s = t PROVE FALSE
      OBVIOUS
    <3>2. jobs'[j] = note[t].snap /\ note[t].snap.hook # "none"
      BY <1>0, <1>1, <1>6, <3>1 DEF NotifyWrite, WriteJob, Put, TypeOK, StoreTypeOK,
         WebhookInv, BatchHasReceipt
    <3> QED BY <3>2
  <2> QED BY <1>0, <1>6, <2>1 DEF NotifyWrite, EndNotify, TypeOK, HookTypeOK
<1>7. ASSUME NEW s \in Threads, NotifyRead(s) \/ NotifySend(s)
      PROVE  Busy(j)'
  <2>1. note'[t].job = j
    BY <1>0, <1>1, <1>7 DEF NotifyRead, NotifySend, Step, TypeOK, HookTypeOK
  <2> QED BY <2>1 DEF Busy
<1>8. ASSUME NEW i \in Jobs, NEW s \in {Runner(i), Watcher(i)}, BeginNotify(s, i),
             ~Terminal(i)
      PROVE  note'[t] = note[t]
  <2>1. s # t
    BY <1>1, <1>2, <1>8 DEF WebhookInv, PoolNotes, Quiet
  <2> QED BY <1>0, <1>8, <2>1 DEF BeginNotify, Step, TypeOK, HookTypeOK
<1>9. ASSUME NEW i \in Jobs, Ends(i) \/ RunnerPublish(i)
      PROVE  note'[t] = note[t]
  <2>1. ~Terminal(i)
    BY <1>0, <1>9, FailKeepsReceipt, PublishedWasRunning DEF Ends, Active, Terminal
  <2> QED BY <1>8, <1>9, <2>1 DEF Ends, RunnerPublish
<1>10. ASSUME Quiet(Maint), NEW pc, NEW i, NEW rec, Step(Maint, pc, i, rec)
       PROVE  note'[t] = note[t]
  BY <1>0, <1>2, <1>10 DEF Step, Quiet, TypeOK, HookTypeOK
<1>11. ASSUME MarkWrite
       PROVE  Busy(j)'
  <2>1. CASE t = Maint
    <3>1. note'[t].job = j
      BY <1>0, <1>1, <1>11, <2>1, ThreadNames DEF MarkWrite, BeginNotify, Step, TypeOK,
         HookTypeOK
    <3> QED BY <3>1 DEF Busy
  <2>2. CASE t # Maint
    BY <1>0, <1>3, <1>11, <2>2, ThreadNames DEF MarkWrite, BeginNotify, Step, TypeOK,
       HookTypeOK
  <2> QED BY <2>1, <2>2
<1>12. CASE Maintains
  BY <1>3, <1>10, <1>11, <1>12 DEF Maintains, PurgeJobs, MarkRead, RetryNotify, AtLoop,
     BeginNotify, hookVars
<1>13. ASSUME NEW i \in Jobs, NEW k \in Keys \cup {NoKey}, NEW r \in Requests,
              PostCreate(i, k, r)
       PROVE  Busy(j)'
  BY <1>3, <1>13 DEF PostCreate, hookVars
<1>14. ASSUME NEW i \in Jobs,
              PostReject(i) \/ Rewrites(i) \/ RunnerCommit(i) \/ CommitRaises(i)
       PROVE  Busy(j)'
  BY <1>3, <1>14 DEF PostReject, Rewrites, RunnerCommit, CommitRaises, hookVars
<1>15. CASE Still
  BY <1>3, <1>15 DEF Still
<1>16. ASSUME NEW s \in Threads, Notify(s)
       PROVE  Busy(j)'
  BY <1>3, <1>5, <1>6, <1>7, <1>16 DEF Notify
<1> QED BY <1>0, <1>3, <1>4, <1>9, <1>12, <1>13, <1>14, <1>15, <1>16, NextKinds DEF Kinds

LEMMA OutboxStep ==
  ASSUME WebhookInv, [Next]_vars, WebhookConfigured, NEW j \in Jobs,
         Kept(j), ~Crash, ~Raises(j)
  PROVE  Kept(j)'
<1>0. TypeOK /\ IInv
  BY DEF WebhookInv, IInv
<1> SUFFICES ASSUME jobs'[j].status \in {"complete", "failed"},
                    jobs'[j].stage # "rejected", jobs'[j].hook = "none"
             PROVE  Busy(j)'
  BY DEF Kept, Unreported
<1>2. ASSUME NEW t \in Threads, BeginNotify(t, j)
      PROVE  Busy(j)'
  <2>1. note'[t].job = j
    BY <1>0, <1>2 DEF BeginNotify, Step, TypeOK, HookTypeOK
  <2> QED BY <2>1 DEF Busy
<1>3. CASE jobs'[j] = jobs[j]
  BY <1>3, BusyStays DEF Kept, Unreported, Terminal
<1>4. CASE IsPublished(j)
  BY <1>2, <1>4, ThreadNames DEF IsPublished, RunnerPublish
<1>5. CASE IsRewritten(j)
  <2>1. CASE Ends(j)
    BY <1>2, <2>1, ThreadNames DEF Ends
  <2>2. CASE Rewrites(j)
    <3>1. PICK rec \in JobRecord : WriteJob(j, rec) /\ rec.status \in {"running", "cancelled"}
      BY <2>2 DEF Rewrites
    <3> QED BY <1>0, <3>1 DEF WriteJob, Put, TypeOK, StoreTypeOK
  <2> QED BY <1>5, <2>1, <2>2 DEF IsRewritten
<1>6. CASE IsCopied(j)
  <2>1. PICK t \in Threads : /\ \/ NotifyWrite(t) \/ (t = Maint /\ MarkWrite)
                             /\ note[t].job = j /\ jobs'[j] = note[t].snap
    BY <1>6 DEF IsCopied
  <2>2. ~NotifyWrite(t)
    BY <2>1 DEF NotifyWrite, WebhookInv, BatchHasReceipt
  <2> QED BY <1>2, <2>1, <2>2 DEF MarkWrite
<1>7. ~IsPurged(j) /\ ~IsCreated(j) /\ ~IsRejected(j)
  BY <1>0, RejectedRecord DEF IsPurged, IsCreated, IsRejected, Absent
<1> QED BY <1>0, <1>3, <1>4, <1>5, <1>6, <1>7, RecordStep DEF RecordMoves

\* For any number of jobs, workers and attempts, with crashes, faults and the
\* maintenance loop beside the workers: "the job record is the durable outbox"
\* (retry_failed_webhook_deliveries) fails only by a crash or by an exception in
\* that very notification (_notify_terminal_job).  Every other step keeps an ended
\* job's delivery on record or under way, a stale copy written back included.
THEOREM VerdictsAreRecorded == Spec => OutboxHoldsEveryVerdict
<1>1. WebhookInv /\ [Next]_vars
        => [WebhookConfigured =>
              \A j \in Jobs :
                Kept(j) => \/ Kept(j)'
                           \/ Crash
                           \/ \E t \in Threads : note[t].job = j /\ NotifyRaises(t)]_vars
  BY OutboxStep DEF Raises
<1> QED BY <1>1, WebhooksStaySound, PTL DEF Spec, OutboxHoldsEveryVerdict

Steady == ~LiveMaintenance /\ faults = 0

-----------------------------------------------------------------------------
(* Serving: its inductive invariant. *)

\* The process either serves or maintains its store.
OneAtATime ==
    /\ mode # "starting" => maint = NoPass /\ Quiet(Maint)
    /\ mode # "up" =>
         /\ LockFree /\ queue = <<>>
         /\ \A j \in Jobs : /\ sub[j] \in {"none", "answered"}
                            /\ run[j] \in {"none", "over"}
                            /\ watch[j] \in {"none", "released"}
                            /\ Quiet(Runner(j)) /\ Quiet(Watcher(j))

\* A job goes through the queue once.
PoolIsOrderly ==
    /\ \A i, k \in DOMAIN queue : queue[i] = queue[k] => i = k
    /\ \A i \in DOMAIN queue : run[queue[i]] = "none"
    /\ \A j \in Jobs : run[j] = "none" <=> watch[j] = "none"
    /\ \A j \in Jobs : run[j] # "failing" /\ watch[j] # "died"

\* A commit is made by the runner of a running job.
CommitIsRun ==
    \A j \in Jobs :
      lock.job = j => jobs[j].status = "running" /\ run[j] = "scanning"

\* While the process serves, an active job is in somebody's hands.
InHands(j) ==
    /\ jobs[j].status = "queued" =>
         \/ sub[j] \in {"created", "refused"}
         \/ Queued(j)
         \/ watch[j] = "waiting" /\ run[j] = "claiming"
    /\ jobs[j].status = "running" =>
         watch[j] = "waiting" /\ run[j] = "scanning"

ActiveIsInHands == mode = "up" => \A j \in Jobs : InHands(j)

\* The startup pass leaves no job active.
StartupMarks ==
    mode = "starting" =>
      /\ maint.phase = "mark" =>
           \A j \in Jobs : Active(j) =>
             \/ j \in maint.todo
             \/ note[Maint].pc = "put" /\ note[Maint].job = j
      /\ maint.phase \in {"retry", "idle"} => \A j \in Jobs : ~Active(j)
      /\ maint.phase # "dead"

\* A copy that is written back agrees with the record on the verdict.
CopiesAgree ==
    \A t \in Threads :
      /\ note[t].pc \in {"read", "send", "write"} =>
           jobs[note[t].job].status \in {"complete", "failed"}
      /\ note[t].pc \in {"send", "write"} =>
           note[t].snap.status = jobs[note[t].job].status
      /\ note[t].pc = "put" =>
           Active(note[t].job) /\ note[t].snap.status = "failed"

\* A handler that has not answered yet has only a cancellation to expect.
OfferedIsUntouched ==
    \A j \in Jobs :
      sub[j] \in {"created", "refused"} => jobs[j].status \in {"queued", "cancelled"}

\* A job has a report when its commit began, and was not lost.
ReportIsCommitted ==
    \A j \in Jobs :
      j \in reports => /\ sub[j] # "none"
                       /\ mode = "up" /\ Active(j) => lock.job = j

\* What was posted about a job is its verdict.
PostedIsVerdict ==
    \A j \in Jobs :
      /\ jobs[j].status = "cancelled" => sent[j] = {}
      /\ jobs[j].status \in {"complete", "failed"} => sent[j] \subseteq {EventOf(jobs[j])}

\* A job whose cancellation was answered ends without a report or an event.
CancelledIsOver ==
    \A j \in Jobs :
      "cancelled" \in told[j] =>
        /\ sent[j] = {} /\ j \notin reports /\ sub[j] # "none"
        /\ jobs[j].status \in {"cancelled", "failed", "absent"}
        /\ jobs[j].status = "failed" => ~Busy(j) /\ jobs[j].hook = "none"

\* No more jobs run than the pool has workers, and a crash adds none.
Running == {j \in Jobs : jobs[j].status = "running"}
Fits(S) == IsFiniteSet(S) /\ Cardinality(S) <= MaxWorkers

RunningFits == Fits(Occupied) /\ Fits(Running)

Serving ==
    /\ OneAtATime
    /\ PoolIsOrderly
    /\ CommitIsRun
    /\ ActiveIsInHands
    /\ StartupMarks
    /\ CopiesAgree
    /\ OfferedIsUntouched
    /\ ReportIsCommitted
    /\ PostedIsVerdict
    /\ CancelledIsOver
    /\ RunningFits

ServingInv ==
    /\ WebhookInv
    /\ faults <= MaxFaults
    /\ Steady => Serving

-----------------------------------------------------------------------------
(* The steps of a steady service. *)

Expires == \E j \in Jobs : ExpireReport(j) \/ ExpireJob(j)
Marks   == mode = "starting" /\ MaintStep /\ UNCHANGED <<httpVars, envVars>>

SteadyNext ==
  \/ mode = "up" /\ Http
  \/ mode = "up" /\ Work
  \/ Marks
  \/ Expires
  \/ Crash \/ Restart \/ StartServing
  \/ UNCHANGED vars

\* Only the startup pass maintains the store.
LEMMA PassIsOver ==
  ASSUME OneAtATime, MaintStep
  PROVE  mode = "starting"
<1> SUFFICES ASSUME maint = NoPass, Quiet(Maint)
             PROVE  FALSE
  BY DEF OneAtATime
<1>1. maint.phase = "idle" /\ note[Maint].pc = "idle"
  BY DEF NoPass, Quiet
<1> QED BY <1>1 DEF MaintStep, Maintain, PurgeJobs, PurgeReports, MarkRead, RetrySkip,
           RetryNotify, MarkWrite, MarkDone, RetryDone, AtLoop, NotifyStep, Notify,
           NotifySkip, NotifyRead, NotifySend, NotifyWrite

LEMMA SteadySteps ==
  ASSUME ServingInv, Steady', [Next]_vars
  PROVE  Steady /\ Serving /\ SteadyNext
<1> USE DEF Steady
<1>0. TypeOK
  BY DEF ServingInv, WebhookInv, IInv
<1>1. ~Tick
  BY DEF Tick
<1>2. ~Faults
  BY <1>0 DEF Faults, ClaimRaises, CommitRaises, FailRaises, WatchRaises, RejectRaises,
     NotifyRaises, Fault, TypeOK
<1>3. faults = 0
  <2>1. CASE Http \/ Work \/ (MaintStep /\ UNCHANGED <<httpVars, envVars>>) \/ UNCHANGED vars
    BY <2>1 DEF Http, PostCreate, PostReplay, PostSubmit, PostQueueFull, PostReject,
       DeleteJob, Work, envVars, vars
  <2>2. CASE Expires \/ Crash \/ Restart \/ StartServing
    BY <2>2 DEF Expires, ExpireReport, ExpireJob, Crash, Restart, StartServing, envVars
  <2> QED BY <1>1, <1>2, <2>1, <2>2 DEF Next, Expires
<1>4. Steady /\ Serving
  BY <1>3 DEF ServingInv
<1>5. MaintStep => mode = "starting"
  BY <1>4, PassIsOver DEF Serving
<1> QED BY <1>1, <1>2, <1>4, <1>5 DEF Next, SteadyNext, Marks, Expires

-----------------------------------------------------------------------------
(* What the operations do to the records and to the notes. *)

LEMMA CreatedRecord ==
  ASSUME TypeOK, NEW j \in Jobs, NEW k \in Keys \cup {NoKey}, NEW r \in Requests,
         PostCreate(j, k, r)
  PROVE  /\ \A i \in Jobs \ {j} : jobs'[i] = jobs[i]
         /\ jobs'[j].status = "queued" /\ LockFree
         /\ UNCHANGED <<reports, lock>>
<1> DEFINE rec == NewRecord(k, r)
<1>1. rec.status = "queued"
  BY DEF NewRecord, Absent
<1>2. jobs' = [jobs EXCEPT ![j] = rec] /\ LockFree /\ UNCHANGED <<reports, lock>>
  BY DEF PostCreate, Create, WriteJob, Put
<1> HIDE DEF rec
<1> QED BY <1>1, <1>2 DEF TypeOK, StoreTypeOK

LEMMA ClaimedRecord ==
  ASSUME TypeOK, NEW j \in Jobs, RunnerClaim(j)
  PROVE  /\ \A i \in Jobs \ {j} : jobs'[i] = jobs[i]
         /\ jobs[j].status = "queued" /\ jobs'[j].status = "running" /\ LockFree
         /\ UNCHANGED <<reports, lock>>
<1>1. jobs[j] \in JobRecord
  BY DEF TypeOK, StoreTypeOK
<1> DEFINE rec == [jobs[j] EXCEPT !.status = "running", !.stage = "downloading"]
<1>2. rec.status = "running"
  BY <1>1 DEF JobRecord
<1>3. jobs' = [jobs EXCEPT ![j] = rec] /\ LockFree /\ UNCHANGED <<reports, lock>>
      /\ jobs[j].status = "queued"
  BY DEF RunnerClaim, Claim, WriteJob, Put
<1> HIDE DEF rec
<1> QED BY <1>2, <1>3 DEF TypeOK, StoreTypeOK

LEMMA CancelledRecord ==
  ASSUME TypeOK, NEW j \in Jobs, DeleteJob(j)
  PROVE  /\ \A i \in Jobs \ {j} : jobs'[i] = jobs[i]
         /\ Active(j) /\ jobs'[j].status = "cancelled" /\ LockFree
         /\ UNCHANGED <<reports, lock>>
<1>1. jobs[j] \in JobRecord
  BY DEF TypeOK, StoreTypeOK
<1> DEFINE rec == [jobs[j] EXCEPT !.status = "cancelled", !.stage = "cancelled"]
<1>2. rec.status = "cancelled"
  BY <1>1 DEF JobRecord
<1>3. jobs' = [jobs EXCEPT ![j] = rec] /\ LockFree /\ UNCHANGED <<reports, lock>>
      /\ Active(j)
  BY DEF DeleteJob, Cancel, WriteJob, Put
<1> HIDE DEF rec
<1> QED BY <1>2, <1>3 DEF TypeOK, StoreTypeOK

LEMMA PublishedRecord ==
  ASSUME TypeOK, NEW j \in Jobs, RunnerPublish(j)
  PROVE  /\ \A i \in Jobs \ {j} : jobs'[i] = jobs[i]
         /\ jobs'[j].status = "complete" /\ lock.job = j /\ lock'.job = NoJob
         /\ UNCHANGED reports
<1> DEFINE rec == [lock.rec EXCEPT !.status = "complete", !.stage = "complete",
                                   !.ref = TRUE]
<1>1. rec.status = "complete"
  BY DEF TypeOK, StoreTypeOK, JobRecord
<1>2. jobs' = [jobs EXCEPT ![j] = rec] /\ lock.job = j /\ lock' = Unlocked
      /\ UNCHANGED reports
  BY DEF RunnerPublish, CloseCommit, Put
<1> HIDE DEF rec
<1> QED BY <1>1, <1>2 DEF TypeOK, StoreTypeOK, Unlocked

\* A record that a thread of the pool writes back keeps its status.
LEMMA WrittenBackRecord ==
  ASSUME TypeOK, CopiesAgree, NEW t \in Threads, NotifyWrite(t)
  PROVE  /\ \A i \in Jobs : jobs'[i].status = jobs[i].status
         /\ \A i \in Jobs : note[t].job # i => jobs'[i] = jobs[i]
         /\ jobs'[note[t].job] = note[t].snap
         /\ note[t].job \in Jobs
         /\ LockFree /\ UNCHANGED <<reports, lock>>
<1>1. note[t].job \in Jobs
  BY BusyNote DEF NotifyWrite, Quiet, TypeOK, HookTypeOK
<1> QED BY <1>1 DEF NotifyWrite, WriteJob, Put, TypeOK, StoreTypeOK, CopiesAgree
-----------------------------------------------------------------------------
(* Serving and maintaining. *)

LEMMA OthersRest ==
  ASSUME TypeOK, NEW t \in Threads, Notify(t)
  PROVE  \A s \in Threads : s # t => note'[s] = note[s]
BY DEF Notify, NotifySkip, NotifyRead, NotifySend, NotifyWrite, EndNotify, Step,
   TypeOK, HookTypeOK

LEMMA WorkEffects ==
  ASSUME TypeOK, Work
  PROVE  UNCHANGED <<mode, maint, sub, told>> /\ note'[Maint] = note[Maint]
<1>1. UNCHANGED <<mode, maint, sub, told>>
  BY DEF Work, TakeStep, PoolStep, NotifyStep, httpVars, envVars
<1>2. ASSUME NEW j \in Jobs, Pool(j)
      PROVE  note'[Maint] = note[Maint]
  BY <1>2, ThreadNames DEF Pool, RunnerClaim, RunnerDeclined, RunnerCommit, RunnerPublish,
     RunnerLate, RunnerFail, RunnerFailLate, WatcherTimeout, WatcherRelease, hookVars,
     BeginNotify, Step, TypeOK, HookTypeOK
<1>3. TakeStep => note'[Maint] = note[Maint]
  BY DEF TakeStep, WorkerTake, hookVars
<1> QED BY <1>1, <1>2, <1>3, OthersRest, ThreadNames DEF Work, PoolStep, NotifyStep

LEMMA MaintEffects ==
  ASSUME TypeOK, MaintStep
  PROVE  /\ UNCHANGED <<lock, queue, run, watch>>
         /\ \A t \in Threads : t # Maint => note'[t] = note[t]
<1>1. CASE NotifyStep(Maint)
  <2>1. \A t \in Threads : t # Maint => note'[t] = note[t]
    BY <1>1, OthersRest, ThreadNames DEF NotifyStep
  <2> QED BY <1>1, <2>1 DEF NotifyStep, Notify, NotifySkip, NotifyRead, NotifySend,
             NotifyWrite, WriteJob, storeVars, poolVars
<1>2. CASE Maintain
  BY <1>2, ThreadNames DEF Maintain, PurgeJobs, PurgeReports, MarkRead, RetrySkip,
     RetryNotify, MarkWrite, MarkDone, RetryDone, WriteJob, BeginNotify, Step,
     storeVars, poolVars, hookVars, TypeOK, HookTypeOK
<1> QED BY <1>1, <1>2 DEF MaintStep

LEMMA HttpEffects ==
  ASSUME Http
  PROVE  UNCHANGED <<mode, maint, run, watch, note, sent, lock, reports>>
BY DEF Http, PostCreate, PostReplay, PostSubmit, PostQueueFull, PostReject, DeleteJob,
   Create, Cancel, WriteJob, storeVars, hookVars, poolVars, envVars

LEMMA ExpiryEffects ==
  ASSUME Expires
  PROVE  UNCHANGED <<jobs, reports, lock, hookVars, poolVars, maint, httpVars, envVars>>
BY DEF Expires, ExpireReport, ExpireJob

LEMMA OneAtATimeStep ==
  ASSUME TypeOK, OneAtATime, SteadyNext
  PROVE  OneAtATime'
<1> USE ThreadNames DEF OneAtATime, Quiet, LockFree
<1>1. CASE mode = "up" /\ (Http \/ Work)
  <2>1. UNCHANGED <<mode, maint>> /\ note'[Maint] = note[Maint]
    BY <1>1, HttpEffects, WorkEffects
  <2> QED BY <1>1, <2>1
<1>2. CASE Marks
  BY <1>2, MaintEffects DEF Marks, httpVars, envVars
<1>3. CASE Expires \/ UNCHANGED vars
  BY <1>3, ExpiryEffects DEF vars, storeVars, hookVars, poolVars, httpVars, envVars
<1>4. CASE Crash
  BY <1>4 DEF Crash, Unlocked, IdleNote, TypeOK, PoolTypeOK
<1>5. CASE Restart
  BY <1>5 DEF Restart, storeVars, hookVars, poolVars, httpVars
<1>6. CASE StartServing
  BY <1>6 DEF StartServing, storeVars, hookVars, poolVars, httpVars
<1> QED BY <1>1, <1>2, <1>3, <1>4, <1>5, <1>6 DEF SteadyNext
-----------------------------------------------------------------------------
(* The pool. *)

\* What the operations of the pool do to the runner and the watcher of a job.
LEMMA PoolEffects ==
  ASSUME TypeOK, NEW j \in Jobs, Pool(j)
  PROVE  /\ UNCHANGED queue
         /\ \A i \in Jobs : i # j => run'[i] = run[i] /\ watch'[i] = watch[i]
         /\ run[j] # "none" \/ watch[j] # "none"
         /\ run'[j] = "none" <=> run[j] = "none"
         /\ watch'[j] = "none" <=> watch[j] = "none"
         /\ run'[j] = "failing" => run[j] = "failing"
         /\ watch'[j] # "died" \/ watch[j] = "died"
BY DEF Pool, RunnerClaim, RunnerDeclined, RunnerCommit, RunnerPublish, RunnerLate,
   RunnerFail, RunnerFailLate, WatcherTimeout, WatcherRelease, poolVars, TypeOK, PoolTypeOK

LEMMA TakeEffects ==
  ASSUME TypeOK, WorkerTake
  PROVE  /\ queue # <<>> /\ Head(queue) \in Jobs
         /\ Head(queue) = queue[1] /\ 1 \in DOMAIN queue
         /\ queue' = Tail(queue)
         /\ \A i \in DOMAIN queue' : i + 1 \in DOMAIN queue /\ queue'[i] = queue[i + 1]
         /\ \A i \in DOMAIN queue : i # 1 => i - 1 \in DOMAIN queue' /\ queue[i] = queue'[i - 1]
         /\ run'[Head(queue)] = "claiming" /\ watch'[Head(queue)] = "waiting"
         /\ \A i \in Jobs : i # Head(queue) => run'[i] = run[i] /\ watch'[i] = watch[i]
         /\ UNCHANGED <<storeVars, hookVars>>
<1>1. queue # <<>> /\ queue \in Seq(Jobs) /\ queue' = Tail(queue)
  BY DEF WorkerTake, TypeOK, PoolTypeOK
<1>2. Head(queue) \in Jobs /\ Head(queue) = queue[1] /\ 1 \in DOMAIN queue
  BY <1>1
<1>3. /\ \A i \in DOMAIN queue' : i + 1 \in DOMAIN queue /\ queue'[i] = queue[i + 1]
      /\ \A i \in DOMAIN queue : i # 1 => i - 1 \in DOMAIN queue' /\ queue[i] = queue'[i - 1]
  BY <1>1
<1> QED BY <1>1, <1>2, <1>3 DEF WorkerTake, TypeOK, PoolTypeOK

LEMMA PoolIsOrderlyStep ==
  ASSUME ServingInv, Serving, SteadyNext
  PROVE  PoolIsOrderly'
<1>0. TypeOK /\ PoolIsOrderly /\ PoolIsAnswered
  BY DEF ServingInv, WebhookInv, IInv, Serving
<1>1. UNCHANGED <<queue, run, watch>> => PoolIsOrderly'
  BY <1>0 DEF PoolIsOrderly
<1>2. ASSUME NEW j \in Jobs, PostSubmit(j)
      PROVE  PoolIsOrderly'
  <2>1. queue \in Seq(Jobs) /\ queue' = Append(queue, j) /\ UNCHANGED <<run, watch>>
    BY <1>0, <1>2 DEF PostSubmit, TypeOK, PoolTypeOK
  <2>2. run[j] = "none" /\ \A i \in DOMAIN queue : queue[i] # j
    BY <1>0, <1>2 DEF PostSubmit, PoolIsAnswered
  <2>3. /\ DOMAIN queue' = 1..(Len(queue) + 1) /\ queue'[Len(queue) + 1] = j
        /\ DOMAIN queue = 1..Len(queue) /\ Len(queue) \in Nat
        /\ \A i \in 1..Len(queue) : queue'[i] = queue[i]
    BY <2>1
  <2>4. \A i \in DOMAIN queue' : i \in DOMAIN queue \/ i = Len(queue) + 1
    BY <2>3
  <2>5. \A i, k \in DOMAIN queue' : queue'[i] = queue'[k] => i = k
    BY <1>0, <2>2, <2>3, <2>4 DEF PoolIsOrderly
  <2>6. \A i \in DOMAIN queue' : run'[queue'[i]] = "none"
    BY <1>0, <2>1, <2>2, <2>3, <2>4 DEF PoolIsOrderly
  <2> QED BY <1>0, <2>1, <2>5, <2>6 DEF PoolIsOrderly
<1>3. CASE Http
  BY <1>1, <1>2, <1>3 DEF Http, PostCreate, PostReplay, PostQueueFull, PostReject,
     DeleteJob, poolVars
<1>4. CASE TakeStep
  <2>1. \A i, k \in DOMAIN queue' : queue'[i] = queue'[k] => i = k
    BY <1>0, <1>4, TakeEffects DEF TakeStep, PoolIsOrderly, TypeOK, PoolTypeOK
  <2>2. \A i \in DOMAIN queue' : queue'[i] # Head(queue) /\ run[queue'[i]] = "none"
                                 /\ queue'[i] \in Jobs
    BY <1>0, <1>4, TakeEffects DEF TakeStep, PoolIsOrderly, TypeOK, PoolTypeOK
  <2>3. \A i \in DOMAIN queue' : run'[queue'[i]] = "none"
    BY <1>0, <1>4, <2>2, TakeEffects DEF TakeStep
  <2> QED BY <1>0, <1>4, <2>1, <2>3, TakeEffects DEF TakeStep, PoolIsOrderly
<1>5. ASSUME NEW j \in Jobs, Pool(j)
      PROVE  PoolIsOrderly'
  BY <1>0, <1>5, PoolEffects DEF PoolIsOrderly, TypeOK, PoolTypeOK
<1>6. CASE Work
  BY <1>1, <1>4, <1>5, <1>6 DEF Work, PoolStep, NotifyStep, poolVars
<1>7. CASE Marks \/ Expires \/ UNCHANGED vars
  BY <1>0, <1>1, <1>7, MaintEffects, ExpiryEffects DEF Marks, vars, poolVars
<1>8. CASE Crash
  BY <1>0, <1>8 DEF Crash, PoolIsOrderly, TypeOK, PoolTypeOK
<1>9. CASE Restart \/ StartServing
  BY <1>1, <1>9 DEF Restart, StartServing, poolVars
<1> QED BY <1>3, <1>6, <1>7, <1>8, <1>9 DEF SteadyNext

LEMMA CommitIsRunStep ==
  ASSUME ServingInv, Serving, SteadyNext
  PROVE  CommitIsRun'
<1> USE StoreAssumption
<1>0. TypeOK /\ CommitIsRun /\ OneAtATime /\ OneAtATime' /\ CopiesAgree
  BY OneAtATimeStep DEF ServingInv, WebhookInv, IInv, Serving
<1> SUFFICES ASSUME NEW j \in Jobs, lock'.job = j
             PROVE  jobs'[j].status = "running" /\ run'[j] = "scanning"
  BY DEF CommitIsRun
<1>1. mode' = "up"
  BY <1>0 DEF OneAtATime, LockFree
<1>2. UNCHANGED <<lock, jobs, run>> => jobs'[j].status = "running" /\ run'[j] = "scanning"
  BY <1>0 DEF CommitIsRun
<1>3. LockFree => lock' # lock
  BY DEF LockFree
<1>4. CASE Http
  BY <1>2, <1>3, <1>4, HttpEffects DEF Http, PostCreate, PostReplay, PostSubmit,
     PostQueueFull, PostReject, DeleteJob, Create, Cancel, WriteJob, storeVars
<1>5. CASE TakeStep
  <2>1. run[Head(queue)] = "none" /\ UNCHANGED <<lock, jobs>>
    BY <1>0, <1>5, TakeEffects DEF TakeStep, PoolIsOrderly, Serving, storeVars
  <2>2. lock.job = j /\ Head(queue) # j
    BY <1>0, <2>1 DEF CommitIsRun
  <2>3. run'[j] = run[j]
    BY <1>0, <1>5, <2>2, TakeEffects DEF TakeStep
  <2> QED BY <1>0, <2>1, <2>2, <2>3 DEF CommitIsRun
<1>6. ASSUME NEW i \in Jobs, Pool(i)
      PROVE  jobs'[j].status = "running" /\ run'[j] = "scanning"
  <2>1. CASE RunnerCommit(i)
    BY <2>1 DEF RunnerCommit, OpenCommit, poolVars
  <2>2. ~RunnerPublish(i)
    BY DEF RunnerPublish, CloseCommit, Unlocked
  <2>3. CASE ~RunnerCommit(i) /\ lock.job = j
    BY <1>0, <1>6, <2>2, <2>3 DEF Pool, RunnerClaim, RunnerDeclined, RunnerLate,
       RunnerFail, RunnerFailLate, WatcherTimeout, WatcherRelease, Claim, Fail, WriteJob,
       LockFree, storeVars, CommitIsRun
  <2>4. ~RunnerCommit(i) => lock.job = j
    BY <1>6, <2>2 DEF Pool, RunnerClaim, RunnerDeclined, RunnerLate, RunnerFail,
       RunnerFailLate, WatcherTimeout, WatcherRelease, Claim, Fail, WriteJob, storeVars
  <2> QED BY <2>1, <2>3, <2>4
<1>7. ASSUME NEW t \in Threads, NotifyStep(t)
      PROVE  jobs'[j].status = "running" /\ run'[j] = "scanning"
  BY <1>2, <1>3, <1>7 DEF NotifyStep, Notify, NotifySkip, NotifyRead, NotifySend,
     NotifyWrite, WriteJob, storeVars, poolVars
<1>8. CASE Work
  BY <1>5, <1>6, <1>7, <1>8 DEF Work, PoolStep
<1>9. CASE Expires \/ UNCHANGED vars
  BY <1>2, <1>9, ExpiryEffects DEF vars, storeVars, poolVars
<1>10. ~Marks /\ ~Crash /\ ~Restart /\ (StartServing => UNCHANGED <<lock, jobs, run>>)
  BY <1>1 DEF Marks, envVars, Crash, Restart, StartServing, storeVars, poolVars
<1> QED BY <1>2, <1>4, <1>8, <1>9, <1>10 DEF SteadyNext
-----------------------------------------------------------------------------
(* Active jobs. *)

LEMMA HandsKept ==
  ASSUME NEW j \in Jobs, InHands(j), jobs'[j].status = jobs[j].status,
         run'[j] = run[j], watch'[j] = watch[j],
         sub[j] \in {"created", "refused"} => sub'[j] \in {"created", "refused"} \/ Queued(j)',
         Queued(j) => Queued(j)'
  PROVE  InHands(j)'
BY DEF InHands

LEMMA AppendKeepsQueued ==
  ASSUME queue \in Seq(Jobs), NEW i \in Jobs, queue' = Append(queue, i)
  PROVE  Queued(i)' /\ \A j \in Jobs : Queued(j) => Queued(j)'
<1>1. /\ Len(queue') = Len(queue) + 1 /\ queue'[Len(queue) + 1] = i
      /\ Len(queue) \in Nat
      /\ \A n \in 1..Len(queue) : n \in 1..Len(queue') /\ queue'[n] = queue[n]
  OBVIOUS
<1>2. Len(queue) + 1 \in 1..Len(queue')
  BY <1>1
<1> QED BY <1>1, <1>2 DEF Queued

LEMMA HttpKeepsHands ==
  ASSUME TypeOK, Http, \A j \in Jobs : InHands(j)
  PROVE  \A j \in Jobs : InHands(j)'
<1>0. UNCHANGED <<run, watch>>
  BY HttpEffects
<1>1. ASSUME NEW i \in Jobs, NEW j \in Jobs, j # i, jobs'[j].status = jobs[j].status,
             sub'[j] = sub[j], Queued(j) => Queued(j)'
      PROVE  InHands(j)'
  BY <1>0, <1>1, HandsKept
<1>2. UNCHANGED queue => \A j \in Jobs : Queued(j) => Queued(j)'
  BY DEF Queued
<1>3. ASSUME NEW i \in Jobs, NEW k \in Keys \cup {NoKey}, NEW r \in Requests,
             PostCreate(i, k, r)
      PROVE  \A j \in Jobs : InHands(j)'
  <2>1. UNCHANGED queue /\ sub'[i] = "created" /\ \A j \in Jobs : j # i => sub'[j] = sub[j]
    BY <1>3 DEF PostCreate, poolVars, TypeOK
  <2>2. InHands(i)'
    BY <1>3, <2>1, CreatedRecord DEF InHands
  <2> QED BY <1>1, <1>2, <1>3, <2>1, <2>2, CreatedRecord
<1>4. ASSUME NEW i \in Jobs, NEW k \in Keys, NEW r \in Requests, PostReplay(i, k, r)
      PROVE  \A j \in Jobs : InHands(j)'
  BY <1>0, <1>2, <1>4, HandsKept DEF PostReplay, storeVars, poolVars
<1>5. ASSUME NEW i \in Jobs, PostSubmit(i)
      PROVE  \A j \in Jobs : InHands(j)'
  <2>1. /\ queue' = Append(queue, i) /\ queue \in Seq(Jobs) /\ UNCHANGED jobs
        /\ \A j \in Jobs : j # i => sub'[j] = sub[j]
    BY <1>5 DEF PostSubmit, TypeOK, PoolTypeOK, storeVars
  <2>2. Queued(i)' /\ \A j \in Jobs : Queued(j) => Queued(j)'
    BY <2>1, AppendKeepsQueued
  <2> QED BY <1>0, <2>1, <2>2, HandsKept
<1>6. ASSUME NEW i \in Jobs, PostQueueFull(i)
      PROVE  \A j \in Jobs : InHands(j)'
  <2>1. \A j \in Jobs : sub[j] \in {"created", "refused"} => sub'[j] \in {"created", "refused"}
    BY <1>6 DEF PostQueueFull, TypeOK
  <2> QED BY <1>0, <1>2, <1>6, <2>1, HandsKept DEF PostQueueFull, storeVars, poolVars
<1>7. ASSUME NEW i \in Jobs, PostReject(i)
      PROVE  \A j \in Jobs : InHands(j)'
  <2>1. UNCHANGED queue /\ \A j \in Jobs : j # i => sub'[j] = sub[j]
    BY <1>7 DEF PostReject, poolVars, TypeOK
  <2>2. InHands(i)'
    BY <1>7, RejectedRecord DEF InHands
  <2> QED BY <1>1, <1>2, <1>7, <2>1, <2>2, RejectedRecord
<1>8. ASSUME NEW i \in Jobs, DeleteJob(i)
      PROVE  \A j \in Jobs : InHands(j)'
  <2>1. UNCHANGED <<queue, sub>>
    BY <1>8 DEF DeleteJob, poolVars
  <2>2. InHands(i)'
    BY <1>8, CancelledRecord DEF InHands
  <2> QED BY <1>1, <1>2, <1>8, <2>1, <2>2, CancelledRecord
<1> QED BY <1>3, <1>4, <1>5, <1>6, <1>7, <1>8 DEF Http

LEMMA TakeKeepsHands ==
  ASSUME ServingInv, Serving, TakeStep, UNCHANGED sub, \A j \in Jobs : InHands(j)
  PROVE  \A j \in Jobs : InHands(j)'
<1>0. TypeOK /\ PoolIsOrderly
  BY DEF ServingInv, WebhookInv, IInv, Serving
<1>h. PICK h \in Jobs : h = Head(queue)
  BY <1>0, TakeEffects DEF TakeStep
<1>1. /\ h \in Jobs /\ run[h] = "none" /\ UNCHANGED jobs
      /\ run'[h] = "claiming" /\ watch'[h] = "waiting"
  BY <1>0, <1>h, TakeEffects DEF TakeStep, PoolIsOrderly, storeVars
<1>2. InHands(h)'
  BY <1>1 DEF InHands
<1>3. \A j \in Jobs : j # h => run'[j] = run[j] /\ watch'[j] = watch[j]
  BY <1>0, <1>h, TakeEffects DEF TakeStep
<1>4. ASSUME NEW j \in Jobs, j # h, Queued(j)
      PROVE  Queued(j)'
  <2>1. PICK n \in 1..Len(queue) : queue[n] = j
    BY <1>4 DEF Queued
  <2>2. n \in DOMAIN queue /\ n # 1
    BY <1>0, <1>h, <1>4, <2>1, TakeEffects DEF TakeStep, TypeOK, PoolTypeOK
  <2>3. n - 1 \in DOMAIN queue' /\ queue'[n - 1] = j
    BY <1>0, <2>1, <2>2, TakeEffects DEF TakeStep
  <2>4. DOMAIN queue' = 1..Len(queue')
    BY <1>0, TypeStep, TakeEffects DEF TakeStep, TypeOK, PoolTypeOK
  <2> QED BY <2>3, <2>4 DEF Queued
<1> QED BY <1>1, <1>2, <1>3, <1>4, HandsKept

LEMMA PoolKeepsHands ==
  ASSUME TypeOK, PoolIsOrderly, PoolIsAnswered, NEW i \in Jobs, Pool(i), UNCHANGED sub, \A j \in Jobs : InHands(j)
  PROVE  \A j \in Jobs : InHands(j)'
<1>0. /\ UNCHANGED queue
      /\ \A j \in Jobs : j # i => run'[j] = run[j] /\ watch'[j] = watch[j]
  BY PoolEffects
<1>a. sub[i] \notin {"created", "refused"} /\ (run[i] # "none" => ~Queued(i))
  <2>1. sub[i] = "answered"
    BY PoolEffects DEF PoolIsAnswered
  <2>2. DOMAIN queue = 1..Len(queue)
    BY DEF TypeOK, PoolTypeOK
  <2> QED BY <2>1, <2>2 DEF PoolIsOrderly, Queued
<1>1. ASSUME \A j \in Jobs : j # i => jobs'[j] = jobs[j], InHands(i)'
      PROVE  \A j \in Jobs : InHands(j)'
  BY <1>0, <1>1, HandsKept DEF Queued
<1>2. CASE RunnerClaim(i)
  <2>1. run'[i] = "scanning" /\ watch'[i] = watch[i] /\ run[i] = "claiming"
    BY <1>2 DEF RunnerClaim, TypeOK, PoolTypeOK
  <2>2. jobs[i].status = "queued" /\ jobs'[i].status = "running"
    BY <1>2, ClaimedRecord
  <2> QED BY <1>a, <1>1, <1>2, <2>1, <2>2, ClaimedRecord DEF InHands
<1>3. CASE RunnerDeclined(i) \/ RunnerLate(i) \/ RunnerFailLate(i)
  BY <1>a, <1>1, <1>3 DEF RunnerDeclined, RunnerLate, RunnerFailLate, InHands, Active, storeVars
<1>4. CASE RunnerCommit(i)
  BY <1>0, <1>1, <1>4 DEF RunnerCommit, OpenCommit, InHands, Queued, poolVars
<1>5. CASE RunnerPublish(i)
  BY <1>1, <1>5, PublishedRecord DEF InHands
<1>6. CASE RunnerFail(i) \/ WatcherTimeout(i)
  BY <1>1, <1>6, FailKeepsReceipt DEF RunnerFail, WatcherTimeout, InHands, Stages
<1>7. CASE WatcherRelease(i)
  <2>1. CASE RunnerOver(i)
    BY <1>0, <1>1, <1>7, <2>1 DEF WatcherRelease, RunnerOver, InHands, Queued, storeVars
  <2>2. CASE ~Active(i)
    BY <1>1, <1>7, <2>2 DEF WatcherRelease, Active, InHands, storeVars
  <2> QED BY <1>7, <2>1, <2>2 DEF WatcherRelease
<1> QED BY <1>2, <1>3, <1>4, <1>5, <1>6, <1>7 DEF Pool

LEMMA ActiveIsInHandsStep ==
  ASSUME ServingInv, Serving, SteadyNext
  PROVE  ActiveIsInHands'
<1>0. TypeOK /\ PoolIsOrderly /\ PoolIsAnswered /\ OneAtATime /\ CopiesAgree /\ StartupMarks
  BY DEF ServingInv, WebhookInv, IInv, Serving
<1> SUFFICES ASSUME mode' = "up"
             PROVE  \A j \in Jobs : InHands(j)'
  BY DEF ActiveIsInHands
<1>1. CASE StartServing
  BY <1>0, <1>1 DEF StartServing, StartupMarks, NoPass, InHands, Active, storeVars
<1>2. mode = "up" \/ StartServing
  BY ExpiryEffects, <1>0, WorkEffects, HttpEffects DEF SteadyNext, Marks, Crash, Restart, envVars, vars
<1>3. mode = "up" => \A j \in Jobs : InHands(j)
  BY DEF Serving, ActiveIsInHands
<1>4. CASE mode = "up" /\ Http
  BY <1>0, <1>3, <1>4, HttpKeepsHands
<1>5. CASE mode = "up" /\ Work
  <2>1. UNCHANGED sub
    BY <1>0, <1>5, WorkEffects
  <2>2. ASSUME NEW t \in Threads, NotifyStep(t)
        PROVE  \A j \in Jobs : InHands(j)'
    <3>1. \A j \in Jobs : jobs'[j].status = jobs[j].status
      BY <1>0, <2>2, WrittenBackRecord
         DEF NotifyStep, Notify, NotifySkip, NotifyRead, NotifySend, storeVars
    <3> QED BY <1>3, <1>5, <2>1, <2>2, <3>1, HandsKept DEF NotifyStep, poolVars, Queued
  <2> QED BY <1>0, <1>3, <1>5, <2>1, <2>2, TakeKeepsHands, PoolKeepsHands
          DEF Work, PoolStep
<1>6. CASE mode = "up" /\ (Expires \/ UNCHANGED vars)
  BY <1>3, <1>6, ExpiryEffects, HandsKept DEF vars, storeVars, poolVars, httpVars, Queued
<1> QED BY <1>1, <1>2, <1>4, <1>5, <1>6 DEF SteadyNext, Marks, Crash, Restart
-----------------------------------------------------------------------------
(* Verdicts. *)

\* A job that is complete or failed stays so until its record is purged.
LEMMA VerdictStays ==
  ASSUME ServingInv, Serving, [Next]_vars, NEW j \in Jobs,
         jobs[j].status \in {"complete", "failed"}
  PROVE  jobs'[j].status = jobs[j].status \/ IsPurged(j)
<1>0. /\ IInv /\ TypeOK /\ CopiesAgree /\ CommitIsRun /\ OfferedIsUntouched
  BY DEF ServingInv, WebhookInv, IInv, Serving
<1>1. ~IsCreated(j)
  BY <1>0 DEF IsCreated, IInv, CopiesAreHarmless, FreshIds, Exists
<1>2. ~IsPublished(j)
  BY <1>0 DEF IsPublished, CommitIsRun
<1>3. ~IsRewritten(j)
  BY DEF IsRewritten, Active
<1>4. ~IsRejected(j)
  BY <1>0 DEF IsRejected, PostReject, OfferedIsUntouched
<1>5. ASSUME IsCopied(j)
      PROVE  jobs'[j].status = jobs[j].status
  <2>1. PICK t \in Threads :
          /\ \/ NotifyWrite(t) \/ (t = Maint /\ MarkWrite)
          /\ note[t].job = j /\ jobs'[j] = note[t].snap
    BY <1>5 DEF IsCopied
  <2> QED BY <1>0, <2>1 DEF CopiesAgree, NotifyWrite, MarkWrite, Active
<1> QED BY <1>0, <1>1, <1>2, <1>3, <1>4, <1>5, RecordStep DEF RecordMoves

NoteAgrees(t) ==
  /\ note[t].pc \in {"read", "send", "write"} =>
       jobs[note[t].job].status \in {"complete", "failed"}
  /\ note[t].pc \in {"send", "write"} =>
       note[t].snap.status = jobs[note[t].job].status
  /\ note[t].pc = "put" =>
       Active(note[t].job) /\ note[t].snap.status = "failed"

LEMMA KeptAgrees ==
  ASSUME ServingInv, Serving, [Next]_vars, SteadyNext, NEW t \in Threads,
         note'[t] = note[t], NoteAgrees(t)
  PROVE  NoteAgrees(t)'
<1>0. /\ IInv /\ TypeOK /\ OneAtATime /\ PoolNotes
  BY DEF ServingInv, WebhookInv, IInv, Serving
<1> DEFINE j == note[t].job
<1>1. CASE note[t].pc \in {"read", "send", "write"}
  <2>1. j \in Jobs /\ ~Quiet(t)
    BY <1>0, <1>1, BusyNote DEF Quiet, TypeOK, HookTypeOK
  <2>2. ~IsPurged(j)
    BY <1>0, <2>1 DEF IsPurged, PurgeJobs, AtLoop, IInv, CopiesAreHarmless,
       NotifierIsRecent
  <2>3. jobs[j].status \in {"complete", "failed"} /\ jobs'[j].status = jobs[j].status
    BY <1>1, <2>1, <2>2, VerdictStays DEF NoteAgrees
  <2> QED BY <1>1, <2>3 DEF NoteAgrees
<1>2. CASE note[t].pc = "put"
  <2>1. t = Maint /\ mode = "starting"
    BY <1>0, <1>2, ThreadKinds DEF PoolNotes, Quiet, OneAtATime
  <2>2. ~MaintStep
    <3>1. ~MarkWrite
      BY <1>0, <1>2, <2>1 DEF MarkWrite, BeginNotify, Step, TypeOK, HookTypeOK
    <3> QED BY <1>2, <2>1, <3>1 DEF MaintStep, Maintain, PurgeJobs, PurgeReports, MarkRead,
               RetrySkip, RetryNotify, MarkDone, RetryDone, AtLoop, Quiet, NotifyStep,
               Notify, NotifySkip, NotifyRead, NotifySend, NotifyWrite
  <2>3. ~Crash
    BY <1>2 DEF Crash, IdleNote
  <2>4. UNCHANGED jobs
    BY <2>1, <2>2, <2>3, ExpiryEffects DEF SteadyNext, Marks, Restart, StartServing,
       storeVars, vars
  <2> QED BY <1>2, <2>4 DEF NoteAgrees, Active
<1>3. CASE note[t].pc = "idle"
  BY <1>3 DEF NoteAgrees
<1>4. note[t].pc \in {"idle", "put", "read", "send", "write"}
  BY <1>0 DEF TypeOK, HookTypeOK, NoteState, IdleNote
<1> QED BY <1>1, <1>2, <1>3, <1>4

LEMMA NotifyAgrees ==
  ASSUME TypeOK, NEW t \in Threads, Notify(t), NoteAgrees(t)
  PROVE  NoteAgrees(t)'
<1>1. CASE NotifySkip(t) \/ NotifyWrite(t)
  <2>1. note'[t].pc = "idle"
    BY <1>1 DEF NotifySkip, NotifyWrite, EndNotify, IdleNote, TypeOK, HookTypeOK
  <2> QED BY <2>1 DEF NoteAgrees
<1>2. CASE NotifyRead(t)
  <2>1. /\ note'[t] = [pc |-> "send", job |-> note[t].job, snap |-> jobs[note[t].job]]
        /\ note[t].pc = "read" /\ UNCHANGED jobs
    BY <1>2 DEF NotifyRead, Step, TypeOK, HookTypeOK, storeVars
  <2> QED BY <2>1 DEF NoteAgrees
<1>3. CASE NotifySend(t)
  <2>1. note[t].snap \in JobRecord /\ note[t].pc = "send" /\ UNCHANGED jobs
    BY <1>3, BusyNote DEF NotifySend, Quiet, TypeOK, HookTypeOK, storeVars
  <2>2. PICK n \in 1..WebhookAttempts, ok \in BOOLEAN :
          Step(t, "write", note[t].job, Receipt(note[t].snap, ok, n))
    BY <1>3 DEF NotifySend
  <2> DEFINE new == Receipt(note[t].snap, ok, n)
  <2>3. new.status = note[t].snap.status
    BY <2>1, ReceiptKeeps
  <2>4. note'[t] = [pc |-> "write", job |-> note[t].job, snap |-> new]
    BY <2>2 DEF Step, TypeOK, HookTypeOK
  <2> HIDE DEF new
  <2> QED BY <2>1, <2>3, <2>4 DEF NoteAgrees
<1> QED BY <1>1, <1>2, <1>3 DEF Notify

LEMMA BegunAgrees ==
  ASSUME TypeOK, NEW s \in Threads, NEW j \in Jobs, BeginNotify(s, j),
         jobs'[j].status \in {"complete", "failed"}
  PROVE  NoteAgrees(s)' /\ \A t \in Threads : t # s => note'[t] = note[t]
BY DEF BeginNotify, Step, TypeOK, HookTypeOK, NoteAgrees

LEMMA CopiesAgreeStep ==
  ASSUME ServingInv, Serving, [Next]_vars, SteadyNext
  PROVE  CopiesAgree'
<1>0. /\ IInv /\ TypeOK /\ CopiesAgree
  BY DEF ServingInv, WebhookInv, IInv, Serving
<1> SUFFICES ASSUME NEW t \in Threads PROVE NoteAgrees(t)'
  BY DEF CopiesAgree, NoteAgrees
<1>1. \A s \in Threads : NoteAgrees(s)
  BY <1>0 DEF CopiesAgree, NoteAgrees
<1>2. note'[t] = note[t] => NoteAgrees(t)'
  BY <1>1, KeptAgrees
<1>3. note'[t].pc = "idle" => NoteAgrees(t)'
  BY DEF NoteAgrees
<1>4. ASSUME NEW s \in Threads, NEW j \in Jobs, BeginNotify(s, j),
             jobs'[j].status \in {"complete", "failed"}
      PROVE  NoteAgrees(t)'
  BY <1>0, <1>2, <1>4, BegunAgrees
<1>5. ASSUME NEW j \in Jobs, Ends(j)
      PROVE  NoteAgrees(t)'
  BY <1>0, <1>4, <1>5, FailKeepsReceipt, ThreadNames DEF Ends
<1>6. ASSUME NEW j \in Jobs, RunnerPublish(j)
      PROVE  NoteAgrees(t)'
  BY <1>0, <1>4, <1>6, PublishedRecord, ThreadNames DEF RunnerPublish
<1>7. ASSUME NEW j \in Jobs, MarkRead(j)
      PROVE  NoteAgrees(t)'
  <2> DEFINE rec == FailedAs(jobs[j], "interrupted")
  <2>1. rec.status = "failed"
    BY <1>0 DEF FailedAs, TypeOK, StoreTypeOK, JobRecord
  <2>2. Step(Maint, "put", j, rec) /\ Active(j) /\ UNCHANGED jobs
    BY <1>7 DEF MarkRead, storeVars
  <2> HIDE DEF rec
  <2>3. /\ note'[Maint] = [pc |-> "put", job |-> j, snap |-> rec]
        /\ t # Maint => note'[t] = note[t]
    BY <1>0, <2>2, ThreadNames DEF Step, TypeOK, HookTypeOK
  <2>4. CASE t = Maint
    BY <2>1, <2>2, <2>3, <2>4 DEF NoteAgrees, Active
  <2> QED BY <1>2, <2>3, <2>4
<1>8. ASSUME NEW j \in Jobs, RetryNotify(j)
      PROVE  NoteAgrees(t)'
  BY <1>4, <1>8, ThreadNames DEF RetryNotify, NeedsRetry, storeVars
<1>9. CASE MarkWrite
  <2>1. note[Maint].job \in Jobs
    BY <1>0, <1>9, BusyNote, ThreadNames DEF MarkWrite, Quiet, TypeOK, HookTypeOK
  <2>2. jobs'[note[Maint].job].status = "failed"
    BY <1>0, <1>9, <2>1, ThreadNames DEF MarkWrite, WriteJob, Put, CopiesAgree, TypeOK,
       StoreTypeOK
  <2> QED BY <1>4, <1>9, <2>1, <2>2, ThreadNames DEF MarkWrite
<1>10. ASSUME NEW s \in Threads, Notify(s)
       PROVE  NoteAgrees(t)'
  BY <1>0, <1>1, <1>2, <1>10, NotifyAgrees, OthersRest
<1>11. ASSUME NEW s \in Threads, NotifyRaises(s)
       PROVE  NoteAgrees(t)'
  BY <1>0, <1>2, <1>3, <1>11 DEF NotifyRaises, EndNotify, IdleNote, TypeOK, HookTypeOK
<1>12. CASE Crash
  BY <1>3, <1>12 DEF Crash, IdleNote
<1>13. CASE Maintains
  BY <1>2, <1>7, <1>8, <1>9, <1>13 DEF Maintains, PurgeJobs, hookVars
<1>14. ASSUME NEW j \in Jobs, NEW k \in Keys \cup {NoKey}, NEW r \in Requests,
              PostCreate(j, k, r)
       PROVE  NoteAgrees(t)'
  BY <1>2, <1>14 DEF PostCreate, hookVars
<1>15. ASSUME NEW j \in Jobs,
              PostReject(j) \/ Rewrites(j) \/ RunnerCommit(j) \/ CommitRaises(j)
       PROVE  NoteAgrees(t)'
  BY <1>2, <1>15 DEF PostReject, Rewrites, RunnerCommit, CommitRaises, hookVars
<1> QED BY <1>0, <1>2, <1>5, <1>6, <1>10, <1>11, <1>12, <1>13, <1>14, <1>15, NextKinds
        DEF Kinds, Still

LEMMA StartupMarksStep ==
  ASSUME ServingInv, Serving, SteadyNext
  PROVE  StartupMarks'
<1>0. /\ IInv /\ TypeOK /\ CopiesAgree /\ StartupMarks
  BY DEF ServingInv, WebhookInv, IInv, Serving
<1> SUFFICES ASSUME mode' = "starting" PROVE StartupMarks'
  BY DEF StartupMarks
<1>1. mode # "up" /\ ~Crash /\ ~StartServing
  BY <1>0, WorkEffects, HttpEffects, ExpiryEffects
     DEF SteadyNext, Marks, Crash, Restart, StartServing, envVars, vars
<1>2. CASE Restart
  BY <1>2 DEF Restart, BeginPass, StartupMarks
<1>3. CASE Expires \/ UNCHANGED vars
  BY <1>0, <1>3, ExpiryEffects DEF vars, storeVars, hookVars, envVars, StartupMarks, Active
<1>4. CASE Marks
  <2>1. mode = "starting" /\ maint \in [phase: Phases, todo: SUBSET Jobs]
    BY <1>0, <1>4 DEF Marks, TypeOK, MaintTypeOK
  <2>2. CASE PurgeJobs
    BY <2>1, <2>2 DEF PurgeJobs, StartupMarks
  <2>3. CASE PurgeReports
    BY <2>3 DEF PurgeReports, StartupMarks, StoredJobs, Exists, Active
  <2>4. ASSUME NEW j \in Jobs, MarkRead(j)
        PROVE  StartupMarks'
    <3>1. /\ maint'.phase = "mark" /\ maint'.todo = maint.todo \ {j}
          /\ note'[Maint].pc = "put" /\ note'[Maint].job = j /\ UNCHANGED jobs
          /\ Quiet(Maint) /\ maint.phase = "mark"
      BY <1>0, <2>1, <2>4, ThreadNames DEF MarkRead, Drop, AtLoop, Step, TypeOK, HookTypeOK,
         storeVars
    <3> QED BY <1>0, <2>1, <3>1 DEF StartupMarks, Active, Quiet
  <2>5. CASE MarkWrite
    <3>1. note[Maint].job \in Jobs
      BY <1>0, <2>5, BusyNote, ThreadNames DEF MarkWrite, Quiet, TypeOK, HookTypeOK
    <3>2. /\ jobs'[note[Maint].job].status = "failed" /\ UNCHANGED maint
          /\ \A j \in Jobs : j # note[Maint].job => jobs'[j] = jobs[j]
      BY <1>0, <2>5, <3>1, ThreadNames DEF MarkWrite, WriteJob, Put, CopiesAgree, TypeOK,
         StoreTypeOK
    <3> QED BY <1>0, <2>1, <3>1, <3>2 DEF StartupMarks, Active
  <2>6. CASE MarkDone
    BY <1>0, <2>1, <2>6 DEF MarkDone, AtLoop, Quiet, StartupMarks, storeVars, Active
  <2>7. ASSUME NEW j \in Jobs, RetrySkip(j) \/ RetryNotify(j)
        PROVE  StartupMarks'
    BY <1>0, <2>1, <2>7 DEF RetrySkip, RetryNotify, AtLoop, Drop, StartupMarks, storeVars,
       Active
  <2>8. CASE RetryDone
    BY <1>0, <2>1, <2>8 DEF RetryDone, AtLoop, NoPass, StartupMarks, storeVars, Active
  <2>9. CASE NotifyStep(Maint)
    <3>1. note[Maint].pc # "put" /\ UNCHANGED maint
      BY <2>9 DEF NotifyStep, Notify, NotifySkip, NotifyRead, NotifySend, NotifyWrite
    <3>2. \A j \in Jobs : jobs'[j].status = jobs[j].status
      BY <1>0, <2>9, WrittenBackRecord, ThreadNames
         DEF NotifyStep, Notify, NotifySkip, NotifyRead, NotifySend, storeVars
    <3> QED BY <1>0, <2>1, <3>1, <3>2 DEF StartupMarks, Active
  <2> QED BY <1>4, <2>2, <2>3, <2>4, <2>5, <2>6, <2>7, <2>8, <2>9
          DEF Marks, MaintStep, Maintain
<1> QED BY <1>1, <1>2, <1>3, <1>4 DEF SteadyNext
-----------------------------------------------------------------------------
(* Handlers. *)

\* A handler that has begun never unbegins; a new one has a queued record.
LEMMA HandlerStep ==
  ASSUME TypeOK, [Next]_vars, NEW j \in Jobs
  PROVE  /\ sub'[j] = "none" => sub[j] = "none"
         /\ sub'[j] \in {"created", "refused"} =>
              \/ sub[j] \in {"created", "refused"}
              \/ sub[j] = "none" /\ jobs'[j].status = "queued"
         /\ sub'[j] = "answered" => sub[j] # "none"
<1> USE DEF TypeOK
<1>1. ASSUME NEW i \in Jobs, NEW k \in Keys \cup {NoKey}, NEW r \in Requests,
             PostCreate(i, k, r)
      PROVE  \/ sub'[j] = sub[j]
             \/ sub[j] = "none" /\ sub'[j] = "created" /\ jobs'[j].status = "queued"
  BY <1>1, CreatedRecord DEF PostCreate
<1>2. ASSUME NEW i \in Jobs, PostReject(i)
      PROVE  sub'[j] = sub[j] \/ (sub'[j] = "answered" /\ sub[j] # "none")
  BY <1>2 DEF PostReject
<1>3. ASSUME NEW i \in Jobs, Rewrites(i) \/ Ends(i) \/ CommitRaises(i)
      PROVE  sub'[j] = sub[j]
  BY <1>3 DEF Rewrites, Ends, CommitRaises, httpVars
<1>4. CASE Still
  BY <1>4 DEF Still, Onward
<1>5. CASE Crash
  BY <1>5 DEF Crash
<1>6. ASSUME NEW t \in Threads, NotifyRaises(t)
      PROVE  sub'[j] = sub[j]
  BY <1>6 DEF NotifyRaises, httpVars
<1>7. sub[j] \in {"none", "created", "refused", "answered"}
  BY DEF SubPCs
<1> QED BY <1>1, <1>2, <1>3, <1>4, <1>5, <1>6, <1>7, NextKinds DEF Kinds, Maintains

\* A step that changes the status of a job, and leaves it a record.
StatusChanges(j) ==
  \/ IsCreated(j) /\ jobs'[j].status = "queued"
  \/ IsPublished(j)
  \/ Active(j) /\ Rewrites(j) /\ jobs'[j].status = "cancelled"
  \/ Active(j) /\ Rewrites(j) /\ jobs'[j].status = "running" /\ sub[j] = "answered"
  \/ Active(j) /\ Ends(j) /\ jobs'[j].status = "failed" /\ sub[j] = "answered"
  \/ IsRejected(j)
  \/ Active(j) /\ MarkWrite /\ jobs'[j].status = "failed" /\ UNCHANGED sub

LEMMA StatusStep ==
  ASSUME ServingInv, Serving, [Next]_vars, NEW j \in Jobs
  PROVE  jobs'[j].status = jobs[j].status \/ IsPurged(j) \/ StatusChanges(j)
<1>0. /\ IInv /\ TypeOK /\ CopiesAgree /\ PoolIsAnswered
  BY DEF ServingInv, WebhookInv, IInv, Serving
<1>1. CASE IsRewritten(j) /\ Rewrites(j)
  <2>1. PICK rec \in JobRecord :
          /\ WriteJob(j, rec)
          /\ rec.status = "cancelled" \/ (rec.status = "running" /\ run[j] # "none")
    BY <1>1 DEF Rewrites
  <2>2. jobs'[j] = rec
    BY <1>0, <2>1 DEF WriteJob, Put, TypeOK, StoreTypeOK
  <2> QED BY <1>0, <1>1, <2>1, <2>2 DEF IsRewritten, StatusChanges, PoolIsAnswered
<1>2. CASE IsRewritten(j) /\ Ends(j)
  BY <1>0, <1>2, FailKeepsReceipt DEF IsRewritten, Ends, StatusChanges, PoolIsAnswered
<1>3. CASE IsCopied(j)
  <2>1. PICK t \in Threads :
          /\ \/ NotifyWrite(t) \/ (t = Maint /\ MarkWrite)
          /\ note[t].job = j /\ jobs'[j] = note[t].snap /\ UNCHANGED sub
    BY <1>3 DEF IsCopied
  <2> QED BY <1>0, <2>1 DEF CopiesAgree, NotifyWrite, MarkWrite, StatusChanges
<1> QED BY <1>0, <1>1, <1>2, <1>3, RecordStep
        DEF RecordMoves, StatusChanges, IsRewritten, IsCreated

LEMMA OfferedIsUntouchedStep ==
  ASSUME ServingInv, Serving, [Next]_vars, SteadyNext
  PROVE  OfferedIsUntouched'
<1>0. /\ IInv /\ TypeOK /\ OneAtATime /\ OneAtATime' /\ CommitIsRun /\ OfferedIsUntouched
  BY OneAtATimeStep DEF ServingInv, WebhookInv, IInv, Serving
<1> SUFFICES ASSUME NEW j \in Jobs, sub'[j] \in {"created", "refused"}
             PROVE  jobs'[j].status \in {"queued", "cancelled"}
  BY DEF OfferedIsUntouched
<1>1. CASE sub[j] \in {"created", "refused"}
  <2>1. ~IsPurged(j)
    BY <1>0, <1>1 DEF IsPurged, IInv, CopiesAreHarmless, OfferedIsStored
  <2>2. ~IsRejected(j) /\ ~IsPublished(j)
    BY <1>0, <1>1 DEF IsRejected, PostReject, IsPublished, CommitIsRun, OfferedIsUntouched,
       TypeOK
  <2>3. ~MarkWrite
    BY <1>0, <1>1, PassIsOver DEF OneAtATime, MaintStep, Maintain
  <2> QED BY <1>0, <1>1, <2>1, <2>2, <2>3, StatusStep DEF StatusChanges, OfferedIsUntouched
<1> QED BY <1>0, <1>1, HandlerStep

-----------------------------------------------------------------------------
(* Reports and events. *)

LEMMA ReportStep ==
  ASSUME TypeOK, [Next]_vars, SteadyNext, NEW j \in Jobs, j \in reports', j \notin reports
  PROVE  RunnerCommit(j)
<1>1. ASSUME NEW i \in Jobs, Pool(i)
      PROVE  UNCHANGED reports \/ (RunnerCommit(i) /\ reports' = reports \cup {i})
  BY <1>1 DEF Pool, RunnerClaim, RunnerDeclined, RunnerCommit, RunnerPublish, RunnerLate,
     RunnerFail, RunnerFailLate, WatcherTimeout, WatcherRelease, Claim, Fail, WriteJob,
     OpenCommit, CloseCommit, storeVars
<1>2. ASSUME NEW t \in Threads, NotifyStep(t)
      PROVE  UNCHANGED reports
  BY <1>2 DEF NotifyStep, Notify, NotifySkip, NotifyRead, NotifySend, NotifyWrite, WriteJob,
     storeVars
<1>3. CASE Work
  BY <1>1, <1>2, <1>3 DEF Work, TakeStep, WorkerTake, PoolStep, storeVars
<1>4. CASE Http
  BY <1>4, HttpEffects
<1>5. CASE Marks
  BY <1>2, <1>5, ThreadNames DEF Marks, MaintStep, Maintain, PurgeJobs, PurgeReports,
     MarkRead, RetrySkip, RetryNotify, MarkWrite, MarkDone, RetryDone, WriteJob, storeVars
<1>6. CASE Expires \/ Crash \/ Restart \/ StartServing \/ UNCHANGED vars
  BY <1>6, ExpiryEffects DEF Crash, Restart, StartServing, vars, storeVars
<1> QED BY <1>3, <1>4, <1>5, <1>6 DEF SteadyNext

LEMMA ReportIsCommittedStep ==
  ASSUME ServingInv, Serving, [Next]_vars, SteadyNext
  PROVE  ReportIsCommitted'
<1>0. /\ IInv /\ TypeOK /\ PoolIsAnswered /\ ReportIsCommitted /\ StartupMarks /\ OneAtATime
  BY DEF ServingInv, WebhookInv, IInv, Serving
<1> SUFFICES ASSUME NEW j \in Jobs, j \in reports'
             PROVE  /\ sub'[j] # "none"
                    /\ mode' = "up" /\ Active(j)' => lock'.job = j
  BY DEF ReportIsCommitted
<1>1. CASE j \notin reports
  <2>1. RunnerCommit(j)
    BY <1>0, <1>1, ReportStep
  <2> QED BY <1>0, <2>1, AnsweredStays DEF RunnerCommit, OpenCommit, PoolIsAnswered
<1>2. CASE j \in reports
  <2>1. sub[j] # "none" /\ sub'[j] # "none"
    BY <1>0, <1>2, HandlerStep DEF ReportIsCommitted
  <2>2. SUFFICES ASSUME mode' = "up", Active(j)' PROVE lock'.job = j
    BY <2>1
  <2>3. Active(j)
    BY <1>0, <2>1, <2>2, ActiveIsNew
  <2>4. ~StartServing
    BY <1>0, <2>3 DEF StartServing, StartupMarks, NoPass
  <2>5. mode = "up"
    BY <2>2, <2>4, ExpiryEffects DEF SteadyNext, Marks, Crash, Restart, envVars, vars
  <2>6. lock.job = j
    BY <1>0, <1>2, <2>3, <2>5 DEF ReportIsCommitted
  <2>7. ASSUME NEW i \in Jobs, Pool(i)
        PROVE  lock'.job = j
    <3>1. CASE RunnerPublish(i)
      BY <1>0, <2>2, <2>6, <3>1, PublishedRecord DEF Active
    <3>2. ~RunnerCommit(i)
      BY <2>6, StoreAssumption DEF RunnerCommit, OpenCommit, LockFree
    <3> QED BY <2>6, <2>7, <3>1, <3>2 DEF Pool, RunnerClaim, RunnerDeclined, RunnerLate,
               RunnerFail, RunnerFailLate, WatcherTimeout, WatcherRelease, Claim, Fail,
               WriteJob, storeVars
  <2>8. ASSUME NEW t \in Threads, NotifyStep(t)
        PROVE  lock'.job = j
    BY <2>6, <2>8 DEF NotifyStep, Notify, NotifySkip, NotifyRead, NotifySend, NotifyWrite,
       WriteJob, storeVars
  <2>9. Work => lock'.job = j
    BY <2>6, <2>7, <2>8 DEF Work, TakeStep, WorkerTake, PoolStep, storeVars
  <2> QED BY <2>2, <2>4, <2>5, <2>6, <2>9, HttpEffects, ExpiryEffects
          DEF SteadyNext, Marks, Crash, Restart, vars, storeVars
<1> QED BY <1>1, <1>2
\* Nothing has been posted about a job whose status changes.
LEMMA ChangedIsSilent ==
  ASSUME ServingInv, Serving, NEW j \in Jobs, StatusChanges(j)
  PROVE  sent[j] = {}
<1>1. CASE IsRejected(j)
  <2>1. jobs[j].status \in {"queued", "cancelled"}
    BY <1>1 DEF IsRejected, PostReject, Serving, OfferedIsUntouched
  <2> QED BY <2>1 DEF ServingInv, WebhookInv, NothingIsEarly, Active, Serving,
             PostedIsVerdict
<1> QED BY <1>1 DEF StatusChanges, IsCreated, IsPublished, ServingInv, WebhookInv,
           NothingIsEarly

LEMMA PostedIsVerdictStep ==
  ASSUME ServingInv, Serving, [Next]_vars
  PROVE  PostedIsVerdict'
<1>0. /\ IInv /\ TypeOK /\ CopiesAgree /\ PostedIsVerdict /\ WebhookInv
  BY DEF ServingInv, WebhookInv, IInv, Serving
<1> SUFFICES ASSUME NEW j \in Jobs
             PROVE  /\ jobs'[j].status = "cancelled" => sent'[j] = {}
                    /\ jobs'[j].status \in {"complete", "failed"} =>
                         sent'[j] \subseteq {EventOf(jobs[j])'}
  BY DEF PostedIsVerdict
<1>1. CASE sent'[j] = sent[j]
  <2>1. CASE jobs'[j].status = jobs[j].status
    BY <1>0, <1>1, <2>1 DEF PostedIsVerdict, EventOf
  <2>2. CASE IsPurged(j)
    BY <2>2 DEF IsPurged, Absent
  <2>3. CASE StatusChanges(j)
    BY <1>1, <2>3, ChangedIsSilent
  <2> QED BY <2>1, <2>2, <2>3, StatusStep
<1>2. ASSUME NEW t \in Threads, NotifySend(t), note[t].job = j
      PROVE  /\ jobs'[j].status = "cancelled" => sent'[j] = {}
             /\ jobs'[j].status \in {"complete", "failed"} =>
                  sent'[j] \subseteq {EventOf(jobs[j])'}
  <2>1. /\ sent'[j] = sent[j] \cup {EventOf(note[t].snap)} /\ UNCHANGED jobs
    BY <1>0, <1>2 DEF NotifySend, storeVars, TypeOK, HookTypeOK
  <2>2. /\ jobs[j].status \in {"complete", "failed"}
        /\ note[t].snap.status = jobs[j].status
    BY <1>0, <1>2 DEF NotifySend, CopiesAgree
  <2> QED BY <1>0, <2>1, <2>2 DEF PostedIsVerdict, EventOf
<1> QED BY <1>0, <1>1, <1>2, PostStep

-----------------------------------------------------------------------------
(* Cancellations. *)

\* Who takes up a job to notify about.
LEMMA TakenUp ==
  ASSUME TypeOK, [Next]_vars, NEW j \in Jobs, Busy(j)'
  PROVE  \/ Busy(j)
         \/ Ends(j) \/ RunnerPublish(j) \/ MarkRead(j) \/ RetryNotify(j)
<1>1. PICK t \in Threads : note'[t].job = j
  BY DEF Busy
<1>2. note'[t].job = note[t].job => Busy(j)
  BY <1>1 DEF Busy
<1>3. ASSUME NEW s \in Threads, NEW pc, NEW i, NEW rec, Step(s, pc, i, rec)
      PROVE  note'[t].job = note[t].job \/ (s = t /\ i = j)
  BY <1>1, <1>3 DEF Step, TypeOK, HookTypeOK
<1>4. ASSUME NEW s \in Threads, NEW i, BeginNotify(s, i)
      PROVE  note'[t].job = note[t].job \/ (s = t /\ i = j)
  BY <1>3, <1>4 DEF BeginNotify
<1>5. ASSUME NEW s \in Threads, EndNotify(s)
      PROVE  note'[t].job = note[t].job
  BY <1>1, <1>5, StoreAssumption DEF EndNotify, IdleNote, TypeOK, HookTypeOK
<1>6. ASSUME NEW i \in Jobs, Ends(i) \/ RunnerPublish(i)
      PROVE  Busy(j) \/ Ends(j) \/ RunnerPublish(j)
  BY <1>2, <1>4, <1>6, ThreadNames DEF Ends, RunnerPublish
<1>7. ASSUME NEW s \in Threads, Notify(s)
      PROVE  Busy(j)
  <2>1. CASE NotifySkip(s) \/ NotifyWrite(s)
    BY <1>2, <1>5, <2>1 DEF NotifySkip, NotifyWrite
  <2>2. CASE NotifyRead(s)
    BY <1>2, <1>3, <2>2 DEF NotifyRead, Busy
  <2>3. CASE NotifySend(s)
    <3>1. PICK n \in 1..WebhookAttempts, ok \in BOOLEAN :
            Step(s, "write", note[s].job, Receipt(note[s].snap, ok, n))
      BY <2>3 DEF NotifySend
    <3> QED BY <1>2, <1>3, <3>1 DEF Busy
  <2> QED BY <1>7, <2>1, <2>2, <2>3 DEF Notify
<1>8. ASSUME NEW s \in Threads, NotifyRaises(s)
      PROVE  Busy(j)
  BY <1>2, <1>5, <1>8 DEF NotifyRaises
<1>9. ~Crash
  BY <1>1, StoreAssumption DEF Crash, IdleNote
<1>10. ASSUME NEW i \in Jobs, MarkRead(i) \/ RetryNotify(i)
       PROVE  Busy(j) \/ MarkRead(j) \/ RetryNotify(j)
  BY <1>2, <1>3, <1>4, <1>10, ThreadNames DEF MarkRead, RetryNotify
<1>11. CASE MarkWrite
  BY <1>2, <1>4, <1>11, ThreadNames DEF MarkWrite, Busy
<1>12. CASE Maintains
  BY <1>2, <1>10, <1>11, <1>12 DEF Maintains, PurgeJobs, hookVars
<1>13. UNCHANGED note => Busy(j)
  BY <1>2
<1>14. ASSUME NEW i \in Jobs, NEW k \in Keys \cup {NoKey}, NEW r \in Requests,
              PostCreate(i, k, r)
       PROVE  Busy(j)
  BY <1>13, <1>14 DEF PostCreate, hookVars
<1>15. ASSUME NEW i \in Jobs,
              PostReject(i) \/ Rewrites(i) \/ RunnerCommit(i) \/ CommitRaises(i)
       PROVE  Busy(j)
  BY <1>13, <1>15 DEF PostReject, Rewrites, RunnerCommit, CommitRaises, hookVars
<1> QED BY <1>6, <1>7, <1>8, <1>9, <1>12, <1>13, <1>14, <1>15, NextKinds DEF Kinds, Still

LEMMA ToldStep ==
  ASSUME TypeOK, SteadyNext, NEW j \in Jobs, "cancelled" \in told'[j]
  PROVE  "cancelled" \in told[j] \/ (mode = "up" /\ DeleteJob(j))
<1> USE DEF TypeOK
<1>1. ASSUME NEW i \in Jobs, NEW answer \in {"accepted", "rejected"}, Tell(i, answer)
      PROVE  "cancelled" \in told[j]
  BY <1>1 DEF Tell
<1>2. UNCHANGED told => "cancelled" \in told[j]
  OBVIOUS
<1>3. ASSUME NEW i \in Jobs, DeleteJob(i)
      PROVE  "cancelled" \in told[j] \/ DeleteJob(j)
  BY <1>3 DEF DeleteJob, Tell
<1>4. CASE mode = "up" /\ Http
  BY <1>1, <1>2, <1>3, <1>4 DEF Http, PostCreate, PostReplay, PostSubmit, PostQueueFull,
     PostReject
<1>5. CASE Work \/ Marks \/ Expires \/ UNCHANGED vars
  BY <1>2, <1>5, WorkEffects, ExpiryEffects DEF Marks, httpVars, vars
<1>6. CASE Crash \/ Restart \/ StartServing
  BY <1>2, <1>6 DEF Crash, Restart, StartServing, httpVars
<1> QED BY <1>4, <1>5, <1>6 DEF SteadyNext

LEMMA CancelledIsOverStep ==
  ASSUME ServingInv, Serving, [Next]_vars, SteadyNext
  PROVE  CancelledIsOver'
<1>0. /\ IInv /\ TypeOK /\ CopiesAgree /\ WebhookInv /\ CancelledIsOver /\ CommitIsRun
      /\ ReportIsCommitted /\ OfferedIsUntouched
  BY DEF ServingInv, WebhookInv, IInv, Serving
<1> SUFFICES ASSUME NEW j \in Jobs, "cancelled" \in told'[j]
             PROVE  /\ sent'[j] = {} /\ j \notin reports' /\ sub'[j] # "none"
                    /\ jobs'[j].status \in {"cancelled", "failed", "absent"}
                    /\ jobs'[j].status = "failed" => ~Busy(j)' /\ jobs'[j].hook = "none"
  BY DEF CancelledIsOver
<1>1. CASE mode = "up" /\ DeleteJob(j)
  <2>1. Active(j) /\ jobs'[j].status = "cancelled" /\ LockFree /\ UNCHANGED <<reports, sent, sub>>
    BY <1>0, <1>1, CancelledRecord DEF DeleteJob, hookVars
  <2>2. sent[j] = {} /\ sub[j] # "none"
    BY <1>0, <2>1 DEF WebhookInv, NothingIsEarly, IInv, CopiesAreHarmless, FreshIds, Exists,
       Active
  <2>3. j \notin reports
    BY <1>0, <1>1, <2>1, StoreAssumption DEF ReportIsCommitted, LockFree
  <2> QED BY <2>1, <2>2, <2>3
<1>2. CASE "cancelled" \in told[j]
  <2>1. /\ sent[j] = {} /\ j \notin reports /\ sub[j] # "none"
        /\ jobs[j].status \in {"cancelled", "failed", "absent"}
        /\ jobs[j].status = "failed" => ~Busy(j) /\ jobs[j].hook = "none"
    BY <1>0, <1>2 DEF CancelledIsOver
  <2>2. ~Active(j) /\ lock.job # j
    BY <1>0, <2>1 DEF Active, CommitIsRun
  <2>3. ~Busy(j)
    <3>1. SUFFICES ASSUME NEW t \in Threads, note[t].job = j PROVE jobs[j].status = "failed"
      BY <2>1 DEF Busy
    <3>2. note[t].pc \in {"put", "read", "send", "write"}
      BY <1>0, <3>1, StoreAssumption DEF TypeOK, HookTypeOK, NoteState, IdleNote
    <3> QED BY <1>0, <2>1, <2>2, <3>1, <3>2 DEF CopiesAgree
  <2>4. sent'[j] = {}
    BY <1>0, <2>1, <2>3, PostStep DEF Busy
  <2>5. j \notin reports'
    BY <1>0, <2>1, ReportStep DEF RunnerCommit, OpenCommit
  <2>6. sub'[j] # "none"
    BY <1>0, <2>1, HandlerStep
  <2>7. CASE IsRejected(j)
    <3>1. jobs'[j].status = "failed" /\ jobs'[j].hook = "none" /\ UNCHANGED note
      BY <2>7 DEF IsRejected, PostReject, hookVars
    <3> QED BY <2>3, <2>4, <2>5, <2>6, <3>1 DEF Busy
  <2>8. CASE jobs'[j] = jobs[j]
    <3>1. jobs[j].status = "failed" => ~Busy(j)'
      <4>1. ~Ends(j)
        BY <1>0, <2>2, FailKeepsReceipt DEF Ends
      <4>2. ~RunnerPublish(j)
        BY <1>0, <2>2, PublishedRecord
      <4>3. jobs[j].status = "failed" => ~MarkRead(j) /\ ~RetryNotify(j)
        BY <2>1, <2>2 DEF MarkRead, RetryNotify, NeedsRetry
      <4> QED BY <1>0, <2>3, <4>1, <4>2, <4>3, TakenUp
    <3> QED BY <2>1, <2>4, <2>5, <2>6, <2>8, <3>1
  <2>9. CASE IsPurged(j)
    BY <2>4, <2>5, <2>6, <2>9 DEF IsPurged, Absent
  <2>10. ~IsCreated(j) /\ ~IsPublished(j) /\ ~IsRewritten(j) /\ ~IsCopied(j)
    BY <2>1, <2>2, <2>3 DEF IsCreated, IsPublished, IsRewritten, IsCopied, Busy
  <2> QED BY <1>0, <2>7, <2>8, <2>9, <2>10, RecordStep DEF RecordMoves
<1> QED BY <1>0, <1>1, <1>2, ToldStep

-----------------------------------------------------------------------------
(* Workers. *)

LEMMA FewerFit ==
  ASSUME NEW S, NEW T, Fits(S), T \subseteq S
  PROVE  Fits(T)
<1>1. IsFiniteSet(T) /\ Cardinality(T) <= Cardinality(S)
  BY FS_Subset DEF Fits
<1>2. Cardinality(T) \in Nat /\ Cardinality(S) \in Nat
  BY <1>1, FS_CardinalityType DEF Fits
<1> QED BY <1>1, <1>2, PoolAssumption DEF Fits

\* A worker is taken by the job it takes, and by no other.
LEMMA OccupiedStep ==
  ASSUME TypeOK, Serving, SteadyNext, NEW j \in Jobs, Occupies(j)'
  PROVE  Occupies(j) \/ (TakeStep /\ j = Head(queue))
<1> USE ThreadNames, ThreadKinds DEF Occupies, Quiet
<1>1. CASE watch'[j] = watch[j] /\ note'[Watcher(j)] = note[Watcher(j)]
  BY <1>1
<1>2. ASSUME NEW i \in Jobs, Pool(i), i # j
      PROVE  Occupies(j)
  <2>1. note'[Watcher(j)] = note[Watcher(j)]
    BY <1>2 DEF Pool, RunnerClaim, RunnerDeclined, RunnerCommit, RunnerPublish, RunnerLate,
       RunnerFail, RunnerFailLate, WatcherTimeout, WatcherRelease, hookVars, BeginNotify,
       Step, TypeOK, HookTypeOK
  <2> QED BY <1>1, <1>2, <2>1, PoolEffects
<1>3. CASE Pool(j)
  <2>1. CASE WatcherTimeout(j)
    BY <2>1 DEF WatcherTimeout
  <2>2. CASE WatcherRelease(j)
    BY <2>2 DEF WatcherRelease
  <2>3. CASE ~WatcherTimeout(j) /\ ~WatcherRelease(j)
    <3>1. UNCHANGED watch /\ (UNCHANGED note \/ BeginNotify(Runner(j), j))
      BY <1>3, <2>3 DEF Pool, RunnerClaim, RunnerDeclined, RunnerCommit, RunnerPublish,
         RunnerLate, RunnerFail, RunnerFailLate, hookVars, poolVars
    <3>2. BeginNotify(Runner(j), j) => note'[Watcher(j)] = note[Watcher(j)]
      BY DEF BeginNotify, Step, TypeOK, HookTypeOK
    <3> QED BY <1>1, <3>1, <3>2
  <2> QED BY <2>1, <2>2, <2>3
<1>4. ASSUME NEW t \in Threads, NotifyStep(t)
      PROVE  Occupies(j)
  <2>1. UNCHANGED watch /\ (t # Watcher(j) => note'[Watcher(j)] = note[Watcher(j)])
        /\ note[t].pc # "idle"
    BY <1>4, OthersRest DEF NotifyStep, poolVars, Notify, NotifySkip, NotifyRead, NotifySend,
       NotifyWrite
  <2> QED BY <1>1, <2>1
<1>5. CASE TakeStep
  BY <1>5, TakeEffects DEF TakeStep, hookVars
<1>6. CASE Work
  BY <1>2, <1>3, <1>4, <1>5, <1>6 DEF Work, PoolStep
<1>7. CASE Http \/ Marks \/ Expires \/ UNCHANGED vars
  BY <1>1, <1>7, HttpEffects, MaintEffects, ExpiryEffects DEF Marks, vars, poolVars, hookVars
<1>8. CASE Crash
  BY <1>8 DEF Crash, TypeOK, PoolTypeOK
<1>9. CASE Restart \/ StartServing
  BY <1>1, <1>9 DEF Restart, StartServing, poolVars, hookVars
<1> QED BY <1>6, <1>7, <1>8, <1>9 DEF SteadyNext

LEMMA RunningFitsStep ==
  ASSUME ServingInv, Serving, [Next]_vars, SteadyNext
  PROVE  RunningFits'
<1>0. /\ IInv /\ TypeOK /\ CopiesAgree /\ Fits(Occupied) /\ Fits(Running)
  BY DEF ServingInv, WebhookInv, IInv, Serving, RunningFits
<1>1. Fits(Occupied')
  <2>1. CASE TakeStep
    <3>1. PICK h \in Jobs : h = Head(queue)
      BY <1>0, <2>1, TakeEffects DEF TakeStep
    <3>2. Occupied' \subseteq Occupied \cup {h}
      BY <1>0, <3>1, OccupiedStep DEF Occupied
    <3>3. IsFiniteSet(Occupied) /\ Cardinality(Occupied) < MaxWorkers
      BY <1>0, <2>1 DEF Fits, TakeStep, WorkerTake
    <3>4. /\ IsFiniteSet(Occupied \cup {h})
          /\ \/ Cardinality(Occupied \cup {h}) = Cardinality(Occupied)
             \/ Cardinality(Occupied \cup {h}) = Cardinality(Occupied) + 1
      BY <3>3, FS_AddElement
    <3>5. Cardinality(Occupied) \in Nat
      BY <3>3, FS_CardinalityType
    <3>6. Fits(Occupied \cup {h})
      BY <3>3, <3>4, <3>5, PoolAssumption DEF Fits
    <3> QED BY <3>2, <3>6, FewerFit
  <2>2. CASE ~TakeStep
    <3>1. Occupied' \subseteq Occupied
      BY <1>0, <2>2, OccupiedStep DEF Occupied
    <3> QED BY <1>0, <3>1, FewerFit
  <2> QED BY <2>1, <2>2
<1>2. Fits(Running')
  <2>1. CASE mode' = "up"
    <3>1. Running' \subseteq Occupied'
      BY <2>1, ActiveIsInHandsStep DEF ActiveIsInHands, InHands, Running, Occupied, Occupies
    <3> QED BY <1>1, <3>1, FewerFit
  <2>2. CASE mode' # "up"
    <3>1. CASE Marks
      <4>1. ASSUME NEW j \in Jobs, jobs'[j].status = "running"
            PROVE  jobs[j].status = "running"
        <5>1. CASE PurgeJobs
          BY <4>1, <5>1 DEF PurgeJobs, Absent
        <5>2. CASE MarkWrite
          BY <1>0, <4>1, <5>2, ThreadNames, BusyNote DEF MarkWrite, WriteJob, Put,
             CopiesAgree, TypeOK, StoreTypeOK, HookTypeOK, Quiet
        <5>3. CASE NotifyStep(Maint)
          BY <1>0, <4>1, <5>3, WrittenBackRecord, ThreadNames
             DEF NotifyStep, Notify, NotifySkip, NotifyRead, NotifySend, storeVars
        <5> QED BY <3>1, <4>1, <5>1, <5>2, <5>3 DEF Marks, MaintStep, Maintain, PurgeReports,
                MarkRead, RetrySkip, RetryNotify, MarkDone, RetryDone, storeVars
      <4>2. Running' \subseteq Running
        BY <4>1 DEF Running
      <4> QED BY <1>0, <4>2, FewerFit
    <3>2. CASE ~Marks
      <4>1. UNCHANGED jobs
        BY <1>0, <2>2, <3>2, HttpEffects, WorkEffects, ExpiryEffects
           DEF SteadyNext, Crash, Restart, StartServing, storeVars, vars
      <4>2. Running' = Running
        BY <4>1 DEF Running
      <4> QED BY <1>0, <4>2
    <3> QED BY <3>1, <3>2
  <2> QED BY <2>1, <2>2
<1> QED BY <1>1, <1>2 DEF RunningFits, Fits
-----------------------------------------------------------------------------
(* The invariant. *)

LEMMA FaultsStep ==
  ASSUME TypeOK, faults <= MaxFaults, [Next]_vars
  PROVE  faults' <= MaxFaults
<1> USE ServiceAssumption
<1>1. UNCHANGED faults => faults' <= MaxFaults
  OBVIOUS
<1>2. CASE Faults
  BY <1>2 DEF Faults, ClaimRaises, CommitRaises, FailRaises, WatchRaises, RejectRaises,
     NotifyRaises, Fault, TypeOK
<1>3. CASE Http \/ Work \/ (MaintStep /\ UNCHANGED <<httpVars, envVars>>)
           \/ UNCHANGED vars \/ Tick
  BY <1>1, <1>3 DEF Http, PostCreate, PostReplay, PostSubmit, PostQueueFull, PostReject,
     DeleteJob, Work, Tick, envVars, vars
<1>4. CASE Expires \/ Crash \/ Restart \/ StartServing
  BY <1>1, <1>4 DEF Expires, ExpireReport, ExpireJob, Crash, Restart, StartServing, envVars
<1> QED BY <1>2, <1>3, <1>4 DEF Next, Expires

LEMMA ServingInit == Init => ServingInv
<1> SUFFICES ASSUME Init PROVE ServingInv
  OBVIOUS
<1> USE StoreAssumption, ThreadNames DEF Quiet
<1>1. WebhookInv /\ faults <= MaxFaults
  BY WebhookInit, ServiceAssumption DEF Init
<1>2. /\ sub = [j \in Jobs |-> "none"] /\ sent = [j \in Jobs |-> {}] /\ queue = <<>>
      /\ run = [j \in Jobs |-> "none"] /\ watch = [j \in Jobs |-> "none"]
      /\ jobs = [j \in Jobs |-> Absent] /\ lock = Unlocked /\ mode = "up"
      /\ maint = NoPass /\ reports = {} /\ told = [j \in Jobs |-> {}]
  BY DEF Init, StoreInit, HookInit, PoolInit, MaintInit
<1>3. \A t \in Threads : note[t].pc = "idle"
  BY DEF Init, HookInit, IdleNote
<1>4. OneAtATime /\ PoolIsOrderly /\ CommitIsRun /\ ActiveIsInHands
  BY <1>2, <1>3 DEF OneAtATime, PoolIsOrderly, CommitIsRun, ActiveIsInHands, InHands,
     Unlocked, Absent
<1>5. StartupMarks /\ CopiesAgree /\ OfferedIsUntouched /\ ReportIsCommitted
  BY <1>2, <1>3 DEF StartupMarks, CopiesAgree, OfferedIsUntouched, ReportIsCommitted
<1>6. PostedIsVerdict /\ CancelledIsOver
  BY <1>2 DEF PostedIsVerdict, CancelledIsOver
<1>7. Fits({})
  BY FS_EmptySet, PoolAssumption DEF Fits
<1>8. Occupied = {} /\ Running = {}
  BY <1>2 DEF Occupied, Occupies, Running, Absent
<1> QED BY <1>1, <1>4, <1>5, <1>6, <1>7, <1>8 DEF ServingInv, Serving, RunningFits

LEMMA ServingStep == ServingInv /\ [Next]_vars => ServingInv'
<1> SUFFICES ASSUME ServingInv, [Next]_vars PROVE ServingInv'
  OBVIOUS
<1>0. TypeOK
  BY DEF ServingInv, WebhookInv, IInv
<1>1. WebhookInv' /\ faults' <= MaxFaults
  BY <1>0, WebhookStep, FaultsStep DEF ServingInv
<1>2. ASSUME Steady'
      PROVE  Serving'
  <2>1. Serving /\ SteadyNext
    BY <1>2, SteadySteps
  <2>2. OneAtATime'
    BY <1>0, <2>1, OneAtATimeStep DEF Serving
  <2> QED BY <2>1, <2>2, PoolIsOrderlyStep, CommitIsRunStep, ActiveIsInHandsStep,
             StartupMarksStep, CopiesAgreeStep, OfferedIsUntouchedStep,
             ReportIsCommittedStep, PostedIsVerdictStep, CancelledIsOverStep,
             RunningFitsStep DEF Serving
<1> QED BY <1>1, <1>2 DEF ServingInv

\* The invariant of a serving process holds in every state of every execution.
THEOREM ServingStaysSound == Spec => []ServingInv
BY ServingInit, ServingStep, PTL DEF Spec

-----------------------------------------------------------------------------
(* What clients are promised. *)

\* A queued or running job of a serving process is with its handler, in the
\* queue, or watched by a worker (ScanWorkerPool, serve), for any number of
\* jobs, workers and crashes: the startup pass ends what a crash left behind.
THEOREM NoJobIsWedged == Spec => [](Steady => NoWedgedJob)
<1>1. ServingInv => (Steady => NoWedgedJob)
  BY DEF ServingInv, Serving, ActiveIsInHands, InHands, NoWedgedJob, Active
<1> QED BY <1>1, ServingStaysSound, PTL

\* A client that was answered "cancelled" (JobStore.cancel) never sees a report
\* of the job, and no event is posted about it.
THEOREM CancellationsAreHonoured == Spec => [](Steady => CancelHonoured)
<1>1. ServingInv => (Steady => CancelHonoured)
  BY DEF ServingInv, Serving, CancelledIsOver, CancelHonoured
<1> QED BY <1>1, ServingStaysSound, PTL

LEMMA NoFaultIsSteady ==
  ASSUME ~LiveMaintenance, MaxFaults = 0
  PROVE  ServingInv => Steady
BY DEF ServingInv, WebhookInv, IInv, TypeOK, Steady

-----------------------------------------------------------------------------
(* The refinement of JobLifecycle. *)

\* What a step does to the life of one job.
LEMMA LifeStep ==
  ASSUME ServingInv, Serving, [Next]_vars, SteadyNext, NEW j \in Jobs
  PROVE  Life(j)' = Life(j) \/ <<Life(j), Life(j)'>> \in Lifecycle!Moves
<1>0. /\ IInv /\ TypeOK /\ TypeOK' /\ OneAtATime /\ PoolIsAnswered /\ CommitIsRun
      /\ OfferedIsUntouched
  BY TypeStep DEF ServingInv, WebhookInv, IInv, Serving
<1>1. sub[j] = "none" => ~Exists(j)
  BY <1>0 DEF IInv, CopiesAreHarmless, FreshIds
<1>2. sub[j] \in {"created", "refused"} => Exists(j) /\ j \notin oldJobs
  BY <1>0 DEF IInv, CopiesAreHarmless, OfferedIsStored
<1>3. /\ sub[j] \in SubPCs /\ sub'[j] \in SubPCs
      /\ jobs[j].status \in Statuses /\ jobs'[j].status \in Statuses
  BY <1>0 DEF TypeOK, StoreTypeOK, JobRecord
<1>4. CASE jobs'[j].status = jobs[j].status
  <2>1. CASE sub[j] \in {"created", "refused"} /\ sub'[j] = "answered"
    BY <1>0, <1>2, <1>4, <2>1 DEF OfferedIsUntouched, Life, Exists, Lifecycle!Moves
  <2>2. CASE sub'[j] = sub[j] \/ (sub[j] \in {"created", "refused"}
                                  /\ sub'[j] \in {"created", "refused"})
    BY <1>4, <2>2 DEF Life, Exists
  <2>3. CASE sub[j] = "none" /\ sub'[j] \in {"created", "refused"}
    BY <1>1, <2>3 DEF Life, Exists, Lifecycle!Moves
  <2> QED BY <1>0, <1>3, <2>1, <2>2, <2>3, HandlerStep, AnsweredStays DEF SubPCs
<1>5. CASE IsPurged(j)
  <2>1. /\ sub'[j] = sub[j] /\ sub[j] \notin {"created", "refused"}
        /\ jobs'[j].status = "absent"
    BY <1>2, <1>5 DEF IsPurged, Absent
  <2> QED BY <1>1, <1>3, <2>1 DEF Life, Exists, Statuses, Lifecycle!Moves, Lifecycle!Ended
<1>6. CASE IsCreated(j)
  BY <1>1, <1>6 DEF IsCreated, Life, Exists, Lifecycle!Moves
<1>7. CASE IsPublished(j)
  <2>1. jobs[j].status = "running" /\ sub[j] = "answered"
    BY <1>0, <1>7 DEF IsPublished, CommitIsRun, PoolIsAnswered
  <2>2. sub'[j] = "answered" /\ jobs'[j].status = "complete"
    BY <1>0, <1>7, <2>1, AnsweredStays DEF IsPublished
  <2> QED BY <2>1, <2>2 DEF Life, Exists, Lifecycle!Moves
<1>8. CASE Active(j) /\ Rewrites(j) /\ jobs'[j].status = "cancelled"
  BY <1>1, <1>3, <1>8 DEF Rewrites, Active, Life, Exists, Lifecycle!Moves
<1>9. CASE Active(j) /\ Rewrites(j) /\ jobs'[j].status = "running" /\ sub[j] = "answered"
  BY <1>9 DEF Rewrites, Active, Life, Exists, Lifecycle!Moves
<1>10. CASE Active(j) /\ Ends(j) /\ jobs'[j].status = "failed" /\ sub[j] = "answered"
  BY <1>10 DEF Ends, Active, Life, Exists, Lifecycle!Moves
<1>11. CASE IsRejected(j)
  <2>1. sub[j] = "refused" /\ sub'[j] = "answered" /\ jobs'[j].status = "failed"
    BY <1>0, <1>11 DEF IsRejected, PostReject, TypeOK
  <2> QED BY <2>1 DEF Life, Exists, Lifecycle!Moves
<1>12. CASE Active(j) /\ MarkWrite /\ jobs'[j].status = "failed" /\ UNCHANGED sub
  <2>1. sub[j] \in {"none", "answered"}
    BY <1>0, <1>12, PassIsOver DEF OneAtATime, MaintStep, Maintain
  <2> QED BY <1>1, <1>12, <2>1 DEF Active, Life, Exists, Lifecycle!Moves
<1> QED BY <1>0, <1>4, <1>5, <1>6, <1>7, <1>8, <1>9, <1>10, <1>11, <1>12, StatusStep
        DEF StatusChanges

\* An event of a job is posted.
LEMMA AnnounceStep ==
  ASSUME ServingInv, Serving, NEW t \in Threads, NotifySend(t), UNCHANGED sub
  PROVE  Lifecycle!Announce(note[t].job)
<1> DEFINE j == note[t].job
           event == EventOf(jobs[j])
<1>0. TypeOK /\ CopiesAgree /\ PostedIsVerdict /\ WebhookInv
  BY DEF ServingInv, WebhookInv, IInv, Serving
<1>1. /\ j \in Jobs /\ jobs[j].status \in {"complete", "failed"}
      /\ EventOf(note[t].snap) = event
  BY <1>0, SenderEnded DEF NotifySend, CopiesAgree, EventOf
<1>2. sub[j] \notin {"created", "refused"}
  BY <1>0, <1>1 DEF Serving, OfferedIsUntouched
<1>3. Life(j) = jobs[j].status
  BY <1>1, <1>2 DEF Life, Exists
<1>4. \A i \in Jobs : Life(i)' = Life(i)
  BY DEF NotifySend, storeVars, Life, Exists
<1>5. sent' = [sent EXCEPT ![j] = {event}]
  <2>1. sent' = [sent EXCEPT ![j] = sent[j] \cup {event}]
    BY <1>0, <1>1 DEF NotifySend, TypeOK, HookTypeOK
  <2>2. sent[j] \cup {event} = {event}
    BY <1>0, <1>1 DEF PostedIsVerdict
  <2> QED BY <2>1, <2>2
<1>6. event = IF Life(j) = "complete" THEN "scan.completed" ELSE "scan.failed"
  BY <1>3 DEF EventOf
<1>7. [i \in Jobs |-> Life(i)][j] = Life(j)
  BY <1>1
<1>8. [i \in Jobs |-> Life(i)]' = [i \in Jobs |-> Life(i)]
  BY <1>4
<1> HIDE DEF j, event
<1>9. Lifecycle!Announce(j)
  BY <1>1, <1>3, <1>5, <1>6, <1>7, <1>8 DEF Lifecycle!Announce
<1> QED BY <1>9 DEF j

\* The instance counts with the FiniteSets it extends; the two Cardinalities are one.
LEMMA SameCount == \A S : Lifecycle!Cardinality(S) = Cardinality(S)
BY DEF Lifecycle!Cardinality, Cardinality

\* A step that posts nothing is a step of the jobs' lives, and no more of them
\* run afterwards than the pool has workers.
LEMMA LiveStep ==
  ASSUME ServingInv, ServingInv', Serving, Serving', [Next]_vars, SteadyNext, UNCHANGED sent
  PROVE  Lifecycle!Live
<1>0. TypeOK /\ TypeOK'
  BY DEF ServingInv, WebhookInv, IInv
<1> DEFINE life == [j \in Jobs |-> Life(j)]
<1>1. \A j \in Jobs : life[j] = Life(j) /\ life'[j] = Life(j)'
  OBVIOUS
<1>2. life' \in [Jobs -> Lifecycle!Lives]
  <2>1. \A j \in Jobs : Life(j)' \in Lifecycle!Lives
    BY <1>0 DEF TypeOK, StoreTypeOK, JobRecord, Statuses, Life, Exists, Lifecycle!Lives,
       Lifecycle!Ended
  <2> QED BY <2>1
<1>3. \A j \in Jobs : life'[j] # life[j] => <<life[j], life'[j]>> \in Lifecycle!Moves
  BY <1>1, LifeStep
<1>4. Cardinality({j \in Jobs : life'[j] = "running"}) <= MaxWorkers
  <2>1. {j \in Jobs : life'[j] = "running"} \subseteq Running'
    BY <1>1 DEF Life, Running
  <2>2. Fits(Running')
    BY DEF Serving, RunningFits, Fits
  <2> QED BY <2>1, <2>2, FewerFit DEF Fits
<1> HIDE DEF life
<1>5. life = [j \in Jobs |-> Life(j)]
  BY DEF life
<1>6. life' = [j \in Jobs |-> Life(j)]'
  BY DEF life
<1>7. Lifecycle!Cardinality({j \in Jobs : life'[j] = "running"}) <= MaxWorkers
  BY <1>4, SameCount
<1> QED BY <1>2, <1>3, <1>5, <1>6, <1>7 DEF Lifecycle!Live

LEMMA RefinesStep ==
  ASSUME ~LiveMaintenance, MaxFaults = 0, ServingInv, ServingInv', [Next]_vars
  PROVE  [Lifecycle!Next]_(Lifecycle!vars)
<1>1. Steady /\ Steady'
  <2>1. faults = 0 /\ faults' = 0
    BY DEF ServingInv, WebhookInv, IInv, TypeOK
  <2> QED BY <2>1 DEF Steady
<1>2. Serving /\ Serving' /\ SteadyNext /\ TypeOK /\ TypeOK' /\ WebhookInv
  BY <1>1, SteadySteps DEF ServingInv, WebhookInv, IInv
<1>3. ASSUME NEW j \in Jobs, sent'[j] # sent[j]
      PROVE  Lifecycle!Next
  <2>1. PICK t \in Threads : NotifySend(t) /\ note[t].job = j /\ UNCHANGED sub
    BY <1>2, <1>3, PostStep
  <2> QED BY <1>2, <2>1, AnnounceStep DEF Lifecycle!Next
<1>4. CASE \A j \in Jobs : sent'[j] = sent[j]
  <2>1. UNCHANGED sent
    <3>1. sent \in [Jobs -> SUBSET Events] /\ sent' \in [Jobs -> SUBSET Events]
      BY <1>2 DEF TypeOK, HookTypeOK
    <3> QED BY <1>4, <3>1
  <2> QED BY <1>2, <2>1, LiveStep DEF Lifecycle!Next
<1> QED BY <1>3, <1>4

LEMMA RefinesInit == Init => Lifecycle!Init
<1> SUFFICES ASSUME Init PROVE Lifecycle!Init
  OBVIOUS
<1>1. \A j \in Jobs : Life(j) = "none"
  BY DEF Init, StoreInit, Life, Exists, Absent
<1> QED BY <1>1 DEF Init, HookInit, Lifecycle!Init

\* A service that maintained its store only before serving would implement the
\* strict life of a job, in which a completion is final, for any number of jobs,
\* workers and crashes: this is what a pass that kept away from live jobs would
\* give.  What serve() runs is ServiceImplementsServedLifecycle, below.
THEOREM StartupPassImplementsLifecycle ==
  ASSUME ~LiveMaintenance, MaxFaults = 0
  PROVE  Spec => ImplementsLifecycle
<1>1. ServingInv /\ ServingInv' /\ [Next]_vars => [Lifecycle!Next]_(Lifecycle!vars)
  BY RefinesStep
<1> QED BY <1>1, RefinesInit, ServingStaysSound, PTL DEF Spec, ImplementsLifecycle, Lifecycle!Spec

-----------------------------------------------------------------------------
(* The service as it is deployed: its inductive invariant. *)

\* The pass holds a copy of the completed job.
PassHolds(j) ==
    /\ note[Maint].pc \in {"send", "write"}
    /\ note[Maint].job = j
    /\ note[Maint].snap.status = "complete"

\* Who notifies about a job does so of a verdict, and the pass writes failures.
NoteIsVerdict(t) ==
    /\ note[t].pc = "put" => note[t].snap.status = "failed"
    /\ note[t].pc \in {"read", "send", "write"} =>
         jobs[note[t].job].status \in {"complete", "failed"}
    /\ note[t].pc \in {"send", "write"} =>
         note[t].snap.status \in {"complete", "failed"}

CopiesAreVerdicts == \A t \in Threads : NoteIsVerdict(t)

\* A completion that the record or the pass knows of is not news to the runner
\* or the watcher: their copy of the record is of the completed job.
KnowsCompletion(t, j) ==
    /\ note[t].pc \in {"send", "write"} /\ (jobs[j].status = "complete" \/ PassHolds(j))
         => note[t].snap.status = "complete"
    /\ note[t].pc = "read" /\ PassHolds(j) => jobs[j].status = "complete"

CompletionIsKnown ==
    \A j \in Jobs : KnowsCompletion(Runner(j), j) /\ KnowsCompletion(Watcher(j), j)

\* A job that is still offered has not been run.
OfferedIsNotRun ==
    \A j \in Jobs :
      sub[j] \in {"created", "refused"} =>
        jobs[j].status \notin {"running", "complete"} /\ ~PassHolds(j)

VerdictInv ==
    /\ WebhookInv
    /\ CopiesAreVerdicts
    /\ CompletionIsKnown
    /\ OfferedIsNotRun

-----------------------------------------------------------------------------
(* What the threads write back. *)

\* A completed or failed job stays one of both while its record is there.
LEMMA VerdictRemains ==
  ASSUME IInv, CopiesAreVerdicts, [Next]_vars, NEW j \in Jobs,
         jobs[j].status \in {"complete", "failed"}
  PROVE  jobs'[j].status \in {"complete", "failed"} \/ IsPurged(j)
<1>1. ~IsCreated(j)
  BY DEF IsCreated, IInv, CopiesAreHarmless, FreshIds, Exists
<1>2. ~IsRewritten(j)
  BY DEF IsRewritten, Active
<1>3. ASSUME IsCopied(j)
      PROVE  jobs'[j].status \in {"complete", "failed"}
  <2>1. PICK t \in Threads :
          /\ \/ NotifyWrite(t) \/ (t = Maint /\ MarkWrite)
          /\ note[t].job = j /\ jobs'[j] = note[t].snap
    BY <1>3 DEF IsCopied
  <2> QED BY <2>1 DEF CopiesAreVerdicts, NoteIsVerdict, NotifyWrite, MarkWrite
<1> QED BY <1>1, <1>2, <1>3, RecordStep DEF RecordMoves, IsPublished, IsRejected

LEMMA KeptIsVerdict ==
  ASSUME IInv, CopiesAreVerdicts, [Next]_vars, NEW t \in Threads, note'[t] = note[t]
  PROVE  NoteIsVerdict(t)'
<1> DEFINE j == note[t].job
<1>1. NoteIsVerdict(t)
  BY DEF CopiesAreVerdicts
<1>2. CASE note[t].pc \in {"read", "send", "write"}
  <2>1. j \in Jobs /\ ~Quiet(t)
    BY <1>2, BusyNote DEF Quiet, IInv, TypeOK, HookTypeOK
  <2>2. ~IsPurged(j)
    BY <2>1 DEF IsPurged, PurgeJobs, AtLoop, IInv, CopiesAreHarmless, NotifierIsRecent
  <2>3. jobs'[j].status \in {"complete", "failed"}
    BY <1>1, <1>2, <2>1, <2>2, VerdictRemains DEF NoteIsVerdict
  <2> QED BY <1>1, <1>2, <2>3 DEF NoteIsVerdict
<1> QED BY <1>1, <1>2 DEF NoteIsVerdict

LEMMA NotifyIsVerdict ==
  ASSUME TypeOK, NEW t \in Threads, Notify(t), NoteIsVerdict(t)
  PROVE  NoteIsVerdict(t)'
<1>1. CASE NotifySkip(t) \/ NotifyWrite(t)
  <2>1. note'[t].pc = "idle"
    BY <1>1 DEF NotifySkip, NotifyWrite, EndNotify, IdleNote, TypeOK, HookTypeOK
  <2> QED BY <2>1 DEF NoteIsVerdict
<1>2. CASE NotifyRead(t)
  <2>1. /\ note'[t] = [pc |-> "send", job |-> note[t].job, snap |-> jobs[note[t].job]]
        /\ note[t].pc = "read" /\ UNCHANGED jobs
    BY <1>2 DEF NotifyRead, Step, TypeOK, HookTypeOK, storeVars
  <2> QED BY <2>1 DEF NoteIsVerdict
<1>3. CASE NotifySend(t)
  <2>1. note[t].snap \in JobRecord /\ note[t].pc = "send" /\ UNCHANGED jobs
    BY <1>3, BusyNote DEF NotifySend, Quiet, TypeOK, HookTypeOK, storeVars
  <2>2. PICK n \in 1..WebhookAttempts, ok \in BOOLEAN :
          Step(t, "write", note[t].job, Receipt(note[t].snap, ok, n))
    BY <1>3 DEF NotifySend
  <2> DEFINE new == Receipt(note[t].snap, ok, n)
  <2>3. new.status = note[t].snap.status
    BY <2>1, ReceiptKeeps
  <2>4. note'[t] = [pc |-> "write", job |-> note[t].job, snap |-> new]
    BY <2>2 DEF Step, TypeOK, HookTypeOK
  <2> HIDE DEF new
  <2> QED BY <2>1, <2>3, <2>4 DEF NoteIsVerdict
<1> QED BY <1>1, <1>2, <1>3 DEF Notify

LEMMA CopiesAreVerdictsStep ==
  ASSUME IInv, CopiesAreVerdicts, [Next]_vars
  PROVE  CopiesAreVerdicts'
<1>0. TypeOK
  BY DEF IInv
<1> SUFFICES ASSUME NEW t \in Threads PROVE NoteIsVerdict(t)'
  BY DEF CopiesAreVerdicts
<1>1. \A s \in Threads : NoteIsVerdict(s)
  BY DEF CopiesAreVerdicts
<1>2. note'[t] = note[t] => NoteIsVerdict(t)'
  BY KeptIsVerdict
<1>3. note'[t].pc = "idle" => NoteIsVerdict(t)'
  BY DEF NoteIsVerdict
<1>4. ASSUME NEW s \in Threads, NEW j \in Jobs, BeginNotify(s, j),
             jobs'[j].status \in {"complete", "failed"}
      PROVE  NoteIsVerdict(t)'
  <2>1. /\ note'[s] = [pc |-> "read", job |-> j, snap |-> Absent]
        /\ t # s => note'[t] = note[t]
    BY <1>0, <1>4 DEF BeginNotify, Step, TypeOK, HookTypeOK
  <2> QED BY <1>2, <1>4, <2>1 DEF NoteIsVerdict
<1>5. ASSUME NEW j \in Jobs, Ends(j)
      PROVE  NoteIsVerdict(t)'
  BY <1>0, <1>4, <1>5, FailKeepsReceipt, ThreadNames DEF Ends
<1>6. ASSUME NEW j \in Jobs, RunnerPublish(j)
      PROVE  NoteIsVerdict(t)'
  BY <1>0, <1>4, <1>6, PublishedRecord, ThreadNames DEF RunnerPublish
<1>7. ASSUME NEW j \in Jobs, MarkRead(j)
      PROVE  NoteIsVerdict(t)'
  <2> DEFINE rec == FailedAs(jobs[j], "interrupted")
  <2>1. rec.status = "failed"
    BY <1>0 DEF FailedAs, TypeOK, StoreTypeOK, JobRecord
  <2>2. Step(Maint, "put", j, rec)
    BY <1>7 DEF MarkRead
  <2> HIDE DEF rec
  <2>3. /\ note'[Maint] = [pc |-> "put", job |-> j, snap |-> rec]
        /\ t # Maint => note'[t] = note[t]
    BY <1>0, <2>2, ThreadNames DEF Step, TypeOK, HookTypeOK
  <2> QED BY <1>2, <2>1, <2>3 DEF NoteIsVerdict
<1>8. ASSUME NEW j \in Jobs, RetryNotify(j)
      PROVE  NoteIsVerdict(t)'
  BY <1>4, <1>8, ThreadNames DEF RetryNotify, NeedsRetry, storeVars
<1>9. CASE MarkWrite
  <2>1. note[Maint].job \in Jobs
    BY <1>0, <1>9, BusyNote, ThreadNames DEF MarkWrite, Quiet, TypeOK, HookTypeOK
  <2>2. jobs'[note[Maint].job].status = "failed"
    BY <1>0, <1>1, <1>9, <2>1, ThreadNames DEF MarkWrite, WriteJob, Put, NoteIsVerdict,
       TypeOK, StoreTypeOK
  <2> QED BY <1>4, <1>9, <2>1, <2>2, ThreadNames DEF MarkWrite
<1>10. ASSUME NEW s \in Threads, Notify(s)
       PROVE  NoteIsVerdict(t)'
  BY <1>0, <1>1, <1>2, <1>10, NotifyIsVerdict, OthersRest
<1>11. ASSUME NEW s \in Threads, NotifyRaises(s)
       PROVE  NoteIsVerdict(t)'
  BY <1>0, <1>2, <1>3, <1>11 DEF NotifyRaises, EndNotify, IdleNote, TypeOK, HookTypeOK
<1>12. CASE Crash
  BY <1>3, <1>12 DEF Crash, IdleNote
<1>13. CASE Maintains
  BY <1>2, <1>7, <1>8, <1>9, <1>13 DEF Maintains, PurgeJobs, hookVars
<1>14. ASSUME NEW j \in Jobs, NEW k \in Keys \cup {NoKey}, NEW r \in Requests,
              PostCreate(j, k, r)
       PROVE  NoteIsVerdict(t)'
  BY <1>2, <1>14 DEF PostCreate, hookVars
<1>15. ASSUME NEW j \in Jobs,
              PostReject(j) \/ Rewrites(j) \/ RunnerCommit(j) \/ CommitRaises(j)
       PROVE  NoteIsVerdict(t)'
  BY <1>2, <1>15 DEF PostReject, Rewrites, RunnerCommit, CommitRaises, hookVars
<1> QED BY <1>0, <1>2, <1>5, <1>6, <1>10, <1>11, <1>12, <1>13, <1>14, <1>15, NextKinds
        DEF Kinds, Still

-----------------------------------------------------------------------------
(* What the threads know of a completion. *)

\* A job becomes complete by its runner or by a copy that says so.
LEMMA CompletedStep ==
  ASSUME VerdictInv, [Next]_vars, NEW j \in Jobs,
         jobs'[j].status = "complete", jobs[j].status # "complete"
  PROVE  \/ RunnerPublish(j)
         \/ \E t \in Threads : /\ NotifyWrite(t) /\ note[t].job = j
                               /\ note[t].snap.status = "complete"
<1>0. /\ IInv /\ TypeOK /\ CopiesAreVerdicts
  BY DEF VerdictInv, WebhookInv, IInv
<1>1. ~IsRewritten(j)
  <2>1. ~Ends(j)
    BY <1>0, FailKeepsReceipt DEF Ends
  <2>2. ~Rewrites(j)
    BY <1>0 DEF Rewrites, WriteJob, Put, TypeOK, StoreTypeOK
  <2> QED BY <2>1, <2>2 DEF IsRewritten
<1>2. ASSUME IsCopied(j)
      PROVE  \E t \in Threads : /\ NotifyWrite(t) /\ note[t].job = j
                                /\ note[t].snap.status = "complete"
  <2>1. PICK t \in Threads :
          /\ \/ NotifyWrite(t) \/ (t = Maint /\ MarkWrite)
          /\ note[t].job = j /\ jobs'[j] = note[t].snap
    BY <1>2 DEF IsCopied
  <2> QED BY <1>0, <2>1 DEF CopiesAreVerdicts, NoteIsVerdict, MarkWrite
<1> QED BY <1>0, <1>1, <1>2, RecordStep
        DEF RecordMoves, IsPurged, IsCreated, IsRejected, IsPublished, Absent

\* The pass comes to hold a copy of a completed job by reading it.
LEMMA PassHoldsStep ==
  ASSUME TypeOK, [Next]_vars, NEW j \in Jobs, PassHolds(j)'
  PROVE  \/ PassHolds(j) /\ note'[Maint] = note[Maint]
         \/ PassHolds(j) /\ UNCHANGED jobs
         \/ NotifyRead(Maint) /\ jobs[j].status = "complete" /\ UNCHANGED jobs
<1>1. CASE note'[Maint] = note[Maint]
  BY <1>1 DEF PassHolds
<1>2. CASE NotifyRead(Maint)
  BY <1>2, ThreadNames DEF NotifyRead, Step, PassHolds, TypeOK, HookTypeOK, storeVars
<1>3. CASE NotifySend(Maint)
  <2>1. note[Maint].snap \in JobRecord /\ note[Maint].pc = "send" /\ UNCHANGED jobs
    BY <1>3, BusyNote, ThreadNames DEF NotifySend, Quiet, TypeOK, HookTypeOK, storeVars
  <2>2. PICK n \in 1..WebhookAttempts, ok \in BOOLEAN :
          Step(Maint, "write", note[Maint].job, Receipt(note[Maint].snap, ok, n))
    BY <1>3 DEF NotifySend
  <2> DEFINE new == Receipt(note[Maint].snap, ok, n)
  <2>3. new.status = note[Maint].snap.status
    BY <2>1, ReceiptKeeps
  <2>4. note'[Maint] = [pc |-> "write", job |-> note[Maint].job, snap |-> new]
    BY <2>2, ThreadNames DEF Step, TypeOK, HookTypeOK
  <2> HIDE DEF new
  <2> QED BY <2>1, <2>3, <2>4 DEF PassHolds
<1>4. CASE note'[Maint].pc \notin {"send", "write"}
  BY <1>4 DEF PassHolds
<1> QED BY <1>1, <1>2, <1>3, <1>4, PassStep DEF PassMoves, IdleNote

\* What one step may do to the note of a runner or a watcher that notifies.
LEMMA PoolNoteStep ==
  ASSUME WebhookInv, [Next]_vars, NEW t \in Threads, t # Maint, ~Quiet(t)
  PROVE  note'[t] = note[t] \/ Quiet(t)' \/ NotifyRead(t) \/ NotifySend(t)
<1>0. TypeOK
  BY DEF WebhookInv, IInv
<1>1. ASSUME NEW s \in Threads, NEW i \in Jobs, s \in {Runner(i), Watcher(i)},
             BeginNotify(s, i), ~Terminal(i)
      PROVE  note'[t] = note[t]
  <2>1. s # t
    BY <1>1 DEF WebhookInv, PoolNotes
  <2> QED BY <1>0, <1>1, <2>1 DEF BeginNotify, Step, TypeOK, HookTypeOK
<1>2. ASSUME NEW i \in Jobs, Ends(i) \/ RunnerPublish(i)
      PROVE  note'[t] = note[t]
  <2>1. ~Terminal(i)
    BY <1>0, <1>2, FailKeepsReceipt, PublishedWasRunning DEF Ends, Active, Terminal
  <2> QED BY <1>1, <1>2, <2>1, ThreadNames DEF Ends, RunnerPublish
<1>3. ASSUME NEW s \in Threads, Notify(s)
      PROVE  note'[t] = note[t] \/ Quiet(t)' \/ NotifyRead(t) \/ NotifySend(t)
  <2>1. s # t => note'[t] = note[t]
    BY <1>0, <1>3, OthersRest
  <2>2. NotifySkip(t) \/ NotifyWrite(t) => Quiet(t)'
    BY <1>0 DEF NotifySkip, NotifyWrite, EndNotify, IdleNote, Quiet, TypeOK, HookTypeOK
  <2> QED BY <1>3, <2>1, <2>2 DEF Notify
<1>4. ASSUME NEW s \in Threads, NotifyRaises(s)
      PROVE  note'[t] = note[t] \/ Quiet(t)'
  BY <1>0, <1>4 DEF NotifyRaises, EndNotify, IdleNote, Quiet, TypeOK, HookTypeOK
<1>5. CASE Maintains
  BY <1>0, <1>5, ThreadNames DEF Maintains, PurgeJobs, MarkWrite, MarkRead, RetryNotify,
     BeginNotify, Step, hookVars, TypeOK, HookTypeOK
<1>6. CASE Crash
  BY <1>6 DEF Crash, IdleNote, Quiet
<1>7. ASSUME NEW j \in Jobs, NEW k \in Keys \cup {NoKey}, NEW r \in Requests,
             PostCreate(j, k, r)
      PROVE  note'[t] = note[t]
  BY <1>7 DEF PostCreate, hookVars
<1>8. ASSUME NEW j \in Jobs,
             PostReject(j) \/ Rewrites(j) \/ RunnerCommit(j) \/ CommitRaises(j)
      PROVE  note'[t] = note[t]
  BY <1>8 DEF PostReject, Rewrites, RunnerCommit, CommitRaises, hookVars
<1>9. CASE Still
  BY <1>9 DEF Still
<1> QED BY <1>0, <1>2, <1>3, <1>4, <1>5, <1>6, <1>7, <1>8, <1>9, NextKinds DEF Kinds

\* A thread of the pool has the job for itself, the pass aside.
LEMMA SoleNotifier ==
  ASSUME WebhookInv, NEW j \in Jobs, NEW t \in {Runner(j), Watcher(j)}, ~Quiet(t),
         NEW s \in Threads, s # Maint, note[s].job = j
  PROVE  s = t
<1>1. s \in {Runner(j), Watcher(j)} /\ ~Quiet(s)
  <2>1. ~Quiet(s)
    BY StoreAssumption DEF Quiet, WebhookInv, IInv, TypeOK, HookTypeOK, NoteState, IdleNote
  <2>2. PICK i \in Jobs : s \in {Runner(i), Watcher(i)}
    BY ThreadKinds
  <2>3. i = j
    BY <2>1, <2>2 DEF WebhookInv, PoolNotes
  <2> QED BY <2>1, <2>2, <2>3
<1> QED BY <1>1 DEF WebhookInv, OneNotifier

\* A note of the pool that stays knows what the record and the pass come to say.
LEMMA KeptKnows ==
  ASSUME VerdictInv, [Next]_vars, NEW j \in Jobs, NEW t \in {Runner(j), Watcher(j)},
         ~Quiet(t), note'[t] = note[t], KnowsCompletion(t, j)
  PROVE  KnowsCompletion(t, j)'
<1>0. /\ WebhookInv /\ IInv /\ TypeOK /\ t \in Threads /\ t # Maint
      /\ note[t].job = j /\ Terminal(j) /\ sub[j] = "answered"
  BY ThreadNames, ThreadKinds DEF VerdictInv, WebhookInv, IInv, PoolNotes
<1>1. ASSUME NEW s \in Threads, s # Maint, NotifyWrite(s), note[s].job = j
      PROVE  FALSE
  <2>1. s = t
    BY <1>0, <1>1, SoleNotifier
  <2> QED BY <1>0, <1>1, <2>1 DEF NotifyWrite, EndNotify, IdleNote, Quiet, TypeOK, HookTypeOK
<1>2. ~RunnerPublish(j)
  BY <1>0, PublishedWasRunning
<1>3. ASSUME note[t].pc \in {"send", "write"}, jobs'[j].status = "complete" \/ PassHolds(j)'
      PROVE  note[t].snap.status = "complete"
  <2>1. CASE jobs'[j].status = "complete" /\ jobs[j].status # "complete"
    <3>1. PICK s \in Threads : /\ NotifyWrite(s) /\ note[s].job = j
                               /\ note[s].snap.status = "complete"
      BY <1>2, <2>1, CompletedStep
    <3>2. s = Maint
      BY <1>1, <3>1
    <3>3. PassHolds(j)
      BY <3>1, <3>2 DEF NotifyWrite, PassHolds
    <3> QED BY <1>3, <3>3 DEF KnowsCompletion
  <2>2. PassHolds(j)' => PassHolds(j) \/ jobs[j].status = "complete"
    BY <1>0, PassHoldsStep
  <2> QED BY <1>3, <2>1, <2>2 DEF KnowsCompletion
<1>4. ASSUME note[t].pc = "read", PassHolds(j)'
      PROVE  jobs'[j].status = "complete"
  <2>1. CASE UNCHANGED jobs
    BY <1>0, <1>4, <2>1, PassHoldsStep DEF KnowsCompletion
  <2>2. CASE PassHolds(j) /\ note'[Maint] = note[Maint]
    <3>1. jobs[j].status = "complete"
      BY <1>4, <2>2 DEF KnowsCompletion
    <3>2. ~IsPurged(j) /\ ~IsCreated(j) /\ ~IsRewritten(j) /\ ~IsRejected(j)
      BY <1>0, <3>1 DEF IsPurged, IsCreated, IsRewritten, IsRejected, PostReject, Active,
         IInv, CopiesAreHarmless, NotifierIsRecent
    <3>3. ~IsCopied(j)
      <4>1. ASSUME NotifyWrite(Maint) \/ MarkWrite
            PROVE  FALSE
        BY <1>0, <2>2, <4>1, ThreadNames DEF NotifyWrite, MarkWrite, EndNotify, BeginNotify,
           Step, IdleNote, PassHolds, TypeOK, HookTypeOK
      <4> QED BY <1>1, <4>1 DEF IsCopied
    <3> QED BY <1>0, <3>1, <3>2, <3>3, RecordStep DEF RecordMoves, IsPublished
  <2> QED BY <1>0, <1>4, <2>1, <2>2, PassHoldsStep
<1> QED BY <1>3, <1>4 DEF KnowsCompletion, PassHolds

LEMMA KnowsCompletionStep ==
  ASSUME VerdictInv, [Next]_vars, NEW j \in Jobs, NEW t \in {Runner(j), Watcher(j)}
  PROVE  KnowsCompletion(t, j)'
<1>0. /\ WebhookInv /\ IInv /\ TypeOK /\ t \in Threads /\ t # Maint
      /\ KnowsCompletion(t, j)
  BY ThreadNames, ThreadKinds DEF VerdictInv, WebhookInv, IInv, CompletionIsKnown
<1>1. CASE Quiet(t)'
  BY <1>1 DEF Quiet, KnowsCompletion
<1>2. CASE Quiet(t) /\ ~Quiet(t)'
  <2>1. PICK i \in Jobs : /\ t \in {Runner(i), Watcher(i)} /\ ~Terminal(i)
                          /\ note'[t].pc = "read"
                          /\ \A s \in Threads : s # t => note'[s] = note[s]
    BY <1>0, <1>2, WakeStep
  <2>2. i = j
    BY <2>1, ThreadKinds
  <2>3. note'[Maint] = note[Maint]
    BY <1>0, <2>1, ThreadNames
  <2>4. ~PassHolds(j)'
    BY <1>0, <2>1, <2>2, <2>3 DEF PassHolds, WebhookInv, PassNotes
  <2> QED BY <2>1, <2>4 DEF KnowsCompletion
<1>3. CASE ~Quiet(t) /\ note'[t] = note[t]
  BY <1>0, <1>3, KeptKnows
<1>4. CASE NotifyRead(t)
  <2>1. /\ note'[t] = [pc |-> "send", job |-> note[t].job, snap |-> jobs[note[t].job]]
        /\ note[t].pc = "read" /\ UNCHANGED jobs /\ note'[Maint] = note[Maint]
    BY <1>0, <1>4, ThreadNames DEF NotifyRead, Step, TypeOK, HookTypeOK, storeVars
  <2>2. note[t].job = j
    BY <1>0, <2>1 DEF WebhookInv, PoolNotes, Quiet
  <2>3. PassHolds(j)' = PassHolds(j)
    BY <2>1 DEF PassHolds
  <2> QED BY <1>0, <2>1, <2>2, <2>3 DEF KnowsCompletion
<1>5. CASE NotifySend(t)
  <2>1. note[t].snap \in JobRecord /\ note[t].pc = "send" /\ UNCHANGED jobs
    BY <1>0, <1>5, BusyNote DEF NotifySend, Quiet, TypeOK, HookTypeOK, storeVars
  <2>2. PICK n \in 1..WebhookAttempts, ok \in BOOLEAN :
          Step(t, "write", note[t].job, Receipt(note[t].snap, ok, n))
    BY <1>5 DEF NotifySend
  <2> DEFINE new == Receipt(note[t].snap, ok, n)
  <2>3. new.status = note[t].snap.status
    BY <2>1, ReceiptKeeps
  <2>4. /\ note'[t] = [pc |-> "write", job |-> note[t].job, snap |-> new]
        /\ note'[Maint] = note[Maint]
    BY <1>0, <2>2, ThreadNames DEF Step, TypeOK, HookTypeOK
  <2>5. PassHolds(j)' = PassHolds(j)
    BY <2>4 DEF PassHolds
  <2> HIDE DEF new
  <2> QED BY <1>0, <2>1, <2>3, <2>4, <2>5 DEF KnowsCompletion
<1> QED BY <1>0, <1>1, <1>2, <1>3, <1>4, <1>5, PoolNoteStep

LEMMA OfferedIsNotRunStep ==
  ASSUME VerdictInv, [Next]_vars
  PROVE  OfferedIsNotRun'
<1>0. /\ WebhookInv /\ WebhookInv' /\ IInv /\ TypeOK /\ OfferedIsNotRun
  BY WebhookStep DEF VerdictInv, WebhookInv, IInv
<1> SUFFICES ASSUME NEW j \in Jobs, sub'[j] \in {"created", "refused"}
             PROVE  jobs'[j].status \notin {"running", "complete"} /\ ~PassHolds(j)'
  BY DEF OfferedIsNotRun
<1>1. CASE sub[j] = "none" /\ jobs'[j].status = "queued"
  BY <1>0, <1>1 DEF WebhookInv, PassNotes, PassHolds, Terminal
<1>2. CASE sub[j] \in {"created", "refused"}
  <2>1. /\ jobs[j].status \notin {"running", "complete"} /\ ~PassHolds(j)
        /\ run[j] = "none"
    BY <1>0, <1>2 DEF OfferedIsNotRun, WebhookInv, PoolIsAnswered
  <2>2. ~PassHolds(j)'
    BY <1>0, <2>1, PassHoldsStep
  <2>3. jobs'[j].status # "complete"
    <3>1. ASSUME NEW t \in Threads, NotifyWrite(t), note[t].job = j,
                 note[t].snap.status = "complete"
          PROVE  FALSE
      <4>1. t # Maint
        BY <2>1, <3>1 DEF NotifyWrite, PassHolds
      <4>2. PICK i \in Jobs : t \in {Runner(i), Watcher(i)}
        BY <4>1, ThreadKinds
      <4>3. sub[i] = "answered" /\ note[t].job = i
        BY <1>0, <3>1, <4>2 DEF NotifyWrite, Quiet, WebhookInv, PoolNotes
      <4> QED BY <1>2, <3>1, <4>3
    <3> QED BY <2>1, <3>1, CompletedStep DEF RunnerPublish
  <2>4. jobs'[j].status # "running"
    <3>1. SUFFICES ASSUME jobs'[j].status = "running" PROVE FALSE
      OBVIOUS
    <3>2. ~IsRewritten(j)
      <4>1. ~Ends(j)
        BY <1>0, <3>1, FailKeepsReceipt DEF Ends
      <4>2. ~Rewrites(j)
        BY <1>0, <2>1, <3>1 DEF Rewrites, WriteJob, Put, TypeOK, StoreTypeOK
      <4> QED BY <4>1, <4>2 DEF IsRewritten
    <3>3. ~IsCopied(j)
      BY <1>0, <3>1 DEF IsCopied, NotifyWrite, MarkWrite, IInv, CopiesAreHarmless,
         CopiesAreTerminal
    <3> QED BY <1>0, <2>1, <3>1, <3>2, <3>3, RecordStep
            DEF RecordMoves, IsPurged, IsCreated, IsRejected, IsPublished, Absent
  <2> QED BY <2>2, <2>3, <2>4
<1> QED BY <1>0, <1>1, <1>2, HandlerStep

LEMMA VerdictInit == Init => VerdictInv
<1> SUFFICES ASSUME Init PROVE VerdictInv
  OBVIOUS
<1>1. /\ \A t \in Threads : note[t].pc = "idle"
      /\ sub = [j \in Jobs |-> "none"]
  BY DEF Init, HookInit, IdleNote
<1> QED BY <1>1, WebhookInit, ThreadNames
        DEF VerdictInv, CopiesAreVerdicts, NoteIsVerdict, CompletionIsKnown, KnowsCompletion,
            OfferedIsNotRun

LEMMA VerdictStep == VerdictInv /\ [Next]_vars => VerdictInv'
<1> SUFFICES ASSUME VerdictInv, [Next]_vars PROVE VerdictInv'
  OBVIOUS
<1>1. WebhookInv' /\ CopiesAreVerdicts'
  BY WebhookStep, CopiesAreVerdictsStep DEF VerdictInv, WebhookInv
<1>2. CompletionIsKnown'
  BY KnowsCompletionStep DEF CompletionIsKnown
<1> QED BY <1>1, <1>2, OfferedIsNotRunStep DEF VerdictInv

\* The invariant of the verdicts holds in every state of every execution.
THEOREM VerdictsStaySound == Spec => []VerdictInv
BY VerdictInit, VerdictStep, PTL DEF Spec

-----------------------------------------------------------------------------
(* What the deployed service promises. *)

\* The pass writes a failure over the completed job j, from the copy it holds.
PassFails(j) ==
    /\ note[Maint].pc \in {"put", "write"}
    /\ note[Maint].job = j
    /\ note[Maint].snap.status = "failed"
    /\ jobs'[j] = note[Maint].snap

\* What maintain_store says of itself, "without changing completed scan
\* evidence", and what is left of it beside live workers, crashes and faults: the
\* maintenance pass alone ends the completion of a job, by writing back a failure
\* it has decided or read before.  No runner, watcher, handler or client does,
\* though they too write back copies of the record.
THEOREM CompletionEndsByPass ==
  Spec => [][\A j \in Jobs : jobs[j].status = "complete"
                => jobs'[j].status \in {"complete", "absent"} \/ PassFails(j)]_vars
<1>1. VerdictInv /\ [Next]_vars
        => [\A j \in Jobs : jobs[j].status = "complete"
              => jobs'[j].status \in {"complete", "absent"} \/ PassFails(j)]_vars
  <2> SUFFICES ASSUME VerdictInv, [Next]_vars, NEW j \in Jobs, jobs[j].status = "complete"
               PROVE  jobs'[j].status \in {"complete", "absent"} \/ PassFails(j)
    OBVIOUS
  <2>0. /\ WebhookInv /\ IInv /\ CopiesAreVerdicts /\ CompletionIsKnown /\ OfferedIsNotRun
    BY DEF VerdictInv, WebhookInv
  <2>1. ~IsCreated(j) /\ ~IsRewritten(j) /\ ~IsRejected(j)
    BY <2>0 DEF IsCreated, IsRewritten, IsRejected, PostReject, Active, Exists, IInv,
       CopiesAreHarmless, FreshIds, OfferedIsNotRun
  <2>2. ASSUME IsCopied(j)
        PROVE  jobs'[j].status = "complete" \/ PassFails(j)
    <3>1. PICK t \in Threads :
            /\ \/ NotifyWrite(t) \/ (t = Maint /\ MarkWrite)
            /\ note[t].job = j /\ jobs'[j] = note[t].snap
      BY <2>2 DEF IsCopied
    <3>2. CASE t = Maint
      BY <2>0, <3>1, <3>2 DEF CopiesAreVerdicts, NoteIsVerdict, NotifyWrite, MarkWrite,
         PassFails
    <3>3. CASE t # Maint
      <4>1. PICK i \in Jobs : t \in {Runner(i), Watcher(i)}
        BY <3>3, ThreadKinds
      <4>2. note[t].pc = "write" /\ i = j
        BY <2>0, <3>1, <3>3, <4>1 DEF NotifyWrite, Quiet, WebhookInv, PoolNotes
      <4>3. KnowsCompletion(t, j)
        BY <2>0, <4>1, <4>2 DEF CompletionIsKnown
      <4> QED BY <3>1, <4>2, <4>3 DEF KnowsCompletion
    <3> QED BY <3>2, <3>3
  <2> QED BY <2>0, <2>1, <2>2, RecordStep DEF RecordMoves, IsPurged, IsPublished, Absent
<1> QED BY <1>1, VerdictsStaySound, PTL DEF Spec

ServedMoves == Lifecycle!Moves \cup Lifecycle!Revisions

\* What a step does to the life of one job.
LEMMA ServedLifeStep ==
  ASSUME VerdictInv, [Next]_vars, NEW j \in Jobs
  PROVE  Life(j)' = Life(j) \/ <<Life(j), Life(j)'>> \in ServedMoves
<1> USE DEF ServedMoves
<1>0. /\ WebhookInv /\ IInv /\ TypeOK /\ TypeOK' /\ CopiesAreVerdicts /\ OfferedIsNotRun
  BY TypeStep DEF VerdictInv, WebhookInv, IInv
<1>1. sub[j] = "none" => ~Exists(j)
  BY <1>0 DEF IInv, CopiesAreHarmless, FreshIds
<1>2. sub[j] \in {"created", "refused"} =>
        Exists(j) /\ j \notin oldJobs /\ jobs[j].status \notin {"running", "complete"}
  BY <1>0 DEF IInv, CopiesAreHarmless, OfferedIsStored, OfferedIsNotRun
<1>3. /\ sub[j] \in SubPCs /\ sub'[j] \in SubPCs
      /\ jobs[j].status \in Statuses /\ jobs'[j].status \in Statuses
  BY <1>0 DEF TypeOK, StoreTypeOK, JobRecord
<1>4. CASE jobs'[j].status = jobs[j].status
  <2>1. CASE sub[j] \in {"created", "refused"} /\ sub'[j] = "answered"
    BY <1>2, <1>3, <1>4, <2>1 DEF Statuses, Life, Exists, Lifecycle!Moves
  <2>2. CASE sub'[j] = sub[j] \/ (sub[j] \in {"created", "refused"}
                                  /\ sub'[j] \in {"created", "refused"})
    BY <1>4, <2>2 DEF Life, Exists
  <2>3. CASE sub[j] = "none" /\ sub'[j] \in {"created", "refused"}
    BY <1>1, <2>3 DEF Life, Exists, Lifecycle!Moves
  <2> QED BY <1>0, <1>3, <2>1, <2>2, <2>3, HandlerStep, AnsweredStays DEF SubPCs
<1>5. CASE IsPurged(j)
  <2>1. /\ sub'[j] = sub[j] /\ sub[j] \notin {"created", "refused"}
        /\ jobs'[j].status = "absent"
    BY <1>2, <1>5 DEF IsPurged, Absent
  <2> QED BY <1>1, <1>3, <2>1 DEF Life, Exists, Statuses, Lifecycle!Moves, Lifecycle!Ended
<1>6. CASE IsCreated(j)
  BY <1>1, <1>6 DEF IsCreated, Life, Exists, Lifecycle!Moves
<1>7. CASE IsPublished(j)
  <2>1. sub[j] = "answered" /\ (Exists(j) => jobs[j].status = "running")
    BY <1>0, <1>7 DEF IsPublished, RunnerPublish, WebhookInv, CommitIsOpen, PoolIsAnswered
  <2>2. sub'[j] = "answered" /\ jobs'[j].status = "complete"
    BY <1>0, <1>7, <2>1, AnsweredStays DEF IsPublished
  <2> QED BY <2>1, <2>2 DEF Life, Exists, Lifecycle!Moves, Lifecycle!Revisions
<1>8. CASE IsRewritten(j) /\ Rewrites(j)
  <2>1. PICK rec \in JobRecord :
          /\ WriteJob(j, rec)
          /\ rec.status = "cancelled" \/ (rec.status = "running" /\ run[j] # "none")
    BY <1>8 DEF Rewrites
  <2>2. jobs'[j] = rec /\ sub'[j] = sub[j] /\ Active(j)
    BY <1>0, <1>8, <2>1 DEF WriteJob, Put, Rewrites, TypeOK, StoreTypeOK
  <2>3. rec.status = "running" => sub[j] = "answered"
    BY <1>0, <2>1 DEF WebhookInv, PoolIsAnswered
  <2> QED BY <1>1, <1>3, <2>1, <2>2, <2>3 DEF Active, Life, Exists, Lifecycle!Moves
<1>9. CASE IsRewritten(j) /\ Ends(j)
  <2>1. jobs'[j].status = "failed" /\ Active(j) /\ sub[j] = "answered" /\ sub'[j] = sub[j]
    BY <1>0, <1>9, FailKeepsReceipt DEF Ends, WebhookInv, PoolIsAnswered
  <2> QED BY <2>1 DEF Active, Life, Exists, Lifecycle!Moves
<1>10. CASE IsRejected(j)
  <2>1. sub[j] = "refused" /\ sub'[j] = "answered" /\ jobs'[j].status = "failed"
    BY <1>0, <1>10 DEF IsRejected, PostReject, TypeOK
  <2> QED BY <2>1 DEF Life, Exists, Lifecycle!Moves
<1>11. CASE IsCopied(j)
  <2>1. PICK t \in Threads :
          /\ \/ NotifyWrite(t) \/ (t = Maint /\ MarkWrite)
          /\ note[t].job = j /\ jobs'[j] = note[t].snap
          /\ Exists(j) /\ sub'[j] = sub[j]
    BY <1>11 DEF IsCopied
  <2>2. \/ jobs'[j].status = "failed"
        \/ /\ jobs'[j].status = "complete"
           /\ jobs[j].status \in {"complete", "failed"}
    BY <1>0, <2>1 DEF CopiesAreVerdicts, NoteIsVerdict, NotifyWrite, MarkWrite
  <2> QED BY <1>3, <2>1, <2>2 DEF Life, Exists, Statuses, Lifecycle!Moves,
             Lifecycle!Revisions
<1> QED BY <1>0, <1>4, <1>5, <1>6, <1>7, <1>8, <1>9, <1>10, <1>11, RecordStep
        DEF RecordMoves, IsRewritten

\* An event of a job is posted.
LEMMA ServedAnnounceStep ==
  ASSUME VerdictInv, NEW t \in Threads, NotifySend(t), UNCHANGED sub
  PROVE  Lifecycle!ServedAnnounce(note[t].job)
<1> DEFINE j == note[t].job
           event == EventOf(note[t].snap)
<1>0. /\ WebhookInv /\ IInv /\ TypeOK /\ CopiesAreVerdicts /\ OfferedIsNotRun
  BY DEF VerdictInv, WebhookInv, IInv
<1>1. /\ j \in Jobs /\ jobs[j].status \in {"complete", "failed"}
      /\ note[t].pc = "send"
  BY <1>0, SenderEnded DEF NotifySend, CopiesAreVerdicts, NoteIsVerdict
<1>2. Life(j) \in {"offered", "complete", "failed"}
  BY <1>1 DEF Life, Exists
<1>3. event \in {"scan.completed", "scan.failed"}
  BY DEF EventOf
<1>4. ASSUME event = "scan.completed", Life(j) = "offered"
      PROVE  FALSE
  <2>1. sub[j] \in {"created", "refused"}
    BY <1>1, <1>4 DEF Life, Exists
  <2>2. note[t].snap.status = "complete"
    BY <1>4 DEF EventOf
  <2>3. t = Maint
    <3>1. ASSUME t # Maint
          PROVE  FALSE
      <4>1. PICK i \in Jobs : t \in {Runner(i), Watcher(i)}
        BY <3>1, ThreadKinds
      <4>2. sub[i] = "answered" /\ i = j
        BY <1>0, <1>1, <4>1 DEF Quiet, WebhookInv, PoolNotes
      <4> QED BY <2>1, <4>2
    <3> QED BY <3>1
  <2>4. PassHolds(j)
    BY <1>1, <2>2, <2>3 DEF PassHolds
  <2> QED BY <1>0, <1>1, <2>1, <2>4 DEF OfferedIsNotRun
<1>5. \A i \in Jobs : Life(i)' = Life(i)
  BY DEF NotifySend, storeVars, Life, Exists
<1>6. sent' = [sent EXCEPT ![j] = sent[j] \cup {event}]
  BY <1>0, <1>1 DEF NotifySend, TypeOK, HookTypeOK
<1>7. [i \in Jobs |-> Life(i)][j] = Life(j)
  BY <1>1
<1>8. [i \in Jobs |-> Life(i)]' = [i \in Jobs |-> Life(i)]
  BY <1>5
<1> HIDE DEF j, event
<1>9. Lifecycle!ServedAnnounce(j)
  BY <1>1, <1>2, <1>3, <1>4, <1>6, <1>7, <1>8 DEF Lifecycle!ServedAnnounce
<1> QED BY <1>9 DEF j

LEMMA ServedLiveStep ==
  ASSUME VerdictInv, [Next]_vars, UNCHANGED sent
  PROVE  Lifecycle!ServedLive
<1>0. TypeOK'
  BY TypeStep DEF VerdictInv, WebhookInv, IInv
<1> DEFINE life == [j \in Jobs |-> Life(j)]
<1>1. \A j \in Jobs : life[j] = Life(j) /\ life'[j] = Life(j)'
  OBVIOUS
<1>2. life' \in [Jobs -> Lifecycle!Lives]
  <2>1. \A j \in Jobs : Life(j)' \in Lifecycle!Lives
    BY <1>0 DEF TypeOK, StoreTypeOK, JobRecord, Statuses, Life, Exists, Lifecycle!Lives,
       Lifecycle!Ended
  <2> QED BY <2>1
<1>3. \A j \in Jobs : life'[j] # life[j] => <<life[j], life'[j]>> \in ServedMoves
  BY <1>1, ServedLifeStep
<1> HIDE DEF life
<1>4. life = [j \in Jobs |-> Life(j)]
  BY DEF life
<1>5. life' = [j \in Jobs |-> Life(j)]'
  BY DEF life
<1> QED BY <1>2, <1>3, <1>4, <1>5 DEF Lifecycle!ServedLive, ServedMoves

LEMMA ServedRefinesStep ==
  ASSUME VerdictInv, [Next]_vars
  PROVE  [Lifecycle!ServedNext]_(Lifecycle!vars)
<1>0. WebhookInv /\ TypeOK /\ TypeOK'
  BY TypeStep DEF VerdictInv, WebhookInv, IInv
<1>1. ASSUME NEW j \in Jobs, sent'[j] # sent[j]
      PROVE  Lifecycle!ServedNext
  <2>1. PICK t \in Threads : NotifySend(t) /\ note[t].job = j /\ UNCHANGED sub
    BY <1>0, <1>1, PostStep
  <2> QED BY <2>1, ServedAnnounceStep DEF Lifecycle!ServedNext
<1>2. CASE \A j \in Jobs : sent'[j] = sent[j]
  <2>1. UNCHANGED sent
    <3>1. sent \in [Jobs -> SUBSET Events] /\ sent' \in [Jobs -> SUBSET Events]
      BY <1>0 DEF TypeOK, HookTypeOK
    <3> QED BY <1>2, <3>1
  <2> QED BY <2>1, ServedLiveStep DEF Lifecycle!ServedNext
<1> QED BY <1>1, <1>2

\* The service as serve() runs it, with the maintenance loop beside its workers,
\* crashes at any step and store writes and posts that raise, implements the life
\* of a job up to the revisions of JobLifecycle, for any number of jobs, workers,
\* attempts, crashes and faults.
THEOREM ServiceImplementsServedLifecycle == Spec => ImplementsServedLifecycle
<1>1. VerdictInv /\ [Next]_vars => [Lifecycle!ServedNext]_(Lifecycle!vars)
  BY ServedRefinesStep
<1> QED BY <1>1, RefinesInit, VerdictsStaySound, PTL
        DEF Spec, ImplementsServedLifecycle, Lifecycle!ServedSpec

==============================================================================
