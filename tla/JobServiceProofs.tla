-------------------------- MODULE JobServiceProofs --------------------------
(***************************************************************************)
(* Type correctness of the scanner service, and the safety properties that *)
(* hold with live maintenance, crashes, faults and expiry, for any number  *)
(* of jobs, keys, workers and attempts.                                    *)
(***************************************************************************)
EXTENDS JobServiceInvariant, TLAPS

-----------------------------------------------------------------------------
(* Records *)

LEMMA AbsentIsRecord == Absent \in JobRecord
BY DEF Absent, JobRecord, Statuses, Stages, Hooks

LEMMA NewIsRecord ==
  ASSUME NEW k \in Keys \cup {NoKey}, NEW r \in Requests \cup {NoRequest}
  PROVE  NewRecord(k, r) \in JobRecord
BY DEF NewRecord, Absent, JobRecord, Statuses, Stages, Hooks

LEMMA FailedIsRecord ==
  ASSUME NEW rec \in JobRecord, NEW stage \in Stages
  PROVE  FailedAs(rec, stage) \in JobRecord
BY DEF FailedAs, JobRecord, Statuses

LEMMA ReceiptIsRecord ==
  ASSUME NEW rec \in JobRecord, NEW ok \in BOOLEAN, NEW n \in 1..WebhookAttempts
  PROVE  Receipt(rec, ok, n) \in JobRecord
<1> DEFINE total == rec.tries + (IF ok THEN n ELSE WebhookAttempts)
<1> DEFINE hook == IF ok THEN "delivered"
                   ELSE IF total >= MaxTotalAttempts THEN "dead_lettered"
                   ELSE "failed"
<1>1. total \in Nat
  BY WebhookAssumption DEF JobRecord
<1>2. hook \in Hooks
  BY DEF Hooks
<1>3. Receipt(rec, ok, n) = [rec EXCEPT !.tries = total, !.hook = hook]
  BY DEF Receipt
<1> HIDE DEF total, hook
<1> QED BY <1>1, <1>2, <1>3 DEF JobRecord

-----------------------------------------------------------------------------
(* Type correctness, operation by operation *)

LEMMA WriteKeepsType ==
  ASSUME StoreTypeOK, NEW j \in Jobs, NEW rec \in JobRecord, WriteJob(j, rec)
  PROVE  StoreTypeOK'
BY DEF StoreTypeOK, WriteJob, Put

LEMMA CreateKeepsType ==
  ASSUME StoreTypeOK, NEW j \in Jobs, NEW k \in Keys \cup {NoKey},
         NEW r \in Requests, Create(j, k, r)
  PROVE  StoreTypeOK'
BY NewIsRecord, WriteKeepsType DEF Create

LEMMA ClaimKeepsType ==
  ASSUME StoreTypeOK, NEW j \in Jobs, Claim(j)
  PROVE  StoreTypeOK'
<1>1. [jobs[j] EXCEPT !.status = "running", !.stage = "downloading"] \in JobRecord
  BY DEF StoreTypeOK, JobRecord, Statuses, Stages
<1> QED BY <1>1, WriteKeepsType DEF Claim

LEMMA CancelKeepsType ==
  ASSUME StoreTypeOK, NEW j \in Jobs, Cancel(j)
  PROVE  StoreTypeOK'
<1>1. [jobs[j] EXCEPT !.status = "cancelled", !.stage = "cancelled"] \in JobRecord
  BY DEF StoreTypeOK, JobRecord, Statuses, Stages
<1> QED BY <1>1, WriteKeepsType DEF Cancel

LEMMA FailKeepsType ==
  ASSUME StoreTypeOK, NEW j \in Jobs, NEW stage \in Stages, Fail(j, stage)
  PROVE  StoreTypeOK'
<1>1. jobs[j] \in JobRecord
  BY DEF StoreTypeOK
<1> QED BY <1>1, FailedIsRecord, WriteKeepsType DEF Fail

LEMMA CommitKeepsType ==
  ASSUME StoreTypeOK, NEW j \in Jobs,
         OpenCommit(j) \/ CloseCommit(j) \/ AbortCommit(j)
  PROVE  StoreTypeOK'
<1>1. CASE OpenCommit(j)
  BY <1>1 DEF StoreTypeOK, OpenCommit
<1>2. CASE CloseCommit(j)
  <2>1. [lock.rec EXCEPT !.status = "complete", !.stage = "complete",
                         !.ref = TRUE] \in JobRecord
    BY DEF StoreTypeOK, JobRecord, Statuses, Stages
  <2> QED BY <1>2, <2>1, AbsentIsRecord DEF StoreTypeOK, CloseCommit, Put, Unlocked
<1>3. CASE AbortCommit(j)
  BY <1>3, AbsentIsRecord DEF StoreTypeOK, AbortCommit, Unlocked
<1> QED BY <1>1, <1>2, <1>3

LEMMA StepKeepsType ==
  ASSUME note \in [Threads -> NoteState], NEW t \in Threads,
         NEW pc \in {"put", "read", "send", "write"}, NEW j \in Jobs,
         NEW rec \in JobRecord, Step(t, pc, j, rec)
  PROVE  note' \in [Threads -> NoteState]
BY DEF Step, NoteState

LEMMA BeginKeepsType ==
  ASSUME note \in [Threads -> NoteState], NEW t \in Threads, NEW j \in Jobs,
         BeginNotify(t, j)
  PROVE  note' \in [Threads -> NoteState]
BY StepKeepsType, AbsentIsRecord DEF BeginNotify

LEMMA EndKeepsType ==
  ASSUME note \in [Threads -> NoteState], NEW t \in Threads, EndNotify(t)
  PROVE  note' \in [Threads -> NoteState]
BY AbsentIsRecord DEF EndNotify, IdleNote, NoteState

LEMMA ThreadNames ==
  /\ Maint \in Threads
  /\ \A j \in Jobs : Runner(j) \in Threads /\ Watcher(j) \in Threads
  /\ \A j \in Jobs : Runner(j) # Maint /\ Watcher(j) # Maint
BY DEF Threads, Maint, Runner, Watcher

LEMMA HttpKeepsType ==
  ASSUME TypeOK, Http
  PROVE  TypeOK'
<1> USE DEF TypeOK
<1>1. ASSUME NEW j \in Jobs, NEW k \in Keys \cup {NoKey}, NEW r \in Requests,
             PostCreate(j, k, r)
      PROVE  TypeOK'
  <2>1. StoreTypeOK'
    BY <1>1, CreateKeepsType DEF PostCreate
  <2> QED BY <1>1, <2>1 DEF PostCreate, HookTypeOK, hookVars, PoolTypeOK,
             poolVars, MaintTypeOK, SubPCs, envVars
<1>2. ASSUME NEW j \in Jobs, NEW k \in Keys, NEW r \in Requests,
             PostReplay(j, k, r)
      PROVE  TypeOK'
  BY <1>2 DEF PostReplay, StoreTypeOK, storeVars, HookTypeOK, hookVars,
     PoolTypeOK, poolVars, MaintTypeOK, Tell, Answers, envVars
<1>3. ASSUME NEW j \in Jobs, PostSubmit(j)
      PROVE  TypeOK'
  <2>1. PoolTypeOK'
    BY <1>3 DEF PostSubmit, PoolTypeOK
  <2> QED BY <1>3, <2>1 DEF PostSubmit, StoreTypeOK, storeVars, HookTypeOK,
             hookVars, MaintTypeOK, Tell, Answers, SubPCs, envVars
<1>4. ASSUME NEW j \in Jobs, PostQueueFull(j)
      PROVE  TypeOK'
  BY <1>4 DEF PostQueueFull, StoreTypeOK, storeVars, HookTypeOK, hookVars,
     PoolTypeOK, poolVars, MaintTypeOK, SubPCs, envVars
<1>5. ASSUME NEW j \in Jobs, PostReject(j)
      PROVE  TypeOK'
  <2>1. jobs[j].key \in Keys \cup {NoKey} /\ jobs[j].req \in Requests \cup {NoRequest}
    BY DEF StoreTypeOK, JobRecord
  <2>2. FailedAs(NewRecord(jobs[j].key, jobs[j].req), "rejected") \in JobRecord
    BY <2>1, NewIsRecord, FailedIsRecord DEF Stages
  <2>3. StoreTypeOK'
    BY <1>5, <2>2, WriteKeepsType DEF PostReject
  <2> QED BY <1>5, <2>3 DEF PostReject, HookTypeOK, hookVars, PoolTypeOK,
             poolVars, MaintTypeOK, Tell, Answers, SubPCs, envVars
<1>6. ASSUME NEW j \in Jobs, DeleteJob(j)
      PROVE  TypeOK'
  <2>1. StoreTypeOK'
    BY <1>6, CancelKeepsType DEF DeleteJob
  <2> QED BY <1>6, <2>1 DEF DeleteJob, HookTypeOK, hookVars, PoolTypeOK,
             poolVars, MaintTypeOK, Tell, Answers, envVars
<1> QED BY <1>1, <1>2, <1>3, <1>4, <1>5, <1>6 DEF Http

LEMMA BusyNote ==
  ASSUME note \in [Threads -> NoteState], NEW t \in Threads, ~Quiet(t)
  PROVE  /\ note[t].pc \in {"put", "read", "send", "write"}
         /\ note[t].job \in Jobs
         /\ note[t].snap \in JobRecord
BY DEF NoteState, Quiet, IdleNote

LEMMA NotifyKeepsType ==
  ASSUME StoreTypeOK, HookTypeOK, NEW t \in Threads, Notify(t)
  PROVE  StoreTypeOK' /\ HookTypeOK'
<1> USE DEF HookTypeOK
<1>0. /\ note[t].job \in Jobs
      /\ note[t].snap \in JobRecord
  BY BusyNote DEF Notify, NotifySkip, NotifyRead, NotifySend, NotifyWrite, Quiet
<1>1. CASE NotifySkip(t)
  BY <1>1, EndKeepsType DEF NotifySkip, StoreTypeOK, storeVars
<1>2. CASE NotifyRead(t)
  <2>1. jobs[note[t].job] \in JobRecord
    BY <1>0 DEF StoreTypeOK
  <2>2. note' \in [Threads -> NoteState]
    BY <1>0, <1>2, <2>1, StepKeepsType DEF NotifyRead
  <2> QED BY <1>2, <2>2 DEF NotifyRead, StoreTypeOK, storeVars
<1>3. CASE NotifySend(t)
  <2>1. PICK n \in 1..WebhookAttempts, ok \in BOOLEAN :
          /\ Step(t, "write", note[t].job, Receipt(note[t].snap, ok, n))
          /\ posts' = [posts EXCEPT ![note[t].job] = @ + n]
    BY <1>3 DEF NotifySend
  <2>2. note' \in [Threads -> NoteState]
    BY <1>0, <2>1, ReceiptIsRecord, StepKeepsType
  <2>3. posts' \in [Jobs -> Nat]
    <3>1. n \in Nat
      BY WebhookAssumption
    <3>2. posts[note[t].job] + n \in Nat
      BY <1>0, <3>1
    <3> QED BY <2>1, <3>2
  <2>4. sent' \in [Jobs -> SUBSET Events]
    BY <1>3 DEF NotifySend, EventOf, Events
  <2> QED BY <1>3, <2>2, <2>3, <2>4 DEF NotifySend, StoreTypeOK, storeVars
<1>4. CASE NotifyWrite(t)
  <2>1. StoreTypeOK'
    BY <1>0, <1>4, WriteKeepsType DEF NotifyWrite
  <2> QED BY <1>4, <2>1, EndKeepsType DEF NotifyWrite
<1> QED BY <1>1, <1>2, <1>3, <1>4 DEF Notify

LEMMA TakeKeepsType ==
  ASSUME PoolTypeOK, WorkerTake
  PROVE  PoolTypeOK'
<1>1. Head(queue) \in Jobs /\ Tail(queue) \in Seq(Jobs)
  BY DEF PoolTypeOK, WorkerTake
<1> QED BY <1>1 DEF WorkerTake, PoolTypeOK, RunPCs, WatchPCs

LEMMA PoolKeepsType ==
  ASSUME StoreTypeOK, HookTypeOK, PoolTypeOK, NEW j \in Jobs, Pool(j)
  PROVE  StoreTypeOK' /\ HookTypeOK' /\ PoolTypeOK'
<1> USE DEF HookTypeOK, PoolTypeOK, hookVars, poolVars
<1>1. CASE RunnerClaim(j)
  <2>1. StoreTypeOK'
    BY <1>1, ClaimKeepsType DEF RunnerClaim
  <2> QED BY <1>1, <2>1 DEF RunnerClaim, RunPCs
<1>2. CASE RunnerDeclined(j) \/ RunnerLate(j) \/ RunnerFailLate(j)
  BY <1>2 DEF RunnerDeclined, RunnerLate, RunnerFailLate, RunPCs,
     StoreTypeOK, storeVars
<1>3. CASE RunnerCommit(j)
  <2>1. StoreTypeOK'
    BY <1>3, CommitKeepsType DEF RunnerCommit
  <2> QED BY <1>3, <2>1 DEF RunnerCommit
<1>4. CASE RunnerPublish(j)
  <2>1. StoreTypeOK'
    BY <1>4, CommitKeepsType DEF RunnerPublish
  <2>2. note' \in [Threads -> NoteState]
    BY <1>4, BeginKeepsType, ThreadNames DEF RunnerPublish
  <2> QED BY <1>4, <2>1, <2>2 DEF RunnerPublish, RunPCs
<1>5. CASE RunnerFail(j)
  <2>1. StoreTypeOK'
    BY <1>5, FailKeepsType DEF RunnerFail, Stages
  <2>2. note' \in [Threads -> NoteState]
    BY <1>5, BeginKeepsType, ThreadNames DEF RunnerFail
  <2> QED BY <1>5, <2>1, <2>2 DEF RunnerFail, RunPCs
<1>6. CASE WatcherTimeout(j)
  <2>1. StoreTypeOK'
    BY <1>6, FailKeepsType DEF WatcherTimeout, Stages
  <2>2. note' \in [Threads -> NoteState]
    BY <1>6, BeginKeepsType, ThreadNames DEF WatcherTimeout
  <2> QED BY <1>6, <2>1, <2>2 DEF WatcherTimeout, WatchPCs
<1>7. CASE WatcherRelease(j)
  BY <1>7 DEF WatcherRelease, WatchPCs, StoreTypeOK, storeVars
<1> QED BY <1>1, <1>2, <1>3, <1>4, <1>5, <1>6, <1>7 DEF Pool

LEMMA MaintainKeepsType ==
  ASSUME StoreTypeOK, HookTypeOK, MaintTypeOK, Maintain
  PROVE  StoreTypeOK' /\ HookTypeOK' /\ MaintTypeOK'
<1> USE DEF HookTypeOK, MaintTypeOK, hookVars
<1>1. CASE PurgeJobs
  BY <1>1, AbsentIsRecord DEF PurgeJobs, StoreTypeOK, Phases
<1>2. CASE PurgeReports
  BY <1>2 DEF PurgeReports, StoreTypeOK, Phases, StoredJobs
<1>3. ASSUME NEW j \in Jobs, MarkRead(j)
      PROVE  StoreTypeOK' /\ HookTypeOK' /\ MaintTypeOK'
  <2>1. FailedAs(jobs[j], "interrupted") \in JobRecord
    BY FailedIsRecord DEF StoreTypeOK, Stages
  <2>2. note' \in [Threads -> NoteState]
    BY <1>3, <2>1, StepKeepsType, ThreadNames DEF MarkRead
  <2> QED BY <1>3, <2>2 DEF MarkRead, Drop, StoreTypeOK, storeVars
<1>4. CASE MarkWrite
  <2>1. note[Maint].job \in Jobs /\ note[Maint].snap \in JobRecord
    BY <1>4, BusyNote, ThreadNames DEF MarkWrite, Quiet
  <2>2. StoreTypeOK'
    BY <1>4, <2>1, WriteKeepsType DEF MarkWrite
  <2>3. note' \in [Threads -> NoteState]
    BY <1>4, <2>1, BeginKeepsType, ThreadNames DEF MarkWrite
  <2> QED BY <1>4, <2>2, <2>3 DEF MarkWrite
<1>5. CASE MarkDone
  BY <1>5 DEF MarkDone, StoreTypeOK, storeVars, Phases, StoredJobs
<1>6. ASSUME NEW j \in Jobs, RetrySkip(j)
      PROVE  StoreTypeOK' /\ HookTypeOK' /\ MaintTypeOK'
  BY <1>6 DEF RetrySkip, Drop, StoreTypeOK, storeVars
<1>7. ASSUME NEW j \in Jobs, RetryNotify(j)
      PROVE  StoreTypeOK' /\ HookTypeOK' /\ MaintTypeOK'
  <2>1. note' \in [Threads -> NoteState]
    BY <1>7, BeginKeepsType, ThreadNames DEF RetryNotify
  <2> QED BY <1>7, <2>1 DEF RetryNotify, Drop, StoreTypeOK, storeVars
<1>8. CASE RetryDone
  BY <1>8 DEF RetryDone, NoPass, StoreTypeOK, storeVars, Phases
<1> QED BY <1>1, <1>2, <1>3, <1>4, <1>5, <1>6, <1>7, <1>8 DEF Maintain

LEMMA FaultsKeepType ==
  ASSUME TypeOK, Faults
  PROVE  TypeOK'
<1> USE DEF TypeOK, Fault, hookVars, httpVars
<1>1. ASSUME NEW j \in Jobs,
             ClaimRaises(j) \/ FailRaises(j) \/ WatchRaises(j) \/ RejectRaises(j)
      PROVE  TypeOK'
  <2> USE DEF StoreTypeOK, storeVars, HookTypeOK, MaintTypeOK
  <2>1. CASE ClaimRaises(j) \/ FailRaises(j)
    <3>1. run' \in [Jobs -> RunPCs]
      BY <2>1 DEF ClaimRaises, FailRaises, PoolTypeOK, RunPCs
    <3> QED BY <2>1, <3>1 DEF ClaimRaises, FailRaises, PoolTypeOK
  <2>2. CASE WatchRaises(j)
    BY <2>2 DEF WatchRaises, PoolTypeOK, WatchPCs
  <2>3. CASE RejectRaises(j)
    BY <2>3 DEF RejectRaises, PoolTypeOK, poolVars, SubPCs
  <2> QED BY <1>1, <2>1, <2>2, <2>3
<1>2. ASSUME NEW j \in Jobs, CommitRaises(j)
      PROVE  TypeOK'
  <2>1. StoreTypeOK'
    BY <1>2, CommitKeepsType DEF CommitRaises
  <2> QED BY <1>2, <2>1 DEF CommitRaises, HookTypeOK, PoolTypeOK, RunPCs,
             MaintTypeOK
<1>3. ASSUME NEW t \in Threads, NotifyRaises(t)
      PROVE  TypeOK'
  <2>1. note' \in [Threads -> NoteState]
    BY <1>3, EndKeepsType DEF NotifyRaises, HookTypeOK
  <2>2. HookTypeOK' /\ StoreTypeOK'
    BY <1>3, <2>1 DEF NotifyRaises, HookTypeOK, StoreTypeOK, storeVars
  <2>3. faults' \in Nat /\ crashes' \in Nat /\ sub' = sub /\ told' = told
    BY <1>3 DEF NotifyRaises
  <2>4. PoolTypeOK'
    BY <1>3 DEF NotifyRaises, PoolTypeOK, RunPCs, WatchPCs
  <2>5. MaintTypeOK' /\ mode' \in {"starting", "up", "down"}
    BY <1>3 DEF NotifyRaises, MaintTypeOK, Phases, NoPass
  <2> QED BY <2>2, <2>3, <2>4, <2>5
<1> QED BY <1>1, <1>2, <1>3 DEF Faults

LEMMA ProcessKeepsType ==
  ASSUME TypeOK, Crash \/ Restart \/ StartServing \/ Tick
  PROVE  TypeOK'
<1> USE DEF TypeOK, hookVars, poolVars, httpVars, envVars, storeVars
<1>1. CASE Crash
  <2>1. StoreTypeOK' /\ HookTypeOK'
    BY <1>1, AbsentIsRecord DEF Crash, StoreTypeOK, HookTypeOK, NoteState, Unlocked
  <2>2. PoolTypeOK'
    BY <1>1 DEF Crash, PoolTypeOK, RunPCs, WatchPCs
  <2> QED BY <1>1, <2>1, <2>2 DEF Crash, MaintTypeOK, NoPass, Phases, SubPCs
<1>2. CASE Restart \/ StartServing \/ Tick
  BY <1>2 DEF Restart, StartServing, Tick, BeginPass, StoreTypeOK, HookTypeOK,
     PoolTypeOK, MaintTypeOK, Phases
<1> QED BY <1>1, <1>2

LEMMA ExpiryKeepsType ==
  ASSUME TypeOK, NEW j \in Jobs, ExpireReport(j) \/ ExpireJob(j)
  PROVE  TypeOK'
BY DEF TypeOK, ExpireReport, ExpireJob, StoreTypeOK, HookTypeOK, hookVars,
   PoolTypeOK, poolVars, MaintTypeOK, httpVars, envVars

LEMMA WorkKeepsType ==
  ASSUME TypeOK, Work
  PROVE  TypeOK'
<1> USE DEF TypeOK, httpVars, envVars
<1>1. CASE TakeStep
  <2>1. PoolTypeOK'
    BY <1>1, TakeKeepsType DEF TakeStep
  <2> QED BY <1>1, <2>1 DEF Work, TakeStep, WorkerTake, StoreTypeOK, storeVars,
             HookTypeOK, hookVars, MaintTypeOK
<1>2. ASSUME NEW j \in Jobs, PoolStep(j)
      PROVE  TypeOK'
  BY <1>2, PoolKeepsType DEF Work, PoolStep, MaintTypeOK
<1>3. ASSUME NEW t \in Threads, NotifyStep(t)
      PROVE  TypeOK'
  BY <1>3, NotifyKeepsType DEF Work, NotifyStep, PoolTypeOK, poolVars, MaintTypeOK
<1> QED BY <1>1, <1>2, <1>3 DEF Work

LEMMA MaintStepKeepsType ==
  ASSUME TypeOK, MaintStep, UNCHANGED <<httpVars, envVars>>
  PROVE  TypeOK'
<1> USE DEF TypeOK, httpVars, envVars
<1>1. CASE Maintain
  <2>1. PoolTypeOK'
    BY <1>1 DEF Maintain, PurgeJobs, PurgeReports, MarkRead, MarkWrite,
       MarkDone, RetrySkip, RetryNotify, RetryDone, PoolTypeOK, poolVars
  <2> QED BY <1>1, <2>1, MaintainKeepsType
<1>2. CASE NotifyStep(Maint)
  BY <1>2, NotifyKeepsType, ThreadNames DEF NotifyStep, PoolTypeOK, poolVars,
     MaintTypeOK
<1> QED BY <1>1, <1>2 DEF MaintStep

LEMMA TypeInit ==
  ASSUME Init
  PROVE  TypeOK
<1>1. StoreTypeOK
  BY AbsentIsRecord DEF Init, StoreInit, StoreTypeOK, Unlocked
<1>2. HookTypeOK
  BY DEF Init, HookInit, HookTypeOK, NoteState
<1>3. PoolTypeOK
  BY DEF Init, PoolInit, PoolTypeOK, RunPCs, WatchPCs
<1> QED BY <1>1, <1>2, <1>3 DEF Init, MaintInit, MaintTypeOK, NoPass, Phases,
           SubPCs, TypeOK

LEMMA TypeStep ==
  ASSUME TypeOK, [Next]_vars
  PROVE  TypeOK'
<1>1. CASE UNCHANGED vars
  BY <1>1 DEF vars, storeVars, hookVars, poolVars, httpVars, envVars, TypeOK,
     StoreTypeOK, HookTypeOK, PoolTypeOK, MaintTypeOK
<1> QED BY <1>1, HttpKeepsType, WorkKeepsType, MaintStepKeepsType,
           ProcessKeepsType, FaultsKeepType, ExpiryKeepsType DEF Next

\* Every reachable state has the types the code gives its records, threads
\* and files.
THEOREM TypeCorrect == Spec => []TypeOK
BY TypeInit, TypeStep, PTL DEF Spec

-----------------------------------------------------------------------------
(* The inductive invariant.  Two lemmas carry the steps: a locked write of *)
(* one existing record, and a step that writes no job file.                *)

\* No handler draws an id or goes back to an unanswered state.
HandlersAdvance ==
  \A i \in Jobs :
    \/ sub'[i] = sub[i]
    \/ /\ sub[i] # "none" /\ sub'[i] # "none"
       /\ sub'[i] \in {"created", "refused"} => sub[i] \in {"created", "refused"}

\* A note that may stand beside the stored records as they are.
SoundNote(t, n) ==
  /\ n.job \in Jobs
  /\ sub[n.job] # "none"
  /\ t # Maint => n.job \notin oldJobs
  /\ HasBudget(n.snap)
  /\ n.pc \in {"put", "send", "write"} =>
       /\ Exists(n.job)
       /\ n.snap.key = jobs[n.job].key
       /\ n.snap.status \in {"complete", "failed", "cancelled"}
  /\ n.pc = "read" /\ Exists(n.job) => Terminal(n.job)

LEMMA AbsentHasBudget == HasBudget(Absent)
BY DEF HasBudget, Absent

LEMMA NoteStep ==
  ASSUME TypeOK, CopiesAreHarmless, TypeOK', HandlersAdvance,
         UNCHANGED <<jobs, lock, oldJobs>>,
         \A t \in Threads : \/ note'[t] = note[t]
                            \/ note'[t] = IdleNote
                            \/ SoundNote(t, note'[t])
  PROVE  CopiesAreHarmless'
<1> USE StoreAssumption DEF CopiesAreHarmless, HandlersAdvance
<1>2. FreshIds'
  BY DEF FreshIds, SoundNote, IdleNote, Exists
<1>3. OfferedIsStored'
  BY DEF OfferedIsStored, Exists
<1>4. NotifierIsRecent'
  BY DEF NotifierIsRecent, SoundNote, IdleNote, TypeOK, StoreTypeOK
<1>5. CopiesAreTerminal'
  BY DEF CopiesAreTerminal, SoundNote, IdleNote, Exists
<1>6. NotifiesTerminal'
  BY DEF NotifiesTerminal, SoundNote, IdleNote, Exists, Terminal
<1>7. CommitHoldsKey' /\ KeyBindsOneJob'
  BY DEF CommitHoldsKey, KeyBindsOneJob, Exists
<1>8. ReceiptsHaveBudget'
  BY AbsentHasBudget DEF ReceiptsHaveBudget, SoundNote, IdleNote, HasBudget
<1> QED BY <1>2, <1>3, <1>4, <1>5, <1>6, <1>7, <1>8

LEMMA WriteStep ==
  ASSUME TypeOK, CopiesAreHarmless, TypeOK', HandlersAdvance,
         NEW j \in Jobs, NEW rec \in JobRecord, WriteJob(j, rec), Exists(j), rec.status # "absent", rec.key = jobs[j].key,
         HasBudget(rec),
         Terminal(j) => rec.status \in {"complete", "failed", "cancelled"},
         \A t \in Threads :
           \/ note'[t] = note[t]
           \/ note'[t] = IdleNote
           \/ /\ note'[t] = [pc |-> "read", job |-> j, snap |-> Absent]
              /\ rec.status \in {"complete", "failed", "cancelled"}
  PROVE  CopiesAreHarmless'
<1> USE StoreAssumption DEF CopiesAreHarmless, HandlersAdvance
<1>1. /\ jobs'[j] = rec
      /\ \A i \in Jobs \ {j} : jobs'[i] = jobs[i]
      /\ oldJobs' = oldJobs \ {j}
      /\ lock.job = NoJob /\ lock' = lock
  BY DEF WriteJob, LockFree, Put, TypeOK, StoreTypeOK
<1>2. /\ \A i \in Jobs : Exists(i)' <=> Exists(i)
      /\ \A i \in Jobs : jobs'[i].key = jobs[i].key
  BY <1>1 DEF Exists
<1>3. \A i \in Jobs : Terminal(i) => Terminal(i)'
  BY <1>1 DEF Terminal
<1>4. FreshIds'
  BY <1>1, <1>2 DEF FreshIds, IdleNote
<1>5. OfferedIsStored'
  BY <1>1, <1>2 DEF OfferedIsStored
<1>6. NotifierIsRecent'
  BY <1>1 DEF NotifierIsRecent, IdleNote, TypeOK, StoreTypeOK
<1>7. CopiesAreTerminal'
  <2>1. SUFFICES ASSUME NEW t \in Threads,
                        note'[t].pc \in {"put", "send", "write"}
                 PROVE  /\ Exists(note[t].job)'
                        /\ note'[t].snap.key = jobs'[note'[t].job].key
                        /\ note'[t].snap.status \in {"complete", "failed", "cancelled"}
    BY DEF CopiesAreTerminal
  <2>2. note'[t] = note[t]
    BY <2>1 DEF IdleNote
  <2>3. note[t].job \in Jobs
    BY <2>1, <2>2, BusyNote DEF Quiet, TypeOK, HookTypeOK
  <2> QED BY <1>2, <2>1, <2>2, <2>3 DEF CopiesAreTerminal
<1>8. NotifiesTerminal'
  <2>1. SUFFICES ASSUME NEW t \in Threads, note'[t].pc = "read",
                        Exists(note[t].job)'
                 PROVE  Terminal(note[t].job)'
    BY DEF NotifiesTerminal
  <2>2. CASE note'[t] = note[t]
    <3>1. note[t].job \in Jobs
      BY <2>1, <2>2, BusyNote DEF Quiet, TypeOK, HookTypeOK
    <3> QED BY <1>2, <1>3, <2>1, <2>2, <3>1 DEF NotifiesTerminal
  <2>3. CASE note'[t] # note[t]
    BY <1>1, <2>1, <2>3 DEF IdleNote, Terminal
  <2> QED BY <2>2, <2>3
<1>9. CommitHoldsKey'
  BY <1>1 DEF CommitHoldsKey
<1>10. ReceiptsHaveBudget'
  BY <1>1, AbsentHasBudget DEF ReceiptsHaveBudget, IdleNote, HasBudget
<1>11. KeyBindsOneJob'
  BY <1>2 DEF KeyBindsOneJob
<1> QED BY <1>4, <1>5, <1>6, <1>7, <1>8, <1>9, <1>10, <1>11

LEMMA CreateStep ==
  ASSUME TypeOK, CopiesAreHarmless, TypeOK',
         NEW j \in Jobs, NEW k \in Keys \cup {NoKey}, NEW r \in Requests,
         PostCreate(j, k, r)
  PROVE  CopiesAreHarmless'
<1> USE StoreAssumption DEF CopiesAreHarmless
<1>1. /\ sub[j] = "none" /\ sub' = [sub EXCEPT ![j] = "created"]
      /\ k # NoKey => Holders(k) = {}
      /\ lock.job = NoJob /\ lock' = lock
      /\ jobs' = [jobs EXCEPT ![j] = NewRecord(k, r)]
      /\ oldJobs' = oldJobs \ {j}
      /\ note' = note
  BY DEF PostCreate, Create, WriteJob, Put, LockFree, hookVars
<1>2. /\ jobs'[j].status = "queued" /\ jobs'[j].key = k /\ jobs'[j].hook = "none"
      /\ \A i \in Jobs \ {j} : jobs'[i] = jobs[i]
      /\ \A i \in Jobs \ {j} : sub'[i] = sub[i]
      /\ sub'[j] = "created"
  BY <1>1 DEF NewRecord, Absent, TypeOK, StoreTypeOK
<1>3. \A t \in Threads : note[t].job # j
  BY <1>1 DEF FreshIds
<1>4. FreshIds' /\ OfferedIsStored'
  BY <1>1, <1>2, <1>3 DEF FreshIds, OfferedIsStored, Exists
<1>5. NotifierIsRecent'
  BY <1>1 DEF NotifierIsRecent
<1>6. CopiesAreTerminal' /\ NotifiesTerminal'
  <2>1. ASSUME NEW t \in Threads, note[t].pc # "idle"
        PROVE  note[t].job \in Jobs \ {j}
    BY <1>3, <2>1, BusyNote DEF Quiet, TypeOK, HookTypeOK
  <2> QED BY <1>1, <1>2, <2>1 DEF CopiesAreTerminal, NotifiesTerminal, Exists,
             Terminal
<1>7. CommitHoldsKey'
  BY <1>1 DEF CommitHoldsKey
<1>8. ReceiptsHaveBudget'
  BY <1>1, <1>2 DEF ReceiptsHaveBudget, HasBudget
<1>9. KeyBindsOneJob'
  BY <1>1, <1>2 DEF KeyBindsOneJob, Holders, Exists
<1> QED BY <1>4, <1>5, <1>6, <1>7, <1>8, <1>9

LEMMA OpenStep ==
  ASSUME TypeOK, CopiesAreHarmless, TypeOK', NEW j \in Jobs, OpenCommit(j),
         UNCHANGED <<note, sub>>
  PROVE  CopiesAreHarmless'
<1> USE DEF CopiesAreHarmless
<1>1. /\ lock' = [job |-> j, rec |-> jobs[j]]
      /\ jobs[j].status = "running"
      /\ UNCHANGED <<jobs, oldJobs>>
  BY DEF OpenCommit
<1>2. sub[j] # "none"
  BY <1>1 DEF FreshIds, Exists
<1>3. FreshIds' /\ OfferedIsStored' /\ NotifierIsRecent'
  BY <1>1, <1>2 DEF FreshIds, OfferedIsStored, NotifierIsRecent, Exists
<1>4. CopiesAreTerminal' /\ NotifiesTerminal' /\ KeyBindsOneJob'
  BY <1>1 DEF CopiesAreTerminal, NotifiesTerminal, KeyBindsOneJob, Exists, Terminal
<1>5. CommitHoldsKey'
  BY <1>1 DEF CommitHoldsKey, KeyBindsOneJob, Exists
<1>6. ReceiptsHaveBudget'
  BY <1>1 DEF ReceiptsHaveBudget
<1> QED BY <1>3, <1>4, <1>5, <1>6

\* The commit writes the record it has read, so it may bring back a record
\* that was purged meanwhile.
LEMMA CloseStep ==
  ASSUME TypeOK, CopiesAreHarmless, TypeOK', NEW j \in Jobs, CloseCommit(j),
         BeginNotify(Runner(j), j), UNCHANGED sub
  PROVE  CopiesAreHarmless'
<1> USE StoreAssumption, ThreadNames DEF CopiesAreHarmless
<1>1. /\ lock.job = j
      /\ lock' = Unlocked
      /\ jobs' = [jobs EXCEPT ![j] =
                    [lock.rec EXCEPT !.status = "complete",
                                     !.stage = "complete", !.ref = TRUE]]
      /\ oldJobs' = oldJobs \ {j}
  BY DEF CloseCommit, Put
<1>2. /\ jobs'[j].status = "complete" /\ jobs'[j].key = lock.rec.key
      /\ HasBudget(jobs'[j])
      /\ \A i \in Jobs \ {j} : jobs'[i] = jobs[i]
  <2>1. lock.rec \in JobRecord /\ HasBudget(lock.rec)
    BY DEF TypeOK, StoreTypeOK, ReceiptsHaveBudget
  <2> QED BY <1>1, <2>1 DEF JobRecord, HasBudget, TypeOK, StoreTypeOK
<1>3. \A t \in Threads : \/ note'[t] = note[t]
                         \/ note'[t] = [pc |-> "read", job |-> j, snap |-> Absent]
  BY DEF BeginNotify, Step, TypeOK, HookTypeOK
<1>4. sub[j] # "none"
  BY <1>1 DEF FreshIds
<1>5. FreshIds' /\ OfferedIsStored'
  BY <1>1, <1>2, <1>3, <1>4 DEF FreshIds, OfferedIsStored, Exists, Unlocked
<1>6. NotifierIsRecent'
  BY <1>1, <1>3 DEF NotifierIsRecent
<1>7. CopiesAreTerminal'
  BY <1>1, <1>2, <1>3 DEF CopiesAreTerminal, CommitHoldsKey, Exists
<1>8. NotifiesTerminal'
  BY <1>1, <1>2, <1>3 DEF NotifiesTerminal, Exists, Terminal
<1>9. CommitHoldsKey'
  BY <1>1 DEF CommitHoldsKey, Unlocked
<1>10. ReceiptsHaveBudget'
  BY <1>1, <1>2, <1>3, AbsentHasBudget DEF ReceiptsHaveBudget, Unlocked, HasBudget
<1>11. KeyBindsOneJob'
  BY <1>1, <1>2 DEF KeyBindsOneJob, CommitHoldsKey, Exists
<1> QED BY <1>5, <1>6, <1>7, <1>8, <1>9, <1>10, <1>11

LEMMA AbortStep ==
  ASSUME TypeOK, CopiesAreHarmless, TypeOK', NEW j \in Jobs, AbortCommit(j),
         UNCHANGED <<note, sub>>
  PROVE  CopiesAreHarmless'
BY StoreAssumption, AbsentHasBudget
   DEF CopiesAreHarmless, AbortCommit, FreshIds, OfferedIsStored,
       NotifierIsRecent, CopiesAreTerminal, NotifiesTerminal, CommitHoldsKey,
       ReceiptsHaveBudget, KeyBindsOneJob, Unlocked, Exists, Terminal, HasBudget

LEMMA PurgeStep ==
  ASSUME TypeOK, CopiesAreHarmless, TypeOK', PurgeJobs, UNCHANGED sub
  PROVE  CopiesAreHarmless'
<1> USE DEF CopiesAreHarmless
<1>1. PICK gone \in SUBSET oldJobs :
        /\ jobs' = [j \in Jobs |-> IF j \in gone THEN Absent ELSE jobs[j]]
        /\ oldJobs' = oldJobs \ gone
  BY DEF PurgeJobs
<1>2. /\ UNCHANGED <<lock, note>>
      /\ note[Maint].pc = "idle"
  BY DEF PurgeJobs, AtLoop, Quiet, hookVars
<1>3. \A j \in Jobs : jobs'[j] = jobs[j] \/ (jobs'[j] = Absent /\ ~Exists(j)')
  BY <1>1 DEF Exists, Absent
<1>4. \A j \in Jobs : j \notin oldJobs => jobs'[j] = jobs[j]
  BY <1>1
<1>5. FreshIds' /\ OfferedIsStored'
  BY <1>1, <1>2, <1>3, <1>4 DEF FreshIds, OfferedIsStored, Exists
<1>6. NotifierIsRecent'
  BY <1>1, <1>2 DEF NotifierIsRecent
<1>7. CopiesAreTerminal'
  <2>1. ASSUME NEW t \in Threads, note[t].pc # "idle"
        PROVE  note[t].job \in Jobs /\ jobs'[note[t].job] = jobs[note[t].job]
    BY <1>2, <1>4, <2>1, BusyNote DEF Quiet, NotifierIsRecent, TypeOK, HookTypeOK
  <2> QED BY <1>2, <2>1 DEF CopiesAreTerminal, Exists
<1>8. NotifiesTerminal'
  <2>1. ASSUME NEW t \in Threads, note[t].pc = "read"
        PROVE  note[t].job \in Jobs
    BY <2>1, BusyNote DEF Quiet, TypeOK, HookTypeOK
  <2> QED BY <1>2, <1>3, <2>1 DEF NotifiesTerminal, Exists, Terminal
<1>9. CommitHoldsKey' /\ KeyBindsOneJob'
  BY <1>2, <1>3 DEF CommitHoldsKey, KeyBindsOneJob, Exists
<1>10. ReceiptsHaveBudget'
  BY <1>2, <1>3, AbsentHasBudget DEF ReceiptsHaveBudget, HasBudget
<1> QED BY <1>5, <1>6, <1>7, <1>8, <1>9, <1>10

LEMMA CrashStep ==
  ASSUME TypeOK, CopiesAreHarmless, TypeOK', Crash
  PROVE  CopiesAreHarmless'
<1> USE StoreAssumption DEF CopiesAreHarmless
<1>1. /\ UNCHANGED <<jobs, oldJobs>>
      /\ lock' = Unlocked
      /\ \A t \in Threads : note'[t] = IdleNote
      /\ \A j \in Jobs : sub'[j] = IF sub[j] = "none" THEN "none" ELSE "answered"
  BY DEF Crash
<1>2. FreshIds' /\ OfferedIsStored'
  BY <1>1 DEF FreshIds, OfferedIsStored, Exists, IdleNote, Unlocked
<1>3. NotifierIsRecent' /\ CopiesAreTerminal' /\ NotifiesTerminal'
  BY <1>1 DEF NotifierIsRecent, CopiesAreTerminal, NotifiesTerminal, IdleNote,
     TypeOK, StoreTypeOK
<1>4. CommitHoldsKey' /\ KeyBindsOneJob'
  BY <1>1 DEF CommitHoldsKey, KeyBindsOneJob, Exists, Unlocked
<1>5. ReceiptsHaveBudget'
  BY <1>1, AbsentHasBudget DEF ReceiptsHaveBudget, IdleNote, Unlocked, HasBudget
<1> QED BY <1>2, <1>3, <1>4, <1>5

LEMMA ExpireStep ==
  ASSUME TypeOK, CopiesAreHarmless, TypeOK', NEW j \in Jobs, ExpireJob(j)
  PROVE  CopiesAreHarmless'
<1> USE DEF CopiesAreHarmless
<1>1. /\ UNCHANGED <<jobs, lock, note, sub>>
      /\ oldJobs' = oldJobs \cup {j}
      /\ sub[j] = "answered"
      /\ \A t \in Threads : note[t].job # j
  BY DEF ExpireJob, Unattended, hookVars, httpVars
<1>2. FreshIds' /\ OfferedIsStored' /\ NotifierIsRecent'
  BY <1>1 DEF FreshIds, OfferedIsStored, NotifierIsRecent, Exists
<1>3. CopiesAreTerminal' /\ NotifiesTerminal' /\ CommitHoldsKey'
  BY <1>1 DEF CopiesAreTerminal, NotifiesTerminal, CommitHoldsKey, Exists, Terminal
<1>4. ReceiptsHaveBudget' /\ KeyBindsOneJob'
  BY <1>1 DEF ReceiptsHaveBudget, KeyBindsOneJob, Exists
<1> QED BY <1>2, <1>3, <1>4

-----------------------------------------------------------------------------
(* Every action is a step of one of those kinds. *)

\* A write of an existing record that ends no notification.
LEMMA PlainWrite ==
  ASSUME IInv, TypeOK', HandlersAdvance, UNCHANGED note,
         NEW j \in Jobs, NEW rec \in JobRecord, WriteJob(j, rec), Exists(j),
         rec.status # "absent", rec.key = jobs[j].key, HasBudget(rec),
         Terminal(j) => rec.status \in {"complete", "failed", "cancelled"}
  PROVE  CopiesAreHarmless'
BY WriteStep DEF IInv

LEMMA FailedKeeps ==
  ASSUME TypeOK, ReceiptsHaveBudget, NEW j \in Jobs, NEW stage \in Stages
  PROVE  /\ FailedAs(jobs[j], stage) \in JobRecord
         /\ FailedAs(jobs[j], stage).status = "failed"
         /\ FailedAs(jobs[j], stage).key = jobs[j].key
         /\ HasBudget(FailedAs(jobs[j], stage))
<1>1. jobs[j] \in JobRecord /\ HasBudget(jobs[j])
  BY DEF TypeOK, StoreTypeOK, ReceiptsHaveBudget
<1> QED BY <1>1, FailedIsRecord DEF FailedAs, JobRecord, HasBudget

LEMMA HttpIsHarmless ==
  ASSUME IInv, TypeOK', Http
  PROVE  CopiesAreHarmless'
<1> USE DEF IInv
<1>1. ASSUME NEW j \in Jobs, NEW k \in Keys, NEW r \in Requests,
             PostReplay(j, k, r)
      PROVE  CopiesAreHarmless'
  BY <1>1, NoteStep DEF PostReplay, storeVars, hookVars, HandlersAdvance
<1>2. ASSUME NEW j \in Jobs, PostSubmit(j) \/ PostQueueFull(j)
      PROVE  CopiesAreHarmless'
  <2>1. HandlersAdvance
    BY <1>2 DEF PostSubmit, PostQueueFull, HandlersAdvance, TypeOK
  <2> QED BY <1>2, <2>1, NoteStep DEF PostSubmit, PostQueueFull, storeVars, hookVars
<1>3. ASSUME NEW j \in Jobs, PostReject(j)
      PROVE  CopiesAreHarmless'
  <2> DEFINE new == NewRecord(jobs[j].key, jobs[j].req)
             rec == FailedAs(new, "rejected")
  <2>1. jobs[j].key \in Keys \cup {NoKey} /\ jobs[j].req \in Requests \cup {NoRequest}
    BY DEF TypeOK, StoreTypeOK, JobRecord
  <2>2. new \in JobRecord /\ new.key = jobs[j].key /\ new.hook = "none"
    BY <2>1, NewIsRecord DEF NewRecord, Absent
  <2>3. /\ rec \in JobRecord /\ rec.status = "failed"
        /\ rec.key = jobs[j].key /\ HasBudget(rec)
    <3> HIDE DEF new
    <3>1. rec \in JobRecord
      BY <2>2, FailedIsRecord DEF Stages
    <3>2. rec = [new EXCEPT !.status = "failed", !.stage = "rejected"]
      BY DEF FailedAs
    <3> HIDE DEF rec
    <3>3. rec.status = "failed" /\ rec.key = new.key /\ rec.hook = new.hook
      BY <2>2, <3>2 DEF JobRecord
    <3> QED BY <2>2, <3>1, <3>3 DEF HasBudget
  <2>4. Exists(j)
    BY <1>3 DEF PostReject, CopiesAreHarmless, OfferedIsStored
  <2>5. HandlersAdvance
    BY <1>3 DEF PostReject, HandlersAdvance, TypeOK
  <2>6. WriteJob(j, rec) /\ UNCHANGED note
    BY <1>3 DEF PostReject, hookVars
  <2> HIDE DEF rec
  <2> QED BY <2>3, <2>4, <2>5, <2>6, PlainWrite
<1>4. ASSUME NEW j \in Jobs, DeleteJob(j)
      PROVE  CopiesAreHarmless'
  <2> DEFINE rec == [jobs[j] EXCEPT !.status = "cancelled", !.stage = "cancelled"]
  <2>1. jobs[j] \in JobRecord /\ HasBudget(jobs[j])
    BY DEF TypeOK, StoreTypeOK, CopiesAreHarmless, ReceiptsHaveBudget
  <2>2. /\ rec \in JobRecord /\ rec.status = "cancelled"
        /\ rec.key = jobs[j].key /\ HasBudget(rec)
    BY <2>1 DEF JobRecord, Statuses, Stages, HasBudget
  <2>3. WriteJob(j, rec) /\ Exists(j) /\ UNCHANGED <<note, sub>>
    BY <1>4 DEF DeleteJob, Cancel, Active, Exists, hookVars
  <2> HIDE DEF rec
  <2> QED BY <2>2, <2>3, PlainWrite DEF HandlersAdvance
<1> QED BY <1>1, <1>2, <1>3, <1>4, CreateStep DEF Http

LEMMA ReceiptKeeps ==
  ASSUME NEW rec \in JobRecord, NEW ok \in BOOLEAN, NEW n \in 1..WebhookAttempts
  PROVE  /\ Receipt(rec, ok, n).key = rec.key
         /\ Receipt(rec, ok, n).status = rec.status
         /\ HasBudget(Receipt(rec, ok, n))
<1> DEFINE total == rec.tries + (IF ok THEN n ELSE WebhookAttempts)
<1> DEFINE hook == IF ok THEN "delivered"
                   ELSE IF total >= MaxTotalAttempts THEN "dead_lettered"
                   ELSE "failed"
<1>1. total \in Nat
  BY WebhookAssumption DEF JobRecord
<1>2. hook = "failed" => total < MaxTotalAttempts
  BY <1>1, WebhookAssumption
<1>3. Receipt(rec, ok, n) = [rec EXCEPT !.tries = total, !.hook = hook]
  BY DEF Receipt
<1> HIDE DEF total, hook
<1> QED BY <1>2, <1>3 DEF JobRecord, HasBudget

LEMMA NotifyIsHarmless ==
  ASSUME IInv, TypeOK', NEW t \in Threads, Notify(t), UNCHANGED sub
  PROVE  CopiesAreHarmless'
<1> USE DEF IInv
<1> DEFINE j == note[t].job
           rec == note[t].snap
<1>0. /\ j \in Jobs /\ rec \in JobRecord /\ HasBudget(rec)
      /\ sub[j] # "none"
      /\ t # Maint => j \notin oldJobs
  BY BusyNote DEF Notify, NotifySkip, NotifyRead, NotifySend, NotifyWrite, Quiet,
     TypeOK, HookTypeOK, CopiesAreHarmless, ReceiptsHaveBudget, FreshIds,
     NotifierIsRecent
<1>1. HandlersAdvance
  BY DEF HandlersAdvance
<1>2. CASE NotifySkip(t)
  <2>1. \A s \in Threads : note'[s] = note[s] \/ note'[s] = IdleNote
    BY <1>2 DEF NotifySkip, EndNotify, TypeOK, HookTypeOK
  <2> QED BY <1>1, <1>2, <2>1, NoteStep DEF NotifySkip, storeVars
<1>3. CASE NotifyRead(t)
  <2> DEFINE new == [pc |-> "send", job |-> j, snap |-> jobs[j]]
  <2>1. \A s \in Threads : note'[s] = note[s] \/ (s = t /\ note'[s] = new)
    BY <1>3 DEF NotifyRead, Step, TypeOK, HookTypeOK
  <2>2. SoundNote(t, new)
    BY <1>0, <1>3 DEF NotifyRead, SoundNote, Terminal, CopiesAreHarmless,
       NotifiesTerminal, ReceiptsHaveBudget
  <2> HIDE DEF new
  <2> QED BY <1>1, <1>3, <2>1, <2>2, NoteStep DEF NotifyRead, storeVars
<1>4. CASE NotifySend(t)
  <2>1. PICK n \in 1..WebhookAttempts, ok \in BOOLEAN :
          Step(t, "write", j, Receipt(rec, ok, n))
    BY <1>4 DEF NotifySend
  <2> DEFINE new == [pc |-> "write", job |-> j, snap |-> Receipt(rec, ok, n)]
  <2>2. \A s \in Threads : note'[s] = note[s] \/ (s = t /\ note'[s] = new)
    BY <2>1 DEF Step, TypeOK, HookTypeOK
  <2>3. /\ Exists(j) /\ rec.key = jobs[j].key
        /\ rec.status \in {"complete", "failed", "cancelled"}
    BY <1>4 DEF NotifySend, CopiesAreHarmless, CopiesAreTerminal
  <2>4. SoundNote(t, new)
    BY <1>0, <2>3, ReceiptKeeps DEF SoundNote
  <2> HIDE DEF new
  <2> QED BY <1>1, <1>4, <2>2, <2>4, NoteStep DEF NotifySend, storeVars
<1>5. CASE NotifyWrite(t)
  <2>1. \A s \in Threads : note'[s] = note[s] \/ note'[s] = IdleNote
    BY <1>5 DEF NotifyWrite, EndNotify, TypeOK, HookTypeOK
  <2>2. /\ WriteJob(j, rec) /\ Exists(j) /\ rec.key = jobs[j].key
        /\ rec.status \in {"complete", "failed", "cancelled"}
    BY <1>5 DEF NotifyWrite, CopiesAreHarmless, CopiesAreTerminal
  <2> HIDE DEF j, rec
  <2> QED BY <1>0, <1>1, <2>1, <2>2, WriteStep
<1> QED BY <1>2, <1>3, <1>4, <1>5 DEF Notify

\* A thread begins to notify about the record it has just failed.
LEMMA FailAndNotify ==
  ASSUME IInv, TypeOK', UNCHANGED sub, NEW j \in Jobs, NEW t \in Threads,
         NEW stage \in Stages, Fail(j, stage), BeginNotify(t, j)
  PROVE  CopiesAreHarmless'
<1> USE DEF IInv
<1> DEFINE rec == FailedAs(jobs[j], stage)
<1>1. /\ rec \in JobRecord /\ rec.status = "failed"
      /\ rec.key = jobs[j].key /\ HasBudget(rec)
  BY FailedKeeps DEF CopiesAreHarmless
<1>2. WriteJob(j, rec) /\ Exists(j)
  BY DEF Fail, Active, Exists
<1>3. \A s \in Threads : \/ note'[s] = note[s]
                         \/ note'[s] = [pc |-> "read", job |-> j, snap |-> Absent]
  BY DEF BeginNotify, Step, TypeOK, HookTypeOK
<1>4. HandlersAdvance
  BY DEF HandlersAdvance
<1> HIDE DEF rec
<1> QED BY <1>1, <1>2, <1>3, <1>4, WriteStep

LEMMA PoolIsHarmless ==
  ASSUME IInv, TypeOK', NEW j \in Jobs, Pool(j), UNCHANGED sub
  PROVE  CopiesAreHarmless'
<1> USE DEF IInv
<1>0. HandlersAdvance
  BY DEF HandlersAdvance
<1>1. CASE RunnerClaim(j)
  <2> DEFINE rec == [jobs[j] EXCEPT !.status = "running", !.stage = "downloading"]
  <2>1. jobs[j] \in JobRecord /\ HasBudget(jobs[j])
    BY DEF TypeOK, StoreTypeOK, CopiesAreHarmless, ReceiptsHaveBudget
  <2>2. /\ rec \in JobRecord /\ rec.status = "running"
        /\ rec.key = jobs[j].key /\ HasBudget(rec)
    BY <2>1 DEF JobRecord, Statuses, Stages, HasBudget
  <2>3. WriteJob(j, rec) /\ Exists(j) /\ ~Terminal(j) /\ UNCHANGED note
    BY <1>1 DEF RunnerClaim, Claim, Exists, Terminal, hookVars
  <2> HIDE DEF rec
  <2> QED BY <1>0, <2>2, <2>3, PlainWrite
<1>2. CASE RunnerDeclined(j) \/ RunnerLate(j) \/ RunnerFailLate(j) \/ WatcherRelease(j)
  BY <1>0, <1>2, NoteStep DEF RunnerDeclined, RunnerLate, RunnerFailLate,
     WatcherRelease, storeVars, hookVars
<1>3. CASE RunnerCommit(j)
  BY <1>3, OpenStep DEF RunnerCommit, hookVars
<1>4. CASE RunnerPublish(j)
  BY <1>4, CloseStep DEF RunnerPublish
<1>5. CASE RunnerFail(j)
  BY <1>5, FailAndNotify, ThreadNames DEF RunnerFail, Stages
<1>6. CASE WatcherTimeout(j)
  BY <1>6, FailAndNotify, ThreadNames DEF WatcherTimeout, Stages
<1> QED BY <1>1, <1>2, <1>3, <1>4, <1>5, <1>6 DEF Pool

LEMMA MaintainIsHarmless ==
  ASSUME IInv, TypeOK', Maintain, UNCHANGED sub
  PROVE  CopiesAreHarmless'
<1> USE DEF IInv
<1>0. HandlersAdvance
  BY DEF HandlersAdvance
<1>1. CASE PurgeReports \/ MarkDone \/ RetryDone \/ \E j \in Jobs : RetrySkip(j)
  BY <1>0, <1>1, NoteStep DEF PurgeReports, MarkDone, RetryDone, RetrySkip,
     storeVars, hookVars
<1>2. ASSUME NEW j \in Jobs, MarkRead(j)
      PROVE  CopiesAreHarmless'
  <2> DEFINE rec == FailedAs(jobs[j], "interrupted")
             new == [pc |-> "put", job |-> j, snap |-> rec]
  <2>1. \A s \in Threads : note'[s] = note[s] \/ (s = Maint /\ note'[s] = new)
    BY <1>2 DEF MarkRead, Step, TypeOK, HookTypeOK
  <2>2. rec.status = "failed" /\ rec.key = jobs[j].key /\ HasBudget(rec)
    BY FailedKeeps DEF CopiesAreHarmless, Stages
  <2>3. Exists(j) /\ sub[j] # "none"
    BY <1>2 DEF MarkRead, Active, Exists, CopiesAreHarmless, FreshIds
  <2> HIDE DEF rec
  <2>4. SoundNote(Maint, new)
    BY <2>2, <2>3 DEF SoundNote
  <2> HIDE DEF new
  <2> QED BY <1>0, <1>2, <2>1, <2>4, NoteStep DEF MarkRead, storeVars
<1>3. CASE MarkWrite
  <2> DEFINE j == note[Maint].job
             rec == note[Maint].snap
  <2>1. j \in Jobs /\ rec \in JobRecord /\ HasBudget(rec)
    BY <1>3, BusyNote, ThreadNames DEF MarkWrite, Quiet, TypeOK, HookTypeOK,
       CopiesAreHarmless, ReceiptsHaveBudget
  <2>2. /\ WriteJob(j, rec) /\ Exists(j) /\ rec.key = jobs[j].key
        /\ rec.status \in {"complete", "failed", "cancelled"}
    BY <1>3, ThreadNames DEF MarkWrite, CopiesAreHarmless, CopiesAreTerminal
  <2>3. \A s \in Threads : \/ note'[s] = note[s]
                           \/ note'[s] = [pc |-> "read", job |-> j, snap |-> Absent]
    BY <1>3 DEF MarkWrite, BeginNotify, Step, TypeOK, HookTypeOK
  <2> HIDE DEF j, rec
  <2> QED BY <1>0, <2>1, <2>2, <2>3, WriteStep
<1>4. ASSUME NEW j \in Jobs, RetryNotify(j)
      PROVE  CopiesAreHarmless'
  <2> DEFINE new == [pc |-> "read", job |-> j, snap |-> Absent]
  <2>1. \A s \in Threads : note'[s] = note[s] \/ (s = Maint /\ note'[s] = new)
    BY <1>4 DEF RetryNotify, BeginNotify, Step, TypeOK, HookTypeOK
  <2>2. Terminal(j) /\ sub[j] # "none"
    BY <1>4 DEF RetryNotify, NeedsRetry, Terminal, CopiesAreHarmless, FreshIds, Exists
  <2>3. SoundNote(Maint, new)
    BY <2>2, AbsentHasBudget DEF SoundNote
  <2> HIDE DEF new
  <2> QED BY <1>0, <1>4, <2>1, <2>3, NoteStep DEF RetryNotify, storeVars
<1> QED BY <1>1, <1>2, <1>3, <1>4, PurgeStep DEF Maintain

LEMMA FaultsAreHarmless ==
  ASSUME IInv, TypeOK', Faults
  PROVE  CopiesAreHarmless'
<1> USE DEF IInv
<1>1. ASSUME NEW j \in Jobs, ClaimRaises(j) \/ FailRaises(j) \/ WatchRaises(j)
      PROVE  CopiesAreHarmless'
  BY <1>1, NoteStep DEF ClaimRaises, FailRaises, WatchRaises, HandlersAdvance,
     storeVars, hookVars, httpVars
<1>2. ASSUME NEW j \in Jobs, RejectRaises(j)
      PROVE  CopiesAreHarmless'
  <2>1. HandlersAdvance
    BY <1>2 DEF RejectRaises, HandlersAdvance, TypeOK
  <2> QED BY <1>2, <2>1, NoteStep DEF RejectRaises, storeVars, hookVars
<1>3. ASSUME NEW j \in Jobs, CommitRaises(j)
      PROVE  CopiesAreHarmless'
  BY <1>3, AbortStep DEF CommitRaises, hookVars, httpVars
<1>4. ASSUME NEW t \in Threads, NotifyRaises(t)
      PROVE  CopiesAreHarmless'
  <2>1. \A s \in Threads : note'[s] = note[s] \/ note'[s] = IdleNote
    BY <1>4 DEF NotifyRaises, EndNotify, TypeOK, HookTypeOK
  <2>2. HandlersAdvance /\ UNCHANGED <<jobs, lock, oldJobs>>
    BY <1>4 DEF NotifyRaises, HandlersAdvance, storeVars, httpVars
  <2> QED BY <2>1, <2>2, NoteStep
<1> QED BY <1>1, <1>2, <1>3, <1>4 DEF Faults

LEMMA InvariantInit ==
  ASSUME Init
  PROVE  IInv
BY TypeInit, AbsentHasBudget, StoreAssumption
   DEF IInv, Init, StoreInit, HookInit, CopiesAreHarmless, FreshIds,
       OfferedIsStored, NotifierIsRecent, CopiesAreTerminal, NotifiesTerminal,
       CommitHoldsKey, ReceiptsHaveBudget, KeyBindsOneJob, Exists, Unlocked,
       IdleNote, Absent, HasBudget

LEMMA InvariantStep ==
  ASSUME IInv, [Next]_vars
  PROVE  IInv'
<1>0. TypeOK'
  BY TypeStep DEF IInv
<1>1. CASE Http
  BY <1>0, <1>1, HttpIsHarmless DEF IInv
<1>2. CASE Work
  <2>1. UNCHANGED sub
    BY <1>2 DEF Work, httpVars
  <2>2. CASE TakeStep
    <3>1. HandlersAdvance /\ UNCHANGED <<jobs, lock, oldJobs, note>>
      BY <2>1, <2>2 DEF TakeStep, WorkerTake, HandlersAdvance, storeVars, hookVars
    <3> QED BY <1>0, <3>1, NoteStep DEF IInv
  <2> QED BY <1>0, <1>2, <2>1, <2>2, PoolIsHarmless, NotifyIsHarmless
          DEF Work, PoolStep, NotifyStep, IInv
<1>3. CASE MaintStep /\ UNCHANGED <<httpVars, envVars>>
  BY <1>0, <1>3, MaintainIsHarmless, NotifyIsHarmless, ThreadNames
     DEF MaintStep, NotifyStep, httpVars, IInv
<1>4. CASE Faults
  BY <1>0, <1>4, FaultsAreHarmless DEF IInv
<1>5. CASE Crash
  BY <1>0, <1>5, CrashStep DEF IInv
<1>6. ASSUME NEW j \in Jobs, ExpireJob(j)
      PROVE  IInv'
  BY <1>0, <1>6, ExpireStep DEF IInv
<1>7. CASE \/ Tick \/ Restart \/ StartServing \/ UNCHANGED vars
           \/ \E j \in Jobs : ExpireReport(j)
  <2>1. HandlersAdvance /\ UNCHANGED <<jobs, lock, oldJobs, note>>
    BY <1>7 DEF Tick, Restart, StartServing, ExpireReport, HandlersAdvance, vars,
       storeVars, hookVars, httpVars
  <2> QED BY <1>0, <2>1, NoteStep DEF IInv
<1> QED BY <1>1, <1>2, <1>3, <1>4, <1>5, <1>6, <1>7 DEF Next

\* The stale copies that threads hold and write back stay harmless, in every
\* execution, with live maintenance, crashes, faults and expiry.
THEOREM Inductive == Spec => []IInv
BY InvariantInit, InvariantStep, PTL DEF Spec

\* The copies of records that threads hold between a read and a write stay
\* harmless: _notify_terminal_job, cleanup_stale_jobs and try_complete may
\* write them back at any time.
THEOREM CopiesStayHarmless == Spec => []CopiesAreHarmless
<1>1. IInv => CopiesAreHarmless
  BY DEF IInv
<1> QED BY <1>1, Inductive, PTL

\* One idempotency key never names two stored jobs (create_or_reuse), even
\* when a purged record is written back by a commit.
THEOREM OneJobPerKey == Spec => []KeyBindsOneJob
<1>1. IInv => KeyBindsOneJob
  BY DEF IInv, CopiesAreHarmless
<1> QED BY <1>1, Inductive, PTL

-----------------------------------------------------------------------------
(* No step makes a terminal record active again. *)

\* What one step may do to a record that is terminal.
StaysEnded(j) == Terminal(j) => ~Active(j)'

LEMMA SameRecord ==
  ASSUME NEW j \in Jobs, jobs'[j] = jobs[j]
  PROVE  StaysEnded(j)
BY DEF StaysEnded, Terminal, Active

LEMMA WrittenRecord ==
  ASSUME TypeOK, NEW i \in Jobs, NEW j \in Jobs, NEW rec,
         jobs' = [jobs EXCEPT ![i] = rec],
         \/ rec.status \in {"complete", "failed", "cancelled"}
         \/ ~Terminal(i)
  PROVE  StaysEnded(j)
BY DEF StaysEnded, Terminal, Active, TypeOK, StoreTypeOK

LEMMA FailedRecord ==
  ASSUME IInv, NEW i \in Jobs, NEW j \in Jobs, NEW stage \in Stages,
         Fail(i, stage)
  PROVE  StaysEnded(j)
BY FailedKeeps, WrittenRecord DEF Fail, WriteJob, Put, IInv, CopiesAreHarmless

LEMMA CopiedRecord ==
  ASSUME IInv, NEW t \in Threads, NEW j \in Jobs,
         note[t].pc \in {"put", "write"}, WriteJob(note[t].job, note[t].snap)
  PROVE  StaysEnded(j)
<1>1. note[t].job \in Jobs
  BY BusyNote DEF Quiet, IInv, TypeOK, HookTypeOK
<1>2. note[t].snap.status \in {"complete", "failed", "cancelled"}
  BY DEF IInv, CopiesAreHarmless, CopiesAreTerminal
<1> QED BY <1>1, <1>2, WrittenRecord DEF WriteJob, Put, IInv

LEMMA EndedStep ==
  ASSUME IInv, [Next]_vars, NEW j \in Jobs
  PROVE  StaysEnded(j)
<1>1. CASE Http
  <2>1. ASSUME NEW i \in Jobs, NEW k \in Keys \cup {NoKey}, NEW r \in Requests,
               PostCreate(i, k, r)
        PROVE  StaysEnded(j)
    <3>1. ~Terminal(i)
      BY <2>1 DEF PostCreate, IInv, CopiesAreHarmless, FreshIds, Exists, Terminal
    <3> QED BY <2>1, <3>1, WrittenRecord DEF PostCreate, Create, WriteJob, Put, IInv
  <2>2. ASSUME NEW i \in Jobs, PostReject(i)
        PROVE  StaysEnded(j)
    <3> DEFINE rec == FailedAs(NewRecord(jobs[i].key, jobs[i].req), "rejected")
    <3>1. rec.status = "failed"
      BY DEF FailedAs, NewRecord, Absent
    <3>2. jobs' = [jobs EXCEPT ![i] = rec]
      BY <2>2 DEF PostReject, WriteJob, Put
    <3> HIDE DEF rec
    <3> QED BY <3>1, <3>2, WrittenRecord DEF IInv
  <2>3. ASSUME NEW i \in Jobs, DeleteJob(i)
        PROVE  StaysEnded(j)
    BY <2>3, WrittenRecord DEF DeleteJob, Cancel, Active, Terminal, WriteJob, Put, IInv
  <2>4. ASSUME UNCHANGED jobs
        PROVE  StaysEnded(j)
    BY <2>4, SameRecord
  <2> QED BY <1>1, <2>1, <2>2, <2>3, <2>4 DEF Http, PostReplay, PostSubmit,
             PostQueueFull, storeVars
<1>2. ASSUME NEW i \in Jobs, Pool(i)
      PROVE  StaysEnded(j)
  <2>1. CASE RunnerClaim(i)
    BY <2>1, WrittenRecord DEF RunnerClaim, Claim, Terminal, WriteJob, Put, IInv
  <2>2. CASE RunnerPublish(i)
    <3> DEFINE rec == [lock.rec EXCEPT !.status = "complete", !.stage = "complete",
                                       !.ref = TRUE]
    <3>1. rec.status = "complete"
      BY DEF IInv, TypeOK, StoreTypeOK, JobRecord
    <3>2. jobs' = [jobs EXCEPT ![i] = rec]
      BY <2>2 DEF RunnerPublish, CloseCommit, Put
    <3> HIDE DEF rec
    <3> QED BY <3>1, <3>2, WrittenRecord DEF IInv
  <2>3. CASE RunnerFail(i) \/ WatcherTimeout(i)
    BY <2>3, FailedRecord DEF RunnerFail, WatcherTimeout, Stages
  <2>4. ASSUME UNCHANGED jobs
        PROVE  StaysEnded(j)
    BY <2>4, SameRecord
  <2> QED BY <1>2, <2>1, <2>2, <2>3, <2>4 DEF Pool, RunnerDeclined, RunnerCommit,
             OpenCommit, RunnerLate, RunnerFailLate, WatcherRelease, storeVars
<1>3. ASSUME NEW t \in Threads, Notify(t)
      PROVE  StaysEnded(j)
  BY <1>3, CopiedRecord, SameRecord DEF Notify, NotifySkip, NotifyRead,
     NotifySend, NotifyWrite, storeVars
<1>4. CASE Maintain
  <2>1. CASE PurgeJobs
    BY <2>1 DEF PurgeJobs, StaysEnded, Terminal, Active, Absent
  <2>2. CASE MarkWrite
    BY <2>2, CopiedRecord, ThreadNames DEF MarkWrite
  <2>3. ASSUME UNCHANGED jobs
        PROVE  StaysEnded(j)
    BY <2>3, SameRecord
  <2> QED BY <1>4, <2>1, <2>2, <2>3 DEF Maintain, PurgeReports, MarkRead, MarkDone,
             RetrySkip, RetryNotify, RetryDone, storeVars
<1>5. ASSUME UNCHANGED jobs
      PROVE  StaysEnded(j)
  BY <1>5, SameRecord
<1>6. CASE Work
  BY <1>2, <1>3, <1>5, <1>6 DEF Work, TakeStep, WorkerTake, PoolStep, NotifyStep,
     storeVars
<1>7. CASE MaintStep
  BY <1>3, <1>4, <1>7, ThreadNames DEF MaintStep, NotifyStep
<1>8. CASE Faults
  <2>1. UNCHANGED jobs
    BY <1>8 DEF Faults, ClaimRaises, CommitRaises, AbortCommit, FailRaises,
       WatchRaises, RejectRaises, NotifyRaises, storeVars
  <2> QED BY <1>5, <2>1
<1> QED BY <1>1, <1>5, <1>6, <1>7, <1>8 DEF Next, Tick, ExpireReport, ExpireJob,
           Crash, Restart, StartServing, vars, storeVars

\* A job that ended is never queued or running again, whichever stale copy of
\* its record a notifier, a rejection, a commit or the maintenance pass
\* writes back.
THEOREM EndedForGood == Spec => NeverReactivated
<1>1. IInv /\ [Next]_vars => \A j \in Jobs : StaysEnded(j)
  BY EndedStep
<1>2. IInv /\ [Next]_vars => [\A j \in Jobs : Terminal(j) => ~Active(j)']_vars
  BY <1>1 DEF StaysEnded
<1> QED BY <1>2, Inductive, PTL DEF Spec, NeverReactivated
=============================================================================
