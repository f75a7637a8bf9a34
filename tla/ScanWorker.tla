----------------------------- MODULE ScanWorker -----------------------------
(***************************************************************************)
(* One worker of the Deep Scan fleet (run_scan_worker.py): it claims jobs  *)
(* from the control plane, runs one scanner process per job under a job    *)
(* timeout, and posts a signed verdict, over a network that loses answers. *)
(* Other workers claim from the same queue.  The control plane is not part *)
(* of the repository: it hands out a job once and keeps what it is told.   *)
(* A run for one exact job is a worker with MaxJobs = 1.  Of the provider  *)
(* calls a scan makes one after the other, one stands for all.             *)
(***************************************************************************)
EXTENDS ProviderProcess

CONSTANTS
    NoJob,
    Callers,           \* bound: the scans that make a provider call
    MaxJobs,           \* SCAN_JOBS_PER_WORKER
    ErrorRetries,      \* SCAN_CLAIM_ERROR_RETRIES
    CallbackAttempts   \* CALLBACK_ATTEMPTS

Jobs == Calls

ASSUME WorkerAssumption ==
    /\ NoJob \notin Jobs
    /\ Callers \subseteq Jobs
    /\ MaxJobs \in Nat \ {0}
    /\ ErrorRetries \in Nat
    /\ CallbackAttempts \in Nat \ {0}

VARIABLES
    board,     \* control plane: where each job is
    verdicts,  \* control plane: the verdicts it recorded about each job
    worker,    \* pc, job, jobs taken, claim errors, posts, callback failure
    mine,      \* the jobs whose claim the worker received
    scanner,   \* the scanner process of each job
    bundle     \* the file the scanner wrote for each job

planeVars  == <<board, verdicts>>
workerVars == <<worker, mine>>
scanVars   == <<scanner, bundle>>
vars == <<providerVars, planeVars, workerVars, scanVars>>

Init ==
    /\ ProviderInit
    /\ board = [j \in Jobs |-> "queued"]
    /\ verdicts = [j \in Jobs |-> {}]
    /\ worker = [pc |-> "claim", job |-> NoJob, taken |-> 0, errors |-> 0,
                 posts |-> 0, result |-> "none", failed |-> FALSE]
    /\ mine = {}
    /\ scanner = [j \in Jobs |-> "none"]
    /\ bundle = [j \in Jobs |-> "none"]

-----------------------------------------------------------------------------
(* The other workers. *)

OtherWorkerClaims(j) ==
    /\ board[j] = "queued"
    /\ board' = [board EXCEPT ![j] = "elsewhere"]
    /\ UNCHANGED <<verdicts, workerVars, scanVars, providerVars>>

-----------------------------------------------------------------------------
(* claim_with_retries *)

Crash == worker' = [worker EXCEPT !.pc = "crashed"]

ClaimJob(j) ==
    /\ worker.pc = "claim"
    /\ board[j] = "queued"
    /\ board' = [board EXCEPT ![j] = "claimed"]
    /\ worker' = [worker EXCEPT !.pc = "scan", !.job = j, !.errors = 0]
    /\ mine' = mine \cup {j}
    /\ UNCHANGED <<verdicts, scanVars, providerVars>>

\* The queue stays empty for all SCAN_EMPTY_CLAIM_RETRIES: the worker ends.
ClaimNothing ==
    /\ worker.pc = "claim"
    /\ \A j \in Jobs : board[j] # "queued"
    /\ worker' = [worker EXCEPT !.pc = "over"]
    /\ UNCHANGED <<mine, planeVars, scanVars, providerVars>>

\* The request fails, before or after the control plane acted on it.
ClaimLost ==
    \/ UNCHANGED board
    \/ \E j \in Jobs : /\ board[j] = "queued"
                       /\ board' = [board EXCEPT ![j] = "claimed"]

\* HTTP 500, 502, 503, 504: retried within the budget.
ClaimRetry ==
    /\ worker.pc = "claim"
    /\ worker.errors < ErrorRetries
    /\ ClaimLost
    /\ worker' = [worker EXCEPT !.errors = @ + 1]
    /\ UNCHANGED <<mine, verdicts, scanVars, providerVars>>

\* Another status, a transport error, or no budget left: main() raises.
ClaimRaises ==
    /\ worker.pc = "claim"
    /\ ClaimLost
    /\ Crash
    /\ UNCHANGED <<mine, verdicts, scanVars, providerVars>>

-----------------------------------------------------------------------------
(* run_scan *)

ToPost(result) == [worker EXCEPT !.pc = "post", !.result = result]

\* Mutant: the identity of the bundle is not compared with the job.
ScanResultMutant(code, file) ==
    IF code = "exit0" /\ file # "none" THEN "bundle" ELSE "error"

\* run_scan: exit code 0 and a bundle of exactly this job.
ScanResult(code, file) ==
    IF code = "exit0" /\ file = "exact" THEN "bundle" ELSE "error"

StartScan(j) ==
    /\ worker.pc = "scan"
    /\ worker.job = j
    /\ scanner[j] = "none"
    /\ scanner' = [scanner EXCEPT ![j] = "running"]
    /\ UNCHANGED <<bundle, planeVars, workerVars, providerVars>>

\* The claim names no valid platform or the launch fails: report_failure.
ScanRaises(j) ==
    /\ worker.pc = "scan"
    /\ worker.job = j
    /\ scanner[j] = "none"
    /\ worker' = ToPost("error")
    /\ UNCHANGED <<mine, planeVars, scanVars, providerVars>>

ScannerCalls(j) ==
    /\ j \in Callers
    /\ scanner[j] = "running"
    /\ StartCall(j)
    /\ UNCHANGED <<planeVars, workerVars, scanVars>>

\* The scanner ends by itself, with any exit code and any bundle.
ScannerExits(j) ==
    /\ scanner[j] = "running"
    /\ call[j].pc \in {"idle", "done"}
    /\ \E code \in {"exit0", "exit1"}, b \in {"none", "other", "exact"} :
         /\ scanner' = [scanner EXCEPT ![j] = code]
         /\ bundle' = [bundle EXCEPT ![j] = b]
    /\ UNCHANGED <<planeVars, workerVars, providerVars>>

\* The scanner is killed by something else, in the middle of a call or not.
ScannerDies(j) ==
    /\ scanner[j] = "running"
    /\ scanner' = [scanner EXCEPT ![j] = "exit1"]
    /\ Abandon(j)
    /\ UNCHANGED <<bundle, planeVars, workerVars>>

ScanReturns(j) ==
    /\ worker.pc = "scan"
    /\ worker.job = j
    /\ scanner[j] \in {"exit0", "exit1"}
    /\ worker' = ToPost(ScanResult(scanner[j], bundle[j]))
    /\ UNCHANGED <<mine, planeVars, scanVars, providerVars>>

\* process.wait(timeout) elapsed: SIGKILL to the scanner's process group.
\* Providers have sessions of their own, so the signal stops at the scanner.
ScanTimesOut(j) ==
    /\ worker.pc = "scan"
    /\ worker.job = j
    /\ scanner[j] = "running"
    /\ scanner' = [scanner EXCEPT ![j] = "killed"]
    /\ Abandon(j)
    /\ worker' = ToPost("error")
    /\ UNCHANGED <<bundle, mine, planeVars>>

-----------------------------------------------------------------------------
(* submit_result, report_failure and submit_callback *)

Record(j) == verdicts' = [verdicts EXCEPT ![j] = @ \cup {worker.result}]

\* Mutant: a failed callback is forgotten when the next job is done.
NextJobMutant(failed) ==
    [worker EXCEPT !.pc = IF worker.taken + 1 = MaxJobs THEN "over" ELSE "claim",
                   !.job = NoJob, !.taken = @ + 1, !.posts = 0,
                   !.result = "none", !.failed = failed]

NextJob(failed) ==
    [worker EXCEPT !.pc = IF worker.taken + 1 = MaxJobs THEN "over" ELSE "claim",
                   !.job = NoJob, !.taken = @ + 1, !.posts = 0,
                   !.result = "none", !.failed = @ \/ failed]

PostAnswered(j) ==
    /\ worker.pc = "post"
    /\ worker.job = j
    /\ Record(j)
    /\ worker' = NextJob(FALSE)
    /\ UNCHANGED <<board, mine, scanVars, providerVars>>

\* The post fails, before or after the verdict was recorded.
PostLost(j) ==
    /\ worker.pc = "post"
    /\ worker.job = j
    /\ Record(j) \/ UNCHANGED verdicts

\* Mutant: the delays are used in turn, without an end.
PostRetryEndlessMutant(j) ==
    /\ PostLost(j)
    /\ worker' = [worker EXCEPT !.posts = (@ + 1) % CallbackAttempts]
    /\ UNCHANGED <<board, mine, scanVars, providerVars>>

PostRetry(j) ==
    /\ PostLost(j)
    /\ worker.posts + 1 < CallbackAttempts
    /\ worker' = [worker EXCEPT !.posts = @ + 1]
    /\ UNCHANGED <<board, mine, scanVars, providerVars>>

\* A status that is not retried, or the last attempt.
PostGivesUp(j) ==
    /\ PostLost(j)
    /\ worker' = NextJob(TRUE)
    /\ UNCHANGED <<board, mine, scanVars, providerVars>>

-----------------------------------------------------------------------------
\* What the worker does, its job timeout aside.
WorkerStep ==
    \/ ClaimNothing \/ ClaimRetry \/ ClaimRaises
    \/ \E j \in Jobs :
         \/ ClaimJob(j) \/ StartScan(j) \/ ScanRaises(j) \/ ScanReturns(j)
         \/ PostAnswered(j) \/ PostRetry(j) \/ PostGivesUp(j)

ReaderStep(j) == CallStep(j) /\ UNCHANGED <<planeVars, workerVars, scanVars>>
Deadline(j)   == DeadlinePasses(j) /\ UNCHANGED <<planeVars, workerVars, scanVars>>

Next ==
    \/ WorkerStep
    \/ \E j \in Jobs :
         \/ OtherWorkerClaims(j)
         \/ ScannerCalls(j) \/ ScannerExits(j) \/ ScannerDies(j)
         \/ ScanTimesOut(j)
         \/ ReaderStep(j) \/ Deadline(j)
         \/ ProcessStep(j) /\ UNCHANGED <<planeVars, workerVars, scanVars>>

Spec == Init /\ [][Next]_vars

(***************************************************************************)
(* Fairness: the worker and the reader of a call are running processes and *)
(* time passes; a post, a claim and a wait have timeouts of their own.     *)
(* Nothing is assumed of a scanner, a provider or its descendant, not even *)
(* that a killed process goes away.                                        *)
(***************************************************************************)
Fairness ==
    /\ WF_vars(WorkerStep)
    /\ \A j \in Jobs : WF_vars(ReaderStep(j)) /\ WF_vars(Deadline(j))

FairSpec == Spec /\ Fairness

-----------------------------------------------------------------------------
\* A scan whose report may be published, and the verdict it deserves.
Publishable(j) == scanner[j] = "exit0" /\ bundle[j] = "exact"
Deserved(j) == IF Publishable(j) THEN "bundle" ELSE "error"

\* The control plane is told "bundle" only about a scan that ended by itself,
\* in time, with exit code 0 and a bundle of exactly that job, and "error"
\* only about one that did not: never both, in spite of lost answers and
\* repeated posts (main, submit_result).
VerdictMatchesScan ==
    \A j \in Jobs : verdicts[j] \subseteq {Deserved(j)}

\* Exit code 0 of the worker means that every job it received has its verdict
\* in the control plane ("failures were recorded in the control plane").
ExitZeroIsReported ==
    worker.pc = "over" /\ ~worker.failed =>
      \A j \in mine : verdicts[j] = {Deserved(j)}

\* A provider call returns to a scanner that lives, however the provider
\* behaves: by end of file, by the output limit or by its deadline.
CallReturns ==
    \A j \in Jobs :
      call[j].pc = "poll" ~> call[j].pc = "done" \/ scanner[j] # "running"

\* The worker ends although scanners hang and the network fails, because it
\* counts its claim errors and posts and times its scans out.
WorkerEnds ==
    (\A j \in Jobs : WF_vars(ScanTimesOut(j)))
      => <>(worker.pc \in {"over", "crashed"})
=============================================================================
