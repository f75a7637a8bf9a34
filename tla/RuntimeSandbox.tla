--------------------------- MODULE RuntimeSandbox ---------------------------
(***************************************************************************)
(* One call of run_sandbox and the receipt that the pipeline makes of it:  *)
(* the lifecycle scripts of an artifact, then its entrypoint, each in a    *)
(* namespace of its own, under a deadline and with captured output.        *)
(***************************************************************************)
EXTENDS RuntimeHost

CONSTANTS
    Cases,    \* what may be scanned on which worker
    MaxLines  \* MAX_RUNTIME_OUTPUT_BYTES, in lines

ASSUME SandboxAssumption ==
    /\ MaxLines \in Nat \ {0}
    /\ \A c \in Cases :
         /\ c[1] \in [archive : {"whole", "refused"}, entry : BOOLEAN,
                     sidecar : {"none", "verified", "missing"},
                     scripts : Seq([named : BOOLEAN, boots : 0..2])]
         /\ c[2] \in [bwrap : BOOLEAN, strace : BOOLEAN, traced : BOOLEAN, sudo : BOOLEAN,
                     privileged : BOOLEAN, namespace : BOOLEAN]

VARIABLES
    package, env,
    run,     \* where run_sandbox is
    cap,     \* the capture of the running process
    obs,     \* the observations
    spoiled  \* what really went wrong in a phase, for the properties

vars == <<host, wire, trace, package, env, run, cap, obs, spoiled>>

Phases == {"lifecycle", "activation"}
NoCapture == [at |-> "none", lines |-> <<>>, limited |-> FALSE, late |-> FALSE]

Init ==
    /\ HostInit
    /\ \E c \in Cases : package = c[1] /\ env = c[2]
    /\ run = [at |-> "start", next |-> 1]
    /\ cap = NoCapture
    /\ obs = {}
    /\ spoiled = {}

(***************************************************************************)
(* The environment is asked for in three places.                           *)
(***************************************************************************)
SudoMissing == env.privileged /\ ~env.sudo

\* Mutant: the preflight does not ask for the tracer.
ReadyMutant == env.bwrap /\ ~SudoMissing /\ env.namespace

\* sandbox_preflight, which starts /bin/true in the same namespace.
Ready ==
    /\ env.bwrap
    /\ env.traced => env.strace
    /\ ~SudoMissing
    /\ env.namespace

\* Refusals of run_sandbox before anything is copied, and of _prepare_target.
Begin ==
    /\ run.at = "start"
    /\ run' = [run EXCEPT !.at =
                 IF ~env.bwrap \/ (env.traced /\ ~env.strace) THEN "refused"
                 ELSE IF package.archive = "refused" THEN "raised"
                 ELSE "idle"]
    /\ UNCHANGED <<hostVars, package, env, cap, obs, spoiled>>

(***************************************************************************)
(* _run_isolated starts the next script, then the entrypoint.              *)
(***************************************************************************)
Commands == package.scripts
PhaseNow == IF run.next <= Len(Commands) THEN "lifecycle" ELSE "activation"

Start ==
    /\ run.at = "idle"
    /\ run.next <= Len(Commands) \/ package.entry
    /\ ~SudoMissing
    /\ run' = [run EXCEPT !.at = "running"]
    /\ cap' = [NoCapture EXCEPT !.at = "reading"]
    /\ IF ~env.namespace
         THEN host' = [NoHost EXCEPT !.at = "exited", !.code = "error"]
                /\ wire' = NoWire /\ trace' = NoTrace
         ELSE IF PhaseNow = "lifecycle"
              THEN Launch("script", Commands[run.next].boots)
              ELSE Launch("runner", 1)
    /\ UNCHANGED <<package, env, obs, spoiled>>

StartRaises ==
    /\ run.at = "idle"
    /\ run.next <= Len(Commands) \/ package.entry
    /\ SudoMissing
    /\ run' = [run EXCEPT !.at = "raised"]
    /\ UNCHANGED <<hostVars, package, env, cap, obs, spoiled>>

(***************************************************************************)
(* _run_bounded_capture.  SIGKILL to a process of another user is refused: *)
(* under sudo the exception leaves run_sandbox, and the process goes on.   *)
(* Nothing is read of a process that was killed.                           *)
(***************************************************************************)
Reading == run.at = "running" /\ cap.at = "reading"

Killed == [NoHost EXCEPT !.at = host.at, !.code = "killed", !.did = host.did, !.torn = host.torn]

\* Mutant: the process is left to end by itself.
StopWithMutant(c, reason) ==
    /\ spoiled' = spoiled \cup {<<PhaseNow, reason>>}
    /\ cap' = c
    /\ UNCHANGED <<host, wire, run>>

StopWith(c, reason) ==
    /\ spoiled' = spoiled \cup {<<PhaseNow, reason>>}
    /\ IF env.privileged /\ Alive
         THEN /\ run' = [run EXCEPT !.at = "raised"]
              /\ UNCHANGED <<host, wire, cap>>
         ELSE /\ cap' = c
              /\ host' = IF Alive THEN Killed ELSE host
              /\ wire' = NoWire
              /\ UNCHANGED run

\* The deadline discards what was captured.
TooLate(at) == [NoCapture EXCEPT !.at = at, !.late = TRUE]

Read ==
    /\ Reading
    /\ wire.pipe # <<>>
    /\ IF Len(cap.lines) = MaxLines
         THEN StopWith([cap EXCEPT !.at = "waiting", !.limited = TRUE], "cut")
         ELSE /\ cap' = [cap EXCEPT !.lines = Append(@, Head(wire.pipe))]
              /\ wire' = [wire EXCEPT !.pipe = Tail(@)]
              /\ UNCHANGED <<host, run, spoiled>>
    /\ UNCHANGED <<trace, package, env, obs>>

\* Both pipes have ended; the process may still be there.
ReadEnd ==
    /\ Reading
    /\ wire.pipe = <<>>
    /\ wire.closed \/ ~Alive
    /\ cap' = [cap EXCEPT !.at = "waiting"]
    /\ UNCHANGED <<hostVars, package, env, run, obs, spoiled>>

\* Mutant: the deadline is looked at after a read.
DeadlineMutant ==
    /\ Reading
    /\ wire.pipe # <<>>
    /\ StopWith(TooLate("waiting"), "late")
    /\ UNCHANGED <<trace, package, env, obs>>

Deadline ==
    /\ Reading
    /\ StopWith(TooLate("waiting"), "late")
    /\ UNCHANGED <<trace, package, env, obs>>

\* A killed process leaves when the system gets to it.
Die ==
    /\ Alive /\ host.code = "killed"
    /\ Leave("killed")
    /\ UNCHANGED <<package, env, run, cap, obs, spoiled>>

\* process.wait(timeout=1); after another kill once more, and then an exception
\* that the caller takes for the deadline.
Waiting(at) == run.at = "running" /\ cap.at = at

Reap ==
    /\ Waiting("waiting") \/ Waiting("stopping")
    /\ ~Alive
    /\ cap' = [cap EXCEPT !.at = "ended"]
    /\ UNCHANGED <<hostVars, package, env, run, obs, spoiled>>

WaitEnds ==
    /\ Waiting("waiting") /\ Alive
    /\ StopWith([cap EXCEPT !.at = "stopping"], "stopped")
    /\ UNCHANGED <<trace, package, env, obs>>

GiveUp ==
    /\ Waiting("stopping") /\ Alive
    /\ cap' = TooLate("ended")
    /\ spoiled' = spoiled \cup {<<PhaseNow, "stuck">>}
    /\ UNCHANGED <<hostVars, package, env, run, obs>>

(***************************************************************************)
(* What is made of the captured output.                                    *)
(***************************************************************************)
Is(kind) == {i \in DOMAIN cap.lines : cap.lines[i].kind = kind}

\* Mutant: output that was cut is read like any other.
VerifiedMutant ==
    /\ Cardinality(Is("handshake")) <= 1
    /\ \A i \in Is("event") : \E j \in Is("handshake") :
         j < i /\ cap.lines[j].node = cap.lines[i].node

\* _verified_runtime_events: one handshake, before every event, and each event
\* authenticated with its secret; and the limit was not met.
Verified ==
    /\ ~cap.limited
    /\ Cardinality(Is("handshake")) <= 1
    /\ \A i \in Is("event") : \E j \in Is("handshake") :
         j < i /\ cap.lines[j].node = cap.lines[i].node

Events == IF Verified THEN {cap.lines[i].what : i \in Is("event")} ELSE {}

\* _external_trace_observations. The log is refused when it is larger than the
\* limit that the tracer itself inherits.
Logged(readable) == IF env.traced /\ readable THEN trace.seen ELSE {}

Failing(readable, named) ==
    (IF named /\ ~Verified THEN {"sandbox_error"} ELSE {})
      \cup (IF env.traced /\ ~readable THEN {"sandbox_error"} ELSE {})

Seen(phase, kinds) == {[phase |-> phase, kind |-> k] : k \in kinds}

\* A script is expected to speak through the hook when its text names node.
ScriptItems(readable) ==
    IF cap.late THEN {"runtime_timeout"}
    ELSE (Events \ {"started"}) \cup Logged(readable)
           \cup Failing(readable, Commands[run.next].named)
           \cup (IF host.code = "zero" THEN {"lifecycle_executed"}
                 ELSE {"runtime_lifecycle_error"})

\* Mutant: an entrypoint that fails is only reported as failed.
EntryItemsMutant(readable) ==
    IF cap.late THEN {"runtime_timeout"}
    ELSE Failing(readable, TRUE)
           \cup (IF host.code = "zero"
                    THEN (Events \ {"started"}) \cup Logged(readable) \cup {"entrypoint_executed"}
                  ELSE IF Events # {} \/ Logged(readable) # {} THEN {"runtime_entrypoint_error"}
                  ELSE {"sandbox_error"})

EntryItems(readable) ==
    IF cap.late THEN {"runtime_timeout"}
    ELSE (Events \ {"started"}) \cup Logged(readable) \cup Failing(readable, TRUE)
           \cup {IF host.code = "zero" THEN "entrypoint_executed"
                 ELSE IF Events # {} \/ Logged(readable) # {} THEN "runtime_entrypoint_error"
                 ELSE "sandbox_error"}

Collect(items) ==
    /\ obs' = obs \cup Seen(PhaseNow, items)
    /\ run' = [at |-> IF PhaseNow = "activation" THEN "returned" ELSE "idle",
               next |-> run.next + 1]
    /\ spoiled' = spoiled
         \cup (IF host.torn THEN {<<PhaseNow, "torn">>} ELSE {})
         \cup (IF host.code = "limit" THEN {<<PhaseNow, "limit">>} ELSE {})
    /\ cap' = NoCapture
    /\ wire' = NoWire
    /\ IF Alive THEN UNCHANGED <<host, trace>>
       ELSE IF PhaseNow = "lifecycle" THEN host' = NoHost /\ trace' = NoTrace
       ELSE host' = [NoHost EXCEPT !.did = host.did] /\ UNCHANGED trace
    /\ UNCHANGED <<package, env>>

Readable == IF env.traced THEN BOOLEAN ELSE {TRUE}

FinishScript ==
    /\ run.at = "running" /\ cap.at = "ended" /\ PhaseNow = "lifecycle"
    /\ \E readable \in Readable : Collect(ScriptItems(readable))

FinishEntry ==
    /\ run.at = "running" /\ cap.at = "ended" /\ PhaseNow = "activation"
    /\ \E readable \in Readable : Collect(EntryItems(readable))

NoEntry ==
    /\ run.at = "idle"
    /\ run.next > Len(Commands) /\ ~package.entry
    /\ obs' = obs \cup Seen("activation", {"entrypoint_not_applicable"})
    /\ run' = [run EXCEPT !.at = "returned"]
    /\ UNCHANGED <<hostVars, package, env, cap, spoiled>>

(***************************************************************************)
(* The receipt of a required run, and whether it covers the artifact.      *)
(***************************************************************************)
Kinds == {o.kind : o \in obs}
HardFailures == {"runtime_timeout", "sandbox_error"}

\* _runtime_execution_failure.
NotExecuted ==
    \/ package.sidecar = "missing"
    \/ ~package.entry /\ "lifecycle_executed" \notin Kinds

RunFailed == Kinds \cap (HardFailures \cup {"runtime_entrypoint_error"}) # {} \/ NotExecuted

\* What the pipeline adds to the observations it was given.
Items == Kinds \cup (IF NotExecuted THEN {"sandbox_error"} ELSE {})
ToleratedError == "runtime_entrypoint_error" \in Items /\ Items \cap HardFailures = {}
TraceOfRun == env.traced /\ env.strace /\ (~RunFailed \/ ToleratedError)

Covered ==
    /\ run.at = "returned"
    /\ TraceOfRun
    /\ Items \cap HardFailures = {}
    /\ ~RunFailed \/ ToleratedError

-----------------------------------------------------------------------------
HostStep ==
    /\ HostNext(env.traced)
    /\ UNCHANGED <<package, env, run, cap, obs, spoiled>>

Next ==
    \/ HostStep
    \/ Begin
    \/ Start
    \/ StartRaises
    \/ Read
    \/ ReadEnd
    \/ Deadline
    \/ Die
    \/ Reap
    \/ WaitEnds
    \/ GiveUp
    \/ FinishScript
    \/ FinishEntry
    \/ NoEntry

Spec == Init /\ [][Next]_vars

\* The scanner's own steps, and its clock.
Harness ==
    \/ Begin \/ Start \/ StartRaises \/ Read \/ ReadEnd \/ Reap \/ WaitEnds \/ GiveUp
    \/ FinishScript \/ FinishEntry \/ NoEntry

FairSpec == Spec /\ WF_vars(Harness) /\ WF_vars(Deadline)

-----------------------------------------------------------------------------
\* A run counts as coverage only when no phase met its deadline and the output
\* of the entrypoint was captured to its end; the capture keeps the exit code 0
\* of a process that ended before its output was cut.
CoveredRunIsWhole ==
    Covered =>
      /\ spoiled \cap (Phases \X {"late", "stuck"}) = {}
      /\ <<"activation", "cut">> \notin spoiled

\* What the hook and the tracer recorded of a covered activation is among its
\* observations, whatever its exit code, unless a record followed text without a
\* line end or went to a pipe that the artifact had closed.
CoveredRunTellsAll ==
    Covered /\ package.entry =>
      /\ <<"activation", "torn">> \in spoiled \/ host.did \subseteq Kinds
      /\ trace.seen \subseteq Kinds

\* A worker that the preflight found ready neither refuses a run nor fails to
\* start it: the three places agree on what they need.
ReadyWorkerRuns ==
    Ready =>
      /\ run.at # "refused"
      /\ run.at = "raised" => package.archive = "refused" \/ env.privileged

\* Between two phases and after the last one nothing of the artifact runs on,
\* unless the worker may not kill what it has started.
NothingRunsOn ==
    run.at \in {"idle", "returned", "raised"} /\ ~env.privileged =>
      ~Alive \/ host.code = "killed"

\* Whatever the artifact does, the call ends.
SandboxReturns == <>(run.at \in {"returned", "refused", "raised"})

=============================================================================
