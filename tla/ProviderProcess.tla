--------------------------- MODULE ProviderProcess ---------------------------
(***************************************************************************)
(* run_bounded_process: a provider (Semgrep, YARA, the analysis workers)   *)
(* runs in a session of its own and the caller reads its two pipes under a *)
(* deadline and an output limit.  The provider may fork a descendant that  *)
(* stays in its session and inherits the pipes, and either of them may hang,*)
(* exit, close its output or flood a pipe.  A call is named by the scan    *)
(* that makes it.                                                          *)
(***************************************************************************)
EXTENDS Naturals, FiniteSets

CONSTANTS
    Calls,
    Streams,      \* the two pipes, stdout and stderr
    OutputLimit   \* PROVIDER_OUTPUT_LIMIT_BYTES, in chunks

ASSUME ProviderAssumption == OutputLimit \in Nat

VARIABLES
    leader,   \* the process Popen started
    child,    \* the descendant it may have forked
    signal,   \* the processes of the session with a SIGKILL pending
    quiet,    \* the live processes that closed their ends of the pipes
    pipe,     \* the pipes that hold a chunk nobody has read
    call,     \* the caller: pc, registered streams, ready batch, buffers
    late,     \* whether the deadline of the call has passed
    cut,      \* history: some output was dropped or left unread
    outcome   \* what the call gave its caller

processVars == <<leader, child, signal, quiet>>
callVars == <<pipe, call, late, cut, outcome>>
providerVars == <<processVars, callVars>>

Procs == {"leader", "child"}

Idle == [pc |-> "idle", open |-> {}, batch |-> {},
         buf |-> [s \in Streams |-> 0], limited |-> FALSE, expired |-> FALSE]

ProviderInit ==
    /\ leader = [c \in Calls |-> "none"]
    /\ child = [c \in Calls |-> "none"]
    /\ signal = [c \in Calls |-> {}]
    /\ quiet = [c \in Calls |-> {}]
    /\ pipe = [c \in Calls |-> {}]
    /\ call = [c \in Calls |-> Idle]
    /\ late = [c \in Calls |-> FALSE]
    /\ cut = [c \in Calls |-> FALSE]
    /\ outcome = [c \in Calls |-> "none"]

-----------------------------------------------------------------------------
(* The processes of the session.  A signalled process runs no more. *)

Alive(c) ==
    {p \in Procs : (IF p = "leader" THEN leader[c] ELSE child[c]) = "running"}
Runs(c) == Alive(c) \ signal[c]

\* The processes that keep the write ends of the pipes open.
Writers(c) == Alive(c) \ quiet[c]

\* A caller that is gone, or that closed its ends, breaks the pipes.
Reading(c) == call[c].pc \in {"poll", "read"}

Write(c, p, s) ==
    /\ p \in Runs(c) \ quiet[c]
    /\ Reading(c)
    /\ s \notin pipe[c]
    /\ pipe' = [pipe EXCEPT ![c] = @ \cup {s}]
    /\ UNCHANGED <<processVars, call, late, cut, outcome>>

CloseOutput(c, p) ==
    /\ p \in Runs(c) \ quiet[c]
    /\ quiet' = [quiet EXCEPT ![c] = @ \cup {p}]
    /\ UNCHANGED <<leader, child, signal, callVars>>

Fork(c) ==
    /\ "leader" \in Runs(c)
    /\ child[c] = "none"
    /\ child' = [child EXCEPT ![c] = "running"]
    /\ quiet' = [quiet EXCEPT ![c] =
                   IF "leader" \in @ THEN @ \cup {"child"} ELSE @]
    /\ UNCHANGED <<leader, signal, callVars>>

LeaderExit(c) ==
    /\ "leader" \in Runs(c)
    /\ \E code \in {"ok", "error"} : leader' = [leader EXCEPT ![c] = code]
    /\ quiet' = [quiet EXCEPT ![c] = @ \ {"leader"}]
    /\ UNCHANGED <<child, signal, callVars>>

ChildExit(c) ==
    /\ "child" \in Runs(c)
    /\ child' = [child EXCEPT ![c] = "gone"]
    /\ quiet' = [quiet EXCEPT ![c] = @ \ {"child"}]
    /\ UNCHANGED <<leader, signal, callVars>>

\* SIGKILL takes effect, which may take a while.
Die(c, p) ==
    /\ p \in Alive(c) \cap signal[c]
    /\ IF p = "leader"
       THEN leader' = [leader EXCEPT ![c] = "killed"] /\ UNCHANGED child
       ELSE child' = [child EXCEPT ![c] = "gone"] /\ UNCHANGED leader
    /\ signal' = [signal EXCEPT ![c] = @ \ {p}]
    /\ quiet' = [quiet EXCEPT ![c] = @ \ {p}]
    /\ UNCHANGED callVars

ProcessStep(c) ==
    \/ \E p \in Procs, s \in Streams : Write(c, p, s)
    \/ \E p \in Procs : CloseOutput(c, p) \/ Die(c, p)
    \/ Fork(c) \/ LeaderExit(c) \/ ChildExit(c)

-----------------------------------------------------------------------------
(* The caller. *)

To(c, pc) == [call[c] EXCEPT !.pc = pc]

\* Mutant: the process is killed and its group is not.
TerminateMutant(c) ==
    signal' = [signal EXCEPT ![c] =
                 IF leader[c] # "running" THEN @ ELSE @ \cup {"leader"}]

\* _terminate_process_tree: nothing once the leader has exited.
Terminate(c) ==
    signal' = [signal EXCEPT ![c] =
                 IF leader[c] # "running" THEN @ ELSE @ \cup Alive(c)]

StartCall(c) ==
    /\ call[c].pc = "idle"
    /\ leader' = [leader EXCEPT ![c] = "running"]
    /\ call' = [call EXCEPT ![c] = [Idle EXCEPT !.pc = "poll", !.open = Streams]]
    /\ UNCHANGED <<child, signal, quiet, pipe, late, cut, outcome>>

\* A stream is ready when it holds a chunk or has no writer left.
Ready(c) == {s \in call[c].open : s \in pipe[c] \/ Writers(c) = {}}

Poll(c) ==
    /\ call[c].pc = "poll"
    /\ call[c].open # {}
    /\ ~late[c]
    /\ Ready(c) # {}
    /\ call' = [call EXCEPT ![c] = [@ EXCEPT !.pc = "read", !.batch = Ready(c)]]
    /\ UNCHANGED <<processVars, pipe, late, cut, outcome>>

DeadlinePasses(c) ==
    /\ Reading(c)
    /\ ~late[c]
    /\ late' = [late EXCEPT ![c] = TRUE]
    /\ UNCHANGED <<processVars, pipe, call, cut, outcome>>

\* Mutant: a call with output pending is given more time.
ExpireMutant(c) ==
    /\ call[c].pc = "poll"
    /\ late[c]
    /\ pipe[c] # {}
    /\ Terminate(c)
    /\ call' = [call EXCEPT ![c] = [To(c, "wait") EXCEPT !.expired = TRUE]]
    /\ UNCHANGED <<leader, child, quiet, pipe, late, cut, outcome>>

\* The deadline has passed at the top of the loop or inside select.
Expire(c) ==
    /\ call[c].pc = "poll"
    /\ call[c].open # {}
    /\ late[c]
    /\ Terminate(c)
    /\ call' = [call EXCEPT ![c] = [To(c, "wait") EXCEPT !.expired = TRUE]]
    /\ UNCHANGED <<leader, child, quiet, pipe, late, cut, outcome>>

ReadChunk(c, s) ==
    /\ call[c].pc = "read"
    /\ s \in call[c].batch \cap pipe[c]
    /\ call[c].buf[s] < OutputLimit
    /\ pipe' = [pipe EXCEPT ![c] = @ \ {s}]
    /\ call' = [call EXCEPT ![c] =
                  [call[c] EXCEPT !.buf[s] = @ + 1, !.batch = @ \ {s}]]
    /\ UNCHANGED <<processVars, late, cut, outcome>>

\* One chunk too many: the rest of the batch is not read.
ReadOverLimit(c, s) ==
    /\ call[c].pc = "read"
    /\ s \in call[c].batch \cap pipe[c]
    /\ call[c].buf[s] >= OutputLimit
    /\ cut' = [cut EXCEPT ![c] = TRUE]
    /\ Terminate(c)
    /\ call' = [call EXCEPT ![c] = [To(c, "wait") EXCEPT !.limited = TRUE]]
    /\ UNCHANGED <<leader, child, quiet, pipe, late, outcome>>

ReadEnd(c, s) ==
    /\ call[c].pc = "read"
    /\ s \in call[c].batch \ pipe[c]
    /\ call' = [call EXCEPT ![c] =
                  [call[c] EXCEPT !.open = @ \ {s}, !.batch = @ \ {s}]]
    /\ UNCHANGED <<processVars, pipe, late, cut, outcome>>

\* The batch is read; the loop ends when no stream is registered.
NextRound(c) ==
    /\ call[c].pc = "read"
    /\ call[c].batch = {}
    /\ call' = [call EXCEPT ![c] =
                  To(c, IF call[c].open = {} THEN "wait" ELSE "poll")]
    /\ UNCHANGED <<processVars, pipe, late, cut, outcome>>

\* Mutant: the status of the process decides, truncated or not.
VerdictMutant(c) ==
    IF call[c].expired THEN "timeout"
    ELSE IF leader[c] = "ok" THEN "success" ELSE "failure"

\* TimeoutExpired, or the return code: -9 for truncated output, and no code
\* at all (which is not 0) for a process that could not be reaped.
Verdict(c) ==
    IF call[c].expired THEN "timeout"
    ELSE IF leader[c] = "ok" /\ ~call[c].limited THEN "success"
    ELSE "failure"

\* The pipes are closed and the result is handed out; buffers are forgotten.
Return(c) ==
    /\ outcome' = [outcome EXCEPT ![c] = Verdict(c)]
    /\ cut' = [cut EXCEPT ![c] = @ \/ pipe[c] # {}]
    /\ call' = [call EXCEPT ![c] = [Idle EXCEPT !.pc = "done"]]
    /\ pipe' = [pipe EXCEPT ![c] = {}]
    /\ late' = [late EXCEPT ![c] = FALSE]

WaitReaps(c) ==
    /\ call[c].pc \in {"wait", "lastwait"}
    /\ leader[c] # "running"
    /\ Return(c)
    /\ UNCHANGED processVars

\* process.wait(timeout=1) gives up on a process that is still there.
WaitExpires(c) ==
    /\ call[c].pc = "wait"
    /\ leader[c] = "running"
    /\ Terminate(c)
    /\ call' = [call EXCEPT ![c] = To(c, "lastwait")]
    /\ UNCHANGED <<leader, child, quiet, pipe, late, cut, outcome>>

LastWaitExpires(c) ==
    /\ call[c].pc = "lastwait"
    /\ leader[c] = "running"
    /\ Return(c)
    /\ UNCHANGED processVars

\* The reader's own steps, and what the clock does to it.
CallStep(c) ==
    \/ Poll(c) \/ Expire(c) \/ NextRound(c)
    \/ \E s \in Streams : ReadChunk(c, s) \/ ReadOverLimit(c, s) \/ ReadEnd(c, s)
    \/ WaitReaps(c) \/ WaitExpires(c) \/ LastWaitExpires(c)

\* The process that makes the call is killed: its pipe ends close.
Abandon(c) ==
    IF call[c].pc \in {"idle", "done"} THEN UNCHANGED <<callVars, processVars>>
    ELSE /\ call' = [call EXCEPT ![c] = [Idle EXCEPT !.pc = "orphan"]]
         /\ pipe' = [pipe EXCEPT ![c] = {}]
         /\ late' = [late EXCEPT ![c] = FALSE]
         /\ UNCHANGED <<processVars, cut, outcome>>

-----------------------------------------------------------------------------
\* A provider that counts as successful exited with 0 by itself and every byte
\* it wrote was read ("A truncated provider payload is never a successful
\* analysis"), whatever a descendant, the deadline or the limit did meanwhile.
SuccessIsComplete ==
    \A c \in Calls : outcome[c] = "success" => leader[c] = "ok" /\ ~cut[c]

\* When the call had to kill the provider, nothing of its session runs on.
KilledTreeIsGone ==
    \A c \in Calls :
      call[c].pc = "done" /\ (leader[c] = "killed" \/ "leader" \in signal[c])
        => Runs(c) = {}
=============================================================================
