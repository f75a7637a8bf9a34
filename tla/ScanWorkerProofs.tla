-------------------------- MODULE ScanWorkerProofs --------------------------
(***************************************************************************)
(* What the fleet worker tells the control plane is true, and what a       *)
(* provider call returns as success is complete, for any number of jobs,   *)
(* streams, attempts and retries.                                          *)
(***************************************************************************)
EXTENDS ScanWorker, TLAPS

-----------------------------------------------------------------------------
(* The inductive invariant *)

CallPCs == {"idle", "poll", "read", "wait", "lastwait", "done", "orphan"}
CallState ==
    [pc : CallPCs,
     open : SUBSET Streams, batch : SUBSET Streams,
     buf : [Streams -> Nat], limited : BOOLEAN, expired : BOOLEAN]

ProviderTypeOK ==
    /\ leader \in [Calls -> {"none", "running", "ok", "error", "killed"}]
    /\ child \in [Calls -> {"none", "running", "gone"}]
    /\ signal \in [Calls -> SUBSET Procs]
    /\ quiet \in [Calls -> SUBSET Procs]
    /\ pipe \in [Calls -> SUBSET Streams]
    /\ call \in [Calls -> CallState]
    /\ late \in [Calls -> BOOLEAN]
    /\ cut \in [Calls -> BOOLEAN]
    /\ outcome \in [Calls -> {"none", "success", "failure", "timeout"}]

\* Before the call nothing of a session exists.
IdleIsClean(c) ==
    call[c].pc = "idle" =>
      leader[c] = "none" /\ child[c] = "none" /\ signal[c] = {} /\ pipe[c] = {}

\* A stream is given up, or about to be, only when nobody can write to it.
EndIsSilent(c) ==
    Reading(c) =>
      /\ \A s \in Streams \ call[c].open : s \notin pipe[c] /\ Writers(c) = {}
      /\ call[c].pc = "read" =>
           \A s \in call[c].batch : s \in pipe[c] \/ Writers(c) = {}

\* As long as neither limit nor deadline is met, nothing is lost.
NothingCutYet(c) ==
    /\ call[c].pc \in {"idle", "poll", "read"} => ~cut[c] /\ ~call[c].limited /\ ~call[c].expired
    /\ call[c].pc \in {"wait", "lastwait"} /\ ~call[c].limited /\ ~call[c].expired =>
         ~cut[c] /\ pipe[c] = {}

\* Only a call that has returned has an outcome; success is of a whole output.
OutcomeIsEarned(c) ==
    /\ outcome[c] # "none" => call[c].pc = "done"
    /\ outcome[c] = "success" => leader[c] = "ok" /\ ~cut[c]

\* The leader is never signalled alone, and forks no more.
TreeIsSignalled(c) ==
    leader[c] = "killed" \/ "leader" \in signal[c] => Runs(c) = {}

CallInv(c) ==
    /\ IdleIsClean(c)
    /\ EndIsSilent(c)
    /\ NothingCutYet(c)
    /\ OutcomeIsEarned(c)
    /\ TreeIsSignalled(c)

ProviderInv == ProviderTypeOK /\ \A c \in Calls : CallInv(c)

WorkerState ==
    [pc : {"claim", "scan", "post", "over", "crashed"}, job : Jobs \cup {NoJob},
     taken : Nat, errors : Nat, posts : Nat,
     result : {"none", "bundle", "error"}, failed : BOOLEAN]

WorkerTypeOK ==
    /\ board \in [Jobs -> {"queued", "elsewhere", "claimed"}]
    /\ verdicts \in [Jobs -> SUBSET {"none", "bundle", "error"}]
    /\ worker \in WorkerState
    /\ mine \subseteq Jobs
    /\ scanner \in [Jobs -> {"none", "running", "exit0", "exit1", "killed"}]
    /\ bundle \in [Jobs -> {"none", "other", "exact"}]

\* The job in hand is one the worker received, and its scan has no verdict.
BusyWithAClaim ==
    /\ worker.pc \in {"scan", "post"} => worker.job \in mine
    /\ worker.pc = "scan" => verdicts[worker.job] = {}
    /\ worker.pc = "post" => scanner[worker.job] # "running"

\* A job that still waits has no trace; only the job in hand is scanned.
WaitingIsUntouched ==
    \A j \in Jobs :
      /\ board[j] = "queued" => verdicts[j] = {} /\ scanner[j] = "none" /\ j \notin mine
      /\ scanner[j] = "running" => worker.pc = "scan" /\ worker.job = j

\* What is told, or about to be told, of a job is what its scan deserves.
TellsTheTruth ==
    /\ VerdictMatchesScan
    /\ worker.pc = "post" => worker.result = Deserved(worker.job)

\* Without a failed callback only the job in hand lacks its verdict.
AllButTheLastTold ==
    ~worker.failed =>
      \A j \in mine : \/ verdicts[j] = {Deserved(j)}
                      \/ worker.pc \in {"scan", "post"} /\ worker.job = j

WorkerInv ==
    /\ WorkerTypeOK
    /\ BusyWithAClaim
    /\ WaitingIsUntouched
    /\ TellsTheTruth
    /\ AllButTheLastTold

-----------------------------------------------------------------------------
(* The session of a call and the call itself.  A step of one leaves the       *)
(* other calls alone.                                                         *)

Untouched(d) ==
    /\ leader'[d] = leader[d] /\ child'[d] = child[d]
    /\ signal'[d] = signal[d] /\ quiet'[d] = quiet[d]
    /\ pipe'[d] = pipe[d] /\ call'[d] = call[d] /\ late'[d] = late[d]
    /\ cut'[d] = cut[d] /\ outcome'[d] = outcome[d]

OnlyTouches(c) == \A d \in Calls \ {c} : Untouched(d)

LEMMA UntouchedKeeps ==
  ASSUME NEW d \in Calls, Untouched(d), CallInv(d)
  PROVE  CallInv(d)'
BY DEF Untouched, CallInv, IdleIsClean, EndIsSilent, NothingCutYet, OutcomeIsEarned,
   TreeIsSignalled, Reading, Writers, Runs, Alive

LEMMA WriteKeeps ==
  ASSUME ProviderInv, NEW c \in Calls, NEW p \in Procs, NEW s \in Streams, Write(c, p, s)
  PROVE  ProviderTypeOK' /\ OnlyTouches(c) /\ CallInv(c)'
<1> USE DEF Write, processVars
<1>1. ProviderTypeOK'
  BY DEF ProviderInv, ProviderTypeOK
<1>2. OnlyTouches(c)
  BY DEF ProviderInv, ProviderTypeOK, OnlyTouches, Untouched
<1>3. CallInv(c)'
  BY DEF ProviderInv, ProviderTypeOK, CallInv, IdleIsClean, EndIsSilent, NothingCutYet,
     OutcomeIsEarned, TreeIsSignalled, Reading, Writers, Runs, Alive, Procs
<1> QED BY <1>1, <1>2, <1>3

LEMMA SessionKeeps ==
  ASSUME ProviderInv, NEW c \in Calls,
         \/ \E p \in Procs : CloseOutput(c, p) \/ Die(c, p)
         \/ Fork(c) \/ LeaderExit(c) \/ ChildExit(c)
  PROVE  ProviderTypeOK' /\ OnlyTouches(c) /\ CallInv(c)'
<1> USE DEF callVars
<1>1. ProviderTypeOK'
  BY DEF ProviderInv, ProviderTypeOK, CloseOutput, Die, Fork, LeaderExit, ChildExit, Procs
<1>2. OnlyTouches(c)
  BY DEF ProviderInv, ProviderTypeOK, OnlyTouches, Untouched, CloseOutput, Die, Fork,
     LeaderExit, ChildExit
<1>3. IdleIsClean(c)' /\ NothingCutYet(c)' /\ OutcomeIsEarned(c)'
  BY DEF ProviderInv, ProviderTypeOK, CallInv, IdleIsClean, NothingCutYet, OutcomeIsEarned,
     CloseOutput, Die, Fork, LeaderExit, ChildExit, Runs, Alive, Procs
<1>4. EndIsSilent(c)' /\ TreeIsSignalled(c)'
  BY DEF ProviderInv, ProviderTypeOK, CallInv, EndIsSilent, TreeIsSignalled, Reading,
     CloseOutput, Die, Fork, LeaderExit, ChildExit, Writers, Runs, Alive, Procs
<1> QED BY <1>1, <1>2, <1>3, <1>4 DEF CallInv

(* What the updates of a caller's record leave of it. *)

LEMMA AtPc ==
  ASSUME NEW r \in CallState, NEW pc \in CallPCs
  PROVE  /\ [r EXCEPT !.pc = pc] \in CallState
         /\ [r EXCEPT !.pc = pc].pc = pc
         /\ [r EXCEPT !.pc = pc].open = r.open
         /\ [r EXCEPT !.pc = pc].batch = r.batch
         /\ [r EXCEPT !.pc = pc].limited = r.limited
         /\ [r EXCEPT !.pc = pc].expired = r.expired
BY DEF CallState, CallPCs

LEMMA WithOpen ==
  ASSUME NEW r \in CallState, NEW streams \in SUBSET Streams
  PROVE  /\ [r EXCEPT !.open = streams] \in CallState
         /\ [r EXCEPT !.open = streams].pc = r.pc
         /\ [r EXCEPT !.open = streams].open = streams
         /\ [r EXCEPT !.open = streams].batch = r.batch
         /\ [r EXCEPT !.open = streams].limited = r.limited
         /\ [r EXCEPT !.open = streams].expired = r.expired
BY DEF CallState, CallPCs

LEMMA WithBatch ==
  ASSUME NEW r \in CallState, NEW streams \in SUBSET Streams
  PROVE  /\ [r EXCEPT !.batch = streams] \in CallState
         /\ [r EXCEPT !.batch = streams].pc = r.pc
         /\ [r EXCEPT !.batch = streams].open = r.open
         /\ [r EXCEPT !.batch = streams].batch = streams
         /\ [r EXCEPT !.batch = streams].limited = r.limited
         /\ [r EXCEPT !.batch = streams].expired = r.expired
BY DEF CallState, CallPCs

LEMMA IdleCall == Idle \in CallState /\ ~Idle.limited /\ ~Idle.expired
BY DEF Idle, CallState, CallPCs

LEMMA StartKeeps ==
  ASSUME ProviderInv, NEW c \in Calls, StartCall(c)
  PROVE  ProviderTypeOK' /\ OnlyTouches(c) /\ CallInv(c)'
<1> DEFINE polled == [Idle EXCEPT !.pc = "poll"]
           new == [Idle EXCEPT !.pc = "poll", !.open = Streams]
<1>0. "poll" \in CallPCs
  BY DEF CallPCs
<1>1. /\ polled \in CallState /\ polled.pc = "poll"
      /\ polled.limited = Idle.limited /\ polled.expired = Idle.expired
  BY <1>0, IdleCall, AtPc, Zenon
<1>2. new = [polled EXCEPT !.open = Streams]
  OBVIOUS
<1>3. /\ call' = [call EXCEPT ![c] = new] /\ call[c].pc = "idle"
      /\ leader' = [leader EXCEPT ![c] = "running"]
      /\ UNCHANGED <<child, signal, quiet, pipe, late, cut, outcome>>
  BY DEF StartCall
<1> HIDE DEF polled, new
<1>4. Streams \in SUBSET Streams
  OBVIOUS
<1>5. new \in CallState /\ new.pc = "poll" /\ new.open = Streams /\ ~new.limited /\ ~new.expired
  BY <1>1, <1>2, <1>4, IdleCall, WithOpen, Zenon
<1>6. ProviderTypeOK' /\ OnlyTouches(c)
  BY <1>5, <1>3 DEF ProviderInv, ProviderTypeOK, OnlyTouches, Untouched
<1>7. CallInv(c)'
  BY <1>5, <1>3 DEF ProviderInv, ProviderTypeOK, CallInv, IdleIsClean, EndIsSilent,
     NothingCutYet, OutcomeIsEarned, TreeIsSignalled, Reading, Writers, Runs, Alive
<1> QED BY <1>6, <1>7

LEMMA ReturnKeeps ==
  ASSUME ProviderInv, NEW c \in Calls, call[c].pc \in {"wait", "lastwait"}, Return(c),
         UNCHANGED processVars
  PROVE  ProviderTypeOK' /\ OnlyTouches(c) /\ CallInv(c)'
<1> DEFINE new == [Idle EXCEPT !.pc = "done"]
<1>0. "done" \in CallPCs
  BY DEF CallPCs
<1>1. new \in CallState /\ new.pc = "done"
  BY <1>0, IdleCall, AtPc, Zenon
<1>2. /\ call' = [call EXCEPT ![c] = new]
      /\ outcome' = [outcome EXCEPT ![c] = Verdict(c)]
      /\ cut' = [cut EXCEPT ![c] = @ \/ pipe[c] # {}]
      /\ pipe' = [pipe EXCEPT ![c] = {}]
      /\ late' = [late EXCEPT ![c] = FALSE]
      /\ UNCHANGED <<leader, child, signal, quiet>>
  BY DEF Return, processVars
<1> HIDE DEF new
<1>3. ProviderTypeOK' /\ OnlyTouches(c)
  BY <1>1, <1>2 DEF ProviderInv, ProviderTypeOK, OnlyTouches, Untouched, Verdict
<1>4. CallInv(c)'
  BY <1>1, <1>2 DEF ProviderInv, ProviderTypeOK, CallInv, IdleIsClean, EndIsSilent,
     NothingCutYet, OutcomeIsEarned, TreeIsSignalled, Reading, Writers, Runs, Alive, Verdict
<1> QED BY <1>3, <1>4

LEMMA AbandonKeeps ==
  ASSUME ProviderInv, NEW c \in Calls, Abandon(c)
  PROVE  ProviderTypeOK' /\ OnlyTouches(c) /\ CallInv(c)'
<1>1. CASE call[c].pc \in {"idle", "done"}
  <2>1. UNCHANGED <<leader, child, signal, quiet, pipe, call, late, cut, outcome>>
    BY <1>1 DEF Abandon, callVars, processVars
  <2> QED BY <2>1, UntouchedKeeps DEF ProviderInv, ProviderTypeOK, OnlyTouches, Untouched
<1>2. CASE call[c].pc \notin {"idle", "done"}
  <2> DEFINE new == [Idle EXCEPT !.pc = "orphan"]
  <2>0. "orphan" \in CallPCs
    BY DEF CallPCs
  <2>1. new \in CallState /\ new.pc = "orphan"
    BY <2>0, IdleCall, AtPc, Zenon
  <2>2. /\ call' = [call EXCEPT ![c] = new]
        /\ pipe' = [pipe EXCEPT ![c] = {}]
        /\ late' = [late EXCEPT ![c] = FALSE]
        /\ UNCHANGED <<leader, child, signal, quiet, cut, outcome>>
    BY <1>2 DEF Abandon, processVars
  <2> HIDE DEF new
  <2>3. ProviderTypeOK' /\ OnlyTouches(c)
    BY <2>1, <2>2 DEF ProviderInv, ProviderTypeOK, OnlyTouches, Untouched
  <2>4. CallInv(c)'
    BY <1>2, <2>1, <2>2 DEF ProviderInv, ProviderTypeOK, CallInv, IdleIsClean, EndIsSilent,
       NothingCutYet, OutcomeIsEarned, TreeIsSignalled, Reading, Writers, Runs, Alive
  <2> QED BY <2>3, <2>4
<1> QED BY <1>1, <1>2

\* A step of the reader that neither stops nor ends the call.
LEMMA ReaderKeeps ==
  ASSUME ProviderInv, NEW c \in Calls, NEW new \in CallState,
         call' = [call EXCEPT ![c] = new],
         UNCHANGED <<leader, child, signal, quiet, late, cut, outcome>>,
         call[c].pc \in {"poll", "read"}, new.pc \in {"poll", "read", "wait"},
         new.limited = call[c].limited, new.expired = call[c].expired,
         pipe'[c] \in SUBSET pipe[c], pipe' = [pipe EXCEPT ![c] = pipe'[c]],
         new.pc = "wait" => pipe'[c] = {},
         \A s \in Streams \ new.open : s \notin pipe'[c] /\ Writers(c) = {},
         new.pc = "read" => \A s \in new.batch : s \in pipe'[c] \/ Writers(c) = {}
  PROVE  ProviderTypeOK' /\ OnlyTouches(c) /\ CallInv(c)'
<1>1. ProviderTypeOK' /\ OnlyTouches(c)
  BY DEF ProviderInv, ProviderTypeOK, OnlyTouches, Untouched
<1>2. call'[c] = new
  BY DEF ProviderInv, ProviderTypeOK
<1>3. IdleIsClean(c)' /\ OutcomeIsEarned(c)' /\ TreeIsSignalled(c)' /\ NothingCutYet(c)'
  BY <1>2 DEF ProviderInv, CallInv, IdleIsClean, OutcomeIsEarned, TreeIsSignalled, Runs,
     Alive, NothingCutYet
<1>4. EndIsSilent(c)'
  BY <1>2 DEF EndIsSilent, Reading, Writers, Alive
<1> QED BY <1>1, <1>3, <1>4 DEF CallInv

LEMMA PollKeeps ==
  ASSUME ProviderInv, NEW c \in Calls, Poll(c)
  PROVE  ProviderTypeOK' /\ OnlyTouches(c) /\ CallInv(c)'
<1> DEFINE r == call[c]
           mid == [r EXCEPT !.pc = "read"]
           new == [r EXCEPT !.pc = "read", !.batch = Ready(c)]
<1>1. r \in CallState /\ "read" \in CallPCs /\ Ready(c) \in SUBSET Streams
  BY DEF ProviderInv, ProviderTypeOK, CallState, CallPCs, Ready
<1>2. new = [mid EXCEPT !.batch = Ready(c)]
  OBVIOUS
<1>3. /\ call' = [call EXCEPT ![c] = new] /\ r.pc = "poll"
      /\ UNCHANGED <<leader, child, signal, quiet, pipe, late, cut, outcome>>
  BY DEF Poll, processVars
<1>4. /\ mid \in CallState /\ mid.pc = "read" /\ mid.open = r.open
      /\ mid.limited = r.limited /\ mid.expired = r.expired
  BY <1>1, AtPc, Zenon
<1> HIDE DEF mid, new
<1>5. /\ new \in CallState /\ new.pc = "read" /\ new.open = r.open
      /\ new.batch = Ready(c) /\ new.limited = r.limited /\ new.expired = r.expired
  BY <1>1, <1>2, <1>4, WithBatch, Zenon
<1>6. \A s \in Ready(c) : s \in pipe[c] \/ Writers(c) = {}
  BY DEF Ready
<1>7. pipe' = [pipe EXCEPT ![c] = pipe'[c]] /\ pipe'[c] \in SUBSET pipe[c]
  BY <1>3 DEF ProviderInv, ProviderTypeOK
<1>8. \A s \in Streams \ r.open : s \notin pipe[c] /\ Writers(c) = {}
  BY <1>3 DEF ProviderInv, CallInv, EndIsSilent, Reading
<1> QED BY <1>3, <1>5, <1>6, <1>7, <1>8, ReaderKeeps

LEMMA NextRoundKeeps ==
  ASSUME ProviderInv, NEW c \in Calls, NextRound(c)
  PROVE  ProviderTypeOK' /\ OnlyTouches(c) /\ CallInv(c)'
<1> DEFINE r == call[c]
           next == IF r.open = {} THEN "wait" ELSE "poll"
           new == [r EXCEPT !.pc = next]
<1>1. r \in CallState /\ next \in CallPCs
  BY DEF ProviderInv, ProviderTypeOK, CallState, CallPCs
<1>2. /\ new \in CallState /\ new.pc = next /\ new.open = r.open
      /\ new.limited = r.limited /\ new.expired = r.expired
  BY <1>1, AtPc, Zenon
<1>3. /\ call' = [call EXCEPT ![c] = new] /\ r.pc = "read"
      /\ UNCHANGED <<leader, child, signal, quiet, pipe, late, cut, outcome>>
  BY DEF NextRound, To, processVars
<1> HIDE DEF new
<1>4. \A s \in Streams \ r.open : s \notin pipe[c] /\ Writers(c) = {}
  BY <1>3 DEF ProviderInv, CallInv, EndIsSilent, Reading
<1>5. pipe[c] \in SUBSET Streams /\ pipe' = [pipe EXCEPT ![c] = pipe'[c]]
  BY <1>3 DEF ProviderInv, ProviderTypeOK
<1>6. new.pc = "wait" => pipe'[c] = {}
  BY <1>2, <1>3, <1>4, <1>5
<1> QED BY <1>2, <1>3, <1>4, <1>5, <1>6, ReaderKeeps

LEMMA ReadEndKeeps ==
  ASSUME ProviderInv, NEW c \in Calls, NEW s \in Streams, ReadEnd(c, s)
  PROVE  ProviderTypeOK' /\ OnlyTouches(c) /\ CallInv(c)'
<1> DEFINE r == call[c]
           mid == [r EXCEPT !.open = r.open \ {s}]
           new == [r EXCEPT !.open = r.open \ {s}, !.batch = r.batch \ {s}]
<1>1. r \in CallState /\ r.open \ {s} \in SUBSET Streams /\ r.batch \ {s} \in SUBSET Streams
  BY DEF ProviderInv, ProviderTypeOK, CallState
<1>2. new = [mid EXCEPT !.batch = r.batch \ {s}]
  OBVIOUS
<1>3. /\ mid \in CallState /\ mid.pc = r.pc /\ mid.open = r.open \ {s}
      /\ mid.limited = r.limited /\ mid.expired = r.expired
  BY <1>1, WithOpen, Zenon
<1>4. /\ call' = [call EXCEPT ![c] = new] /\ r.pc = "read"
      /\ s \in r.batch \ pipe[c]
      /\ UNCHANGED <<leader, child, signal, quiet, pipe, late, cut, outcome>>
  BY DEF ReadEnd, processVars
<1> HIDE DEF mid, new
<1>5. /\ new \in CallState /\ new.pc = r.pc /\ new.open = r.open \ {s}
      /\ new.batch = r.batch \ {s} /\ new.limited = r.limited /\ new.expired = r.expired
  <2>1. /\ new \in CallState /\ new.pc = mid.pc /\ new.open = mid.open
        /\ new.batch = r.batch \ {s} /\ new.limited = mid.limited
        /\ new.expired = mid.expired
    BY <1>1, <1>2, <1>3, WithBatch, Zenon
  <2> QED BY <1>3, <2>1, Zenon
<1>6. /\ \A t \in Streams \ r.open : t \notin pipe[c] /\ Writers(c) = {}
      /\ \A t \in r.batch : t \in pipe[c] \/ Writers(c) = {}
  BY <1>4 DEF ProviderInv, CallInv, EndIsSilent, Reading
<1>7. pipe' = [pipe EXCEPT ![c] = pipe'[c]] /\ pipe'[c] \in SUBSET pipe[c]
  BY <1>4 DEF ProviderInv, ProviderTypeOK
<1> QED BY <1>4, <1>5, <1>6, <1>7, ReaderKeeps

LEMMA ReadChunkKeeps ==
  ASSUME ProviderInv, NEW c \in Calls, NEW s \in Streams, ReadChunk(c, s)
  PROVE  ProviderTypeOK' /\ OnlyTouches(c) /\ CallInv(c)'
<1> DEFINE r == call[c]
           mid == [r EXCEPT !.buf[s] = @ + 1]
           new == [r EXCEPT !.buf[s] = @ + 1, !.batch = @ \ {s}]
<1>1. r \in CallState /\ r.batch \ {s} \in SUBSET Streams
  BY DEF ProviderInv, ProviderTypeOK, CallState
<1>2. /\ mid \in CallState /\ mid.pc = r.pc /\ mid.open = r.open /\ mid.batch = r.batch
      /\ mid.limited = r.limited /\ mid.expired = r.expired
  <2>1. ASSUME NEW old \in CallState
        PROVE  /\ [old EXCEPT !.buf[s] = @ + 1] \in CallState
               /\ [old EXCEPT !.buf[s] = @ + 1].pc = old.pc
               /\ [old EXCEPT !.buf[s] = @ + 1].open = old.open
               /\ [old EXCEPT !.buf[s] = @ + 1].batch = old.batch
               /\ [old EXCEPT !.buf[s] = @ + 1].limited = old.limited
               /\ [old EXCEPT !.buf[s] = @ + 1].expired = old.expired
    BY DEF CallState, CallPCs
  <2> QED BY <1>1, <2>1, Zenon
<1>3. new = [mid EXCEPT !.batch = @ \ {s}]
  OBVIOUS
<1>4. /\ call' = [call EXCEPT ![c] = new] /\ r.pc = "read" /\ s \in r.batch
      /\ pipe' = [pipe EXCEPT ![c] = @ \ {s}]
      /\ UNCHANGED <<leader, child, signal, quiet, late, cut, outcome>>
  BY DEF ReadChunk, processVars
<1> HIDE DEF mid, new
<1>5. /\ new \in CallState /\ new.pc = r.pc /\ new.open = r.open
      /\ new.batch = r.batch \ {s} /\ new.limited = r.limited /\ new.expired = r.expired
  <2>1. r.batch \ {s} \in SUBSET Streams
    BY <1>1
  <2>2. new = [mid EXCEPT !.batch = r.batch \ {s}]
    BY <1>2, <1>3, Zenon
  <2>3. /\ new \in CallState /\ new.pc = mid.pc /\ new.open = mid.open
        /\ new.batch = r.batch \ {s} /\ new.limited = mid.limited
        /\ new.expired = mid.expired
    BY <1>2, <2>1, <2>2, WithBatch, Zenon
  <2> QED BY <1>2, <2>3, Zenon
<1>6. /\ \A t \in Streams \ r.open : t \notin pipe[c] /\ Writers(c) = {}
      /\ \A t \in r.batch : t \in pipe[c] \/ Writers(c) = {}
  BY <1>4 DEF ProviderInv, CallInv, EndIsSilent, Reading
<1>7. pipe' = [pipe EXCEPT ![c] = pipe'[c]] /\ pipe'[c] = pipe[c] \ {s}
  BY <1>4 DEF ProviderInv, ProviderTypeOK
<1> QED BY <1>4, <1>5, <1>6, <1>7, ReaderKeeps

LEMMA DeadlineKeeps ==
  ASSUME ProviderInv, NEW c \in Calls, DeadlinePasses(c)
  PROVE  ProviderTypeOK' /\ OnlyTouches(c) /\ CallInv(c)'
<1>1. /\ late' = [late EXCEPT ![c] = TRUE]
      /\ UNCHANGED <<leader, child, signal, quiet, pipe, call, cut, outcome>>
  BY DEF DeadlinePasses, processVars
<1>2. ProviderTypeOK' /\ OnlyTouches(c)
  BY <1>1 DEF ProviderInv, ProviderTypeOK, OnlyTouches, Untouched
<1>3. CallInv(c)'
  BY <1>1 DEF ProviderInv, CallInv, IdleIsClean, EndIsSilent, NothingCutYet, OutcomeIsEarned,
     TreeIsSignalled, Reading, Writers, Runs, Alive
<1> QED BY <1>2, <1>3

\* A step after which the caller waits for a provider that it has told to stop.
LEMMA StopKeeps ==
  ASSUME ProviderInv, NEW c \in Calls, NEW new \in CallState,
         call' = [call EXCEPT ![c] = new], Terminate(c),
         UNCHANGED <<leader, child, quiet, pipe, late, outcome>>,
         call[c].pc \in {"poll", "read", "wait"}, new.pc \in {"wait", "lastwait"},
         cut' = [cut EXCEPT ![c] = cut'[c]], cut'[c] \in BOOLEAN,
         \/ new.limited \/ new.expired
         \/ /\ call[c].pc = "wait" /\ cut'[c] = cut[c]
            /\ new.limited = call[c].limited /\ new.expired = call[c].expired
  PROVE  ProviderTypeOK' /\ OnlyTouches(c) /\ CallInv(c)'
<1>1. ProviderTypeOK' /\ OnlyTouches(c)
  BY DEF ProviderInv, ProviderTypeOK, OnlyTouches, Untouched, Terminate, Alive
<1>2. call'[c] = new
  BY DEF ProviderInv, ProviderTypeOK
<1>3. IdleIsClean(c)' /\ EndIsSilent(c)' /\ NothingCutYet(c)'
  BY <1>2 DEF ProviderInv, CallInv, IdleIsClean, EndIsSilent, NothingCutYet, Reading
<1>4. outcome[c] = "none"
  BY DEF ProviderInv, CallInv, OutcomeIsEarned
<1>5. OutcomeIsEarned(c)'
  BY <1>4 DEF OutcomeIsEarned
<1>6. TreeIsSignalled(c)'
  BY DEF ProviderInv, ProviderTypeOK, CallInv, TreeIsSignalled, Terminate, Runs, Alive, Procs
<1> QED BY <1>1, <1>3, <1>5, <1>6 DEF CallInv

LEMMA ExpiryKeeps ==
  ASSUME ProviderInv, NEW c \in Calls, Expire(c)
  PROVE  ProviderTypeOK' /\ OnlyTouches(c) /\ CallInv(c)'
<1> DEFINE new == [To(c, "wait") EXCEPT !.expired = TRUE]
<1>1. new \in CallState /\ new.pc = "wait" /\ new.expired
  <2>1. ASSUME NEW old \in CallState
        PROVE  /\ [old EXCEPT !.expired = TRUE] \in CallState
               /\ [old EXCEPT !.expired = TRUE].pc = old.pc
               /\ [old EXCEPT !.expired = TRUE].expired = TRUE
    BY DEF CallState, CallPCs
  <2>2. call[c] \in CallState /\ "wait" \in CallPCs
    BY DEF ProviderInv, ProviderTypeOK, CallPCs
  <2>3. To(c, "wait") \in CallState /\ To(c, "wait").pc = "wait"
    BY <2>2, AtPc, Zenon DEF To
  <2> QED BY <2>1, <2>3, Zenon
<1>2. /\ call' = [call EXCEPT ![c] = new] /\ call[c].pc = "poll" /\ Terminate(c)
      /\ UNCHANGED <<leader, child, quiet, pipe, late, cut, outcome>>
  BY DEF Expire
<1> HIDE DEF new
<1>3. cut' = [cut EXCEPT ![c] = cut'[c]] /\ cut'[c] \in BOOLEAN
  BY <1>2 DEF ProviderInv, ProviderTypeOK
<1> QED BY <1>1, <1>2, <1>3, StopKeeps

LEMMA OverLimitKeeps ==
  ASSUME ProviderInv, NEW c \in Calls, NEW s \in Streams, ReadOverLimit(c, s)
  PROVE  ProviderTypeOK' /\ OnlyTouches(c) /\ CallInv(c)'
<1> DEFINE new == [To(c, "wait") EXCEPT !.limited = TRUE]
<1>1. new \in CallState /\ new.pc = "wait" /\ new.limited
  <2>1. ASSUME NEW old \in CallState
        PROVE  /\ [old EXCEPT !.limited = TRUE] \in CallState
               /\ [old EXCEPT !.limited = TRUE].pc = old.pc
               /\ [old EXCEPT !.limited = TRUE].limited = TRUE
    BY DEF CallState, CallPCs
  <2>2. call[c] \in CallState /\ "wait" \in CallPCs
    BY DEF ProviderInv, ProviderTypeOK, CallPCs
  <2>3. To(c, "wait") \in CallState /\ To(c, "wait").pc = "wait"
    BY <2>2, AtPc, Zenon DEF To
  <2> QED BY <2>1, <2>3, Zenon
<1>2. /\ call' = [call EXCEPT ![c] = new] /\ call[c].pc = "read" /\ Terminate(c)
      /\ cut' = [cut EXCEPT ![c] = TRUE]
      /\ UNCHANGED <<leader, child, quiet, pipe, late, outcome>>
  BY DEF ReadOverLimit
<1> HIDE DEF new
<1>3. cut' = [cut EXCEPT ![c] = cut'[c]] /\ cut'[c] \in BOOLEAN
  BY <1>2 DEF ProviderInv, ProviderTypeOK
<1> QED BY <1>1, <1>2, <1>3, StopKeeps

LEMMA WaitExpiryKeeps ==
  ASSUME ProviderInv, NEW c \in Calls, WaitExpires(c)
  PROVE  ProviderTypeOK' /\ OnlyTouches(c) /\ CallInv(c)'
<1> DEFINE new == To(c, "lastwait")
<1>0. call[c] \in CallState /\ "lastwait" \in CallPCs
  BY DEF ProviderInv, ProviderTypeOK, CallPCs
<1>1. /\ new \in CallState /\ new.pc = "lastwait"
      /\ new.limited = call[c].limited /\ new.expired = call[c].expired
  BY <1>0, AtPc, Zenon DEF To
<1>2. /\ call' = [call EXCEPT ![c] = new] /\ call[c].pc = "wait" /\ Terminate(c)
      /\ UNCHANGED <<leader, child, quiet, pipe, late, cut, outcome>>
  BY DEF WaitExpires
<1> HIDE DEF new
<1>3. cut' = [cut EXCEPT ![c] = cut'[c]] /\ cut'[c] \in BOOLEAN
  BY <1>2 DEF ProviderInv, ProviderTypeOK
<1> QED BY <1>1, <1>2, <1>3, StopKeeps

LEMMA CallerKeeps ==
  ASSUME ProviderInv, NEW c \in Calls,
         StartCall(c) \/ DeadlinePasses(c) \/ CallStep(c) \/ Abandon(c)
  PROVE  ProviderTypeOK' /\ OnlyTouches(c) /\ CallInv(c)'
<1>1. CASE WaitReaps(c) \/ LastWaitExpires(c)
  BY <1>1, ReturnKeeps DEF WaitReaps, LastWaitExpires
<1> QED BY <1>1, StartKeeps, AbandonKeeps, PollKeeps, NextRoundKeeps, ReadEndKeeps,
        ReadChunkKeeps, DeadlineKeeps, ExpiryKeeps, OverLimitKeeps, WaitExpiryKeeps DEF CallStep

LEMMA CallsKeep ==
  ASSUME ProviderInv, NEW c \in Calls,
         ProcessStep(c) \/ StartCall(c) \/ DeadlinePasses(c) \/ CallStep(c) \/ Abandon(c)
  PROVE  ProviderInv'
<1>1. ProviderTypeOK' /\ OnlyTouches(c) /\ CallInv(c)'
  BY WriteKeeps, SessionKeeps, CallerKeeps DEF ProcessStep
<1>2. ASSUME NEW d \in Calls PROVE CallInv(d)'
  BY <1>1, UntouchedKeeps DEF OnlyTouches, ProviderInv
<1> QED BY <1>1, <1>2 DEF ProviderInv

-----------------------------------------------------------------------------
(* The worker and the control plane. *)

LEMMA ClaimKeeps ==
  ASSUME WorkerInv, ClaimNothing \/ ClaimRetry \/ ClaimRaises
  PROVE  WorkerInv'
<1> USE DEF planeVars, workerVars, scanVars, WorkerInv
<1>1. /\ worker' \in WorkerState /\ worker'.failed = worker.failed
      /\ worker.pc = "claim" /\ worker'.pc \in {"claim", "over", "crashed"}
  BY WorkerAssumption DEF WorkerTypeOK, WorkerState, ClaimNothing, ClaimRetry, ClaimRaises, Crash
<1>2. /\ UNCHANGED <<mine, verdicts, scanner, bundle>>
      /\ board' \in [Jobs -> {"queued", "elsewhere", "claimed"}]
      /\ \A j \in Jobs : board'[j] = "queued" => board[j] = "queued"
  BY DEF WorkerTypeOK, ClaimNothing, ClaimRetry, ClaimRaises, ClaimLost
<1>3. WorkerTypeOK'
  BY <1>1, <1>2 DEF WorkerTypeOK
<1>4. BusyWithAClaim' /\ WaitingIsUntouched' /\ TellsTheTruth' /\ AllButTheLastTold'
  BY <1>1, <1>2 DEF BusyWithAClaim, WaitingIsUntouched, TellsTheTruth, AllButTheLastTold,
     VerdictMatchesScan, Deserved, Publishable
<1> QED BY <1>3, <1>4

LEMMA ClaimJobKeeps ==
  ASSUME WorkerInv, NEW j \in Jobs, ClaimJob(j)
  PROVE  WorkerInv'
<1> USE DEF scanVars, WorkerInv
<1>1. /\ worker' \in WorkerState /\ worker'.failed = worker.failed
      /\ worker.pc = "claim" /\ worker'.pc = "scan" /\ worker'.job = j
  BY DEF WorkerTypeOK, WorkerState, ClaimJob
<1>2. /\ board[j] = "queued" /\ board' = [board EXCEPT ![j] = "claimed"]
      /\ mine' = mine \cup {j}
      /\ UNCHANGED <<verdicts, scanner, bundle>>
  BY DEF ClaimJob
<1>3. WorkerTypeOK'
  BY <1>1, <1>2 DEF WorkerTypeOK
<1>4. BusyWithAClaim' /\ WaitingIsUntouched' /\ TellsTheTruth' /\ AllButTheLastTold'
  BY <1>1, <1>2 DEF WorkerTypeOK, BusyWithAClaim, WaitingIsUntouched, TellsTheTruth,
     AllButTheLastTold, VerdictMatchesScan, Deserved, Publishable
<1> QED BY <1>3, <1>4

LEMMA ScanEndKeeps ==
  ASSUME WorkerInv, NEW j \in Jobs, ScanRaises(j) \/ ScanReturns(j) \/ ScanTimesOut(j)
  PROVE  WorkerInv'
<1> USE DEF planeVars, scanVars, WorkerInv
<1>1. /\ worker' \in WorkerState /\ worker'.failed = worker.failed
      /\ worker.pc = "scan" /\ worker.job = j /\ worker'.pc = "post" /\ worker'.job = j
  <2>1. CASE ScanRaises(j)
    BY <2>1 DEF WorkerTypeOK, WorkerState, ScanRaises, ToPost
  <2>2. CASE ScanReturns(j)
    BY <2>2 DEF WorkerTypeOK, WorkerState, ScanReturns, ToPost, ScanResult
  <2>3. CASE ScanTimesOut(j)
    BY <2>3 DEF WorkerTypeOK, WorkerState, ScanTimesOut, ToPost
  <2> QED BY <2>1, <2>2, <2>3
<1>2. UNCHANGED <<board, verdicts, bundle, mine>>
  BY DEF ScanRaises, ScanReturns, ScanTimesOut
<1>3. /\ scanner' \in [Jobs -> {"none", "running", "exit0", "exit1", "killed"}]
      /\ scanner'[j] # "running" /\ worker'.result = Deserved(j)'
      /\ \A i \in Jobs \ {j} : scanner'[i] = scanner[i]
  <2>1. CASE ScanRaises(j)
    BY <2>1 DEF WorkerTypeOK, WorkerState, ScanRaises, ToPost, Deserved, Publishable
  <2>2. CASE ScanReturns(j)
    BY <2>2 DEF WorkerTypeOK, WorkerState, ScanReturns, ToPost, ScanResult, Deserved, Publishable
  <2>3. CASE ScanTimesOut(j)
    BY <2>3 DEF WorkerTypeOK, WorkerState, ScanTimesOut, ToPost, Deserved, Publishable
  <2> QED BY <2>1, <2>2, <2>3
<1>4. WorkerTypeOK'
  BY <1>1, <1>2, <1>3 DEF WorkerTypeOK
<1>5. BusyWithAClaim' /\ WaitingIsUntouched'
  BY <1>1, <1>2, <1>3 DEF WorkerTypeOK, BusyWithAClaim, WaitingIsUntouched
<1>6. TellsTheTruth' /\ AllButTheLastTold'
  BY <1>1, <1>2, <1>3 DEF WorkerTypeOK, BusyWithAClaim, TellsTheTruth,
     AllButTheLastTold, VerdictMatchesScan, Deserved, Publishable
<1> QED BY <1>4, <1>5, <1>6

LEMMA ScannerKeeps ==
  ASSUME WorkerInv, NEW j \in Jobs,
         OtherWorkerClaims(j) \/ StartScan(j) \/ ScannerExits(j) \/ ScannerDies(j)
  PROVE  WorkerInv'
<1> USE DEF planeVars, workerVars, scanVars, WorkerInv
<1>1. UNCHANGED <<verdicts, worker, mine>>
  BY DEF OtherWorkerClaims, StartScan, ScannerExits, ScannerDies
<1>2. WorkerTypeOK'
  BY <1>1 DEF WorkerTypeOK, OtherWorkerClaims, StartScan, ScannerExits, ScannerDies
<1>3. /\ \A i \in Jobs : board'[i] = "queued" => board[i] = "queued"
      /\ \A i \in Jobs \ {j} : scanner'[i] = scanner[i] /\ bundle'[i] = bundle[i]
      /\ \/ scanner'[j] = scanner[j] /\ bundle'[j] = bundle[j]
         \/ /\ worker.pc = "scan" /\ worker.job = j
            /\ UNCHANGED board
  BY DEF WorkerTypeOK, WaitingIsUntouched, OtherWorkerClaims, StartScan, ScannerExits, ScannerDies
<1>4. BusyWithAClaim' /\ WaitingIsUntouched'
  BY <1>1, <1>3 DEF WorkerTypeOK, WorkerState, BusyWithAClaim, WaitingIsUntouched
<1>5. TellsTheTruth' /\ AllButTheLastTold'
  BY <1>1, <1>3 DEF WorkerTypeOK, WorkerState, BusyWithAClaim, TellsTheTruth,
     AllButTheLastTold, VerdictMatchesScan, Deserved, Publishable
<1> QED BY <1>2, <1>4, <1>5

LEMMA NextJobIsIdle ==
  ASSUME WorkerTypeOK, NEW failed \in BOOLEAN
  PROVE  /\ NextJob(failed) \in WorkerState
         /\ NextJob(failed).pc \in {"claim", "over"}
         /\ NextJob(failed).failed = (worker.failed \/ failed)
<1>1. worker \in WorkerState
  BY DEF WorkerTypeOK
<1> DEFINE next == IF worker.taken + 1 = MaxJobs THEN "over" ELSE "claim"
           taken == worker.taken + 1
           f == worker.failed \/ failed
<1>2. taken \in Nat /\ f \in BOOLEAN /\ next \in {"claim", "over"}
  BY <1>1 DEF WorkerState
<1>3. f = (worker.failed \/ failed)
  BY Zenon
<1>4. NextJob(failed) = [worker EXCEPT !.pc = next, !.job = NoJob, !.taken = taken, !.posts = 0,
                                       !.result = "none", !.failed = f]
  BY Zenon DEF NextJob
<1> HIDE DEF next, taken, f
<1>5. ASSUME NEW w \in WorkerState, w = worker
      PROVE  NextJob(failed) \in WorkerState /\ NextJob(failed).pc = next /\ NextJob(failed).failed = f
  <2> DEFINE new == [w EXCEPT !.pc = next, !.job = NoJob, !.taken = taken, !.posts = 0,
                              !.result = "none", !.failed = f]
  <2>1. new \in WorkerState /\ new.pc = next /\ new.failed = f
    BY <1>2 DEF WorkerState
  <2>2. NextJob(failed) = new
    BY <1>4, <1>5, Zenon
  <2> HIDE DEF new
  <2> QED BY <2>1, <2>2
<1> QED BY <1>1, <1>2, <1>3, <1>5, Zenon

LEMMA PostKeeps ==
  ASSUME WorkerInv, NEW j \in Jobs, PostAnswered(j) \/ PostRetry(j) \/ PostGivesUp(j)
  PROVE  WorkerInv'
<1> USE DEF scanVars, WorkerInv
<1>1. /\ worker.pc = "post" /\ worker.job = j
      /\ UNCHANGED <<board, mine, scanner, bundle>>
      /\ Record(j) \/ UNCHANGED verdicts
      /\ \/ worker' = NextJob(FALSE) /\ Record(j)
         \/ worker' = NextJob(TRUE)
         \/ worker' = [worker EXCEPT !.posts = @ + 1]
  BY DEF PostAnswered, PostRetry, PostGivesUp, PostLost
<1>2. /\ worker' \in WorkerState
      /\ \/ /\ worker'.pc = "post" /\ worker'.job = j /\ worker'.result = worker.result
            /\ worker'.failed = worker.failed
         \/ /\ worker'.pc \in {"claim", "over"} /\ worker'.failed = worker.failed
            /\ Record(j)
         \/ worker'.pc \in {"claim", "over"} /\ worker'.failed
  <2>1. CASE worker' = NextJob(FALSE) /\ Record(j)
    <3>1. FALSE \in BOOLEAN
      OBVIOUS
    <3>2. /\ worker' \in WorkerState /\ worker'.pc \in {"claim", "over"}
          /\ worker'.failed = (worker.failed \/ FALSE)
      BY <2>1, <3>1, NextJobIsIdle, Zenon
    <3>3. worker.failed \in BOOLEAN
      BY DEF WorkerTypeOK, WorkerState
    <3> QED BY <2>1, <3>2, <3>3, Zenon
  <2>2. CASE worker' = NextJob(TRUE)
    <3>1. TRUE \in BOOLEAN
      OBVIOUS
    <3>2. /\ worker' \in WorkerState /\ worker'.pc \in {"claim", "over"}
          /\ worker'.failed = (worker.failed \/ TRUE)
      BY <2>2, <3>1, NextJobIsIdle, Zenon
    <3> QED BY <3>2, Zenon
  <2>3. CASE worker' = [worker EXCEPT !.posts = @ + 1]
    BY <1>1, <2>3 DEF WorkerTypeOK, WorkerState
  <2> QED BY <1>1, <2>1, <2>2, <2>3
<1>5. /\ verdicts' \in [Jobs -> SUBSET {"none", "bundle", "error"}]
      /\ verdicts'[j] \in {verdicts[j], verdicts[j] \cup {worker.result}}
      /\ Record(j) => verdicts'[j] = verdicts[j] \cup {worker.result}
      /\ \A i \in Jobs \ {j} : verdicts'[i] = verdicts[i]
  <2>1. worker.result \in {"none", "bundle", "error"}
    BY DEF WorkerTypeOK, WorkerState
  <2> QED BY <1>1, <2>1 DEF WorkerTypeOK, Record
<1>3. WorkerTypeOK'
  BY <1>1, <1>2, <1>5 DEF WorkerTypeOK
<1>4. BusyWithAClaim' /\ WaitingIsUntouched'
  BY <1>1, <1>2, <1>5 DEF WorkerTypeOK, WorkerState, BusyWithAClaim, WaitingIsUntouched
<1>6. TellsTheTruth' /\ AllButTheLastTold'
  BY <1>1, <1>2, <1>5 DEF WorkerTypeOK, WorkerState, TellsTheTruth, AllButTheLastTold,
     VerdictMatchesScan, Deserved, Publishable
<1> QED BY <1>3, <1>4, <1>6

LEMMA InitHolds == Init => ProviderInv /\ WorkerInv
<1> SUFFICES ASSUME Init PROVE ProviderInv /\ WorkerInv
  OBVIOUS
<1> USE DEF Init
<1>1. ProviderTypeOK
  BY IdleCall, Zenon DEF ProviderInit, ProviderTypeOK
<1>2. \A c \in Calls : CallInv(c)
  BY IdleCall DEF ProviderInit, CallInv, IdleIsClean, EndIsSilent, NothingCutYet,
     OutcomeIsEarned, TreeIsSignalled, Reading, Runs, Alive, Idle
<1>3. WorkerTypeOK
  BY DEF WorkerTypeOK, WorkerState
<1>4. WorkerInv
  BY <1>3 DEF WorkerInv, BusyWithAClaim, WaitingIsUntouched, TellsTheTruth, VerdictMatchesScan,
     AllButTheLastTold
<1> QED BY <1>1, <1>2, <1>4 DEF ProviderInv

LEMMA StepKeeps == ProviderInv /\ WorkerInv /\ [Next]_vars => ProviderInv' /\ WorkerInv'
<1> SUFFICES ASSUME ProviderInv, WorkerInv, [Next]_vars PROVE ProviderInv' /\ WorkerInv'
  OBVIOUS
<1>1. ASSUME UNCHANGED providerVars PROVE ProviderInv'
  <2>1. UNCHANGED <<leader, child, signal, quiet, pipe, call, late, cut, outcome>>
    BY <1>1 DEF providerVars, processVars, callVars
  <2> QED BY <2>1, UntouchedKeeps DEF ProviderInv, ProviderTypeOK, Untouched
<1>2. ASSUME UNCHANGED <<planeVars, workerVars, scanVars>> PROVE WorkerInv'
  <2>1. UNCHANGED <<board, verdicts, worker, mine, scanner, bundle>>
    BY <1>2 DEF planeVars, workerVars, scanVars
  <2> QED BY <2>1 DEF WorkerInv, WorkerTypeOK, BusyWithAClaim, WaitingIsUntouched,
          TellsTheTruth, VerdictMatchesScan, AllButTheLastTold, Deserved, Publishable
<1>3. CASE UNCHANGED vars
  BY <1>1, <1>2, <1>3 DEF vars
<1>4. CASE WorkerStep
  <2>1. UNCHANGED providerVars
    BY <1>4 DEF WorkerStep, ClaimNothing, ClaimRetry, ClaimRaises, ClaimJob, StartScan,
       ScanRaises, ScanReturns, PostAnswered, PostRetry, PostGivesUp
  <2> QED BY <1>1, <1>4, <2>1, ClaimKeeps, ClaimJobKeeps, ScannerKeeps, ScanEndKeeps,
          PostKeeps DEF WorkerStep
<1>5. ASSUME NEW j \in Jobs,
             \/ OtherWorkerClaims(j) \/ ScannerExits(j)
             \/ ScannerDies(j) \/ ScanTimesOut(j)
      PROVE  ProviderInv' /\ WorkerInv'
  <2>1. UNCHANGED providerVars \/ Abandon(j)
    BY <1>5 DEF OtherWorkerClaims, ScannerExits, ScannerDies, ScanTimesOut
  <2>2. ProviderInv'
    BY <1>1, <2>1, CallsKeep DEF Jobs
  <2> QED BY <1>5, <2>2, ScannerKeeps, ScanEndKeeps
<1>6. ASSUME NEW j \in Jobs,
             \/ ScannerCalls(j) \/ ReaderStep(j) \/ Deadline(j)
             \/ ProcessStep(j) /\ UNCHANGED <<planeVars, workerVars, scanVars>>
      PROVE  ProviderInv' /\ WorkerInv'
  <2>1. /\ ProcessStep(j) \/ StartCall(j) \/ DeadlinePasses(j) \/ CallStep(j)
        /\ UNCHANGED <<planeVars, workerVars, scanVars>>
    BY <1>6 DEF ScannerCalls, ReaderStep, Deadline
  <2> QED BY <1>2, <2>1, CallsKeep DEF Jobs
<1> QED BY <1>3, <1>4, <1>5, <1>6 DEF Next

LEMMA WorkerIsSound == Spec => [](ProviderInv /\ WorkerInv)
BY InitHolds, StepKeeps, PTL DEF Spec

-----------------------------------------------------------------------------
(* The theorems. *)

\* run_bounded_process: a provider that counts as successful exited with 0 by
\* itself and every byte it wrote was read, whatever a descendant, the deadline
\* or the output limit did meanwhile.
THEOREM SuccessIsWhole == Spec => []SuccessIsComplete
<1>1. ProviderInv => SuccessIsComplete
  BY DEF ProviderInv, CallInv, OutcomeIsEarned, SuccessIsComplete
<1> QED BY <1>1, WorkerIsSound, PTL

\* _terminate_process_tree: when a call that has returned had to kill its
\* provider, nothing of the provider's session runs on, because the leader is
\* never signalled without its group and forks no more.
THEOREM KilledTreeStaysDead == Spec => []KilledTreeIsGone
<1>1. ProviderInv => KilledTreeIsGone
  BY DEF ProviderInv, CallInv, TreeIsSignalled, KilledTreeIsGone
<1> QED BY <1>1, WorkerIsSound, PTL

\* main, submit_result: the control plane never holds a verdict about a job
\* that its scan does not deserve, and never both verdicts, however often a post
\* is lost and repeated.
THEOREM VerdictsAreTrue == Spec => []VerdictMatchesScan
<1>1. WorkerInv => VerdictMatchesScan
  BY DEF WorkerInv, TellsTheTruth
<1> QED BY <1>1, WorkerIsSound, PTL

\* Exit code 0 of the worker: every job it ever received has its verdict in the
\* control plane.
THEOREM CleanExitToldAll == Spec => []ExitZeroIsReported
<1>1. WorkerInv => ExitZeroIsReported
  BY DEF WorkerInv, AllButTheLastTold, ExitZeroIsReported
<1> QED BY <1>1, WorkerIsSound, PTL
=============================================================================
