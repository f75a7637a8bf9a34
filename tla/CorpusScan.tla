------------------------------ MODULE CorpusScan ------------------------------
(***************************************************************************)
(* scripts/scan_corpus.py: every artifact of a corpus is scanned by a      *)
(* child of its own; the parent starts children by weight, reads their     *)
(* reports, kills those past their deadline, writes a checkpoint for each  *)
(* result, and resumes from the checkpoints of an earlier run.             *)
(*                                                                         *)
(* Targets are numbered in the order of the corpus. A corpus lists paths,  *)
(* or is a manifest of exact artifacts, or a manifest with a checkpoint    *)
(* directory. The context of a run is what a checkpoint must agree with:   *)
(* scanner build, policy, profile, advisory snapshot. A child that lost    *)
(* its parent writes to its own directory only and is not followed.        *)
(***************************************************************************)
EXTENDS Naturals, SequencesExt, FiniteSetsExt

CONSTANTS
    Size,        \* number of targets
    Corpora,     \* [jobs, kind, weight, wrong]
    Contexts,
    MaxRuns,     \* bound on the runs of the program
    MaxFaults,   \* bound on changes of files, kills and hangs
    Nothing      \* no child, result or checkpoint

Targets == 1..Size

\* What a child has read, the children, and what becomes of an artifact.
Reads == {"nothing", "listed", "other"}
Children ==
    [read : Reads, end : {"none", "complete", "partial", "failed", "silent"},
     late : BOOLEAN, stuck : BOOLEAN]
Outcomes == [status : {"complete", "partial", "error"}, read : Reads]

ASSUME CorpusAssumption ==
    /\ Size \in Nat \ {0}
    /\ Nothing \notin Children \cup Outcomes
    /\ Corpora \subseteq [jobs : Nat \ {0}, kind : {"paths", "manifest", "resumable"},
                          weight : [Targets -> {1, 2, 4}], wrong : SUBSET Targets]

VARIABLES
    corpus,     \* the corpus and --jobs
    file,       \* the bytes at each path: "listed" are those the manifest hashes
    saved,      \* the checkpoint of each target
    context,    \* of the run
    phase,
    queue,
    capacity,
    units,      \* running_units
    child,      \* the child of each target
    result,     \* extensions_by_index
    runs,
    faults,
    scanned     \* what children did: each complete scan, by target, context and bytes

vars == <<corpus, file, saved, context, phase, queue, capacity, units, child, result,
          runs, faults, scanned>>
parentVars == <<context, phase, queue, capacity, units, result, saved>>

Listed == corpus.kind # "paths"
Parallel == corpus.jobs > 1
Weight(t) == corpus.weight[t]
Running == {t \in Targets : child[t] # Nothing}

Started == [read |-> "nothing", end |-> "none", late |-> FALSE, stuck |-> FALSE]
Outcome(status, read) == [status |-> status, read |-> read]
Failed == Outcome("error", "nothing")

Init ==
    /\ corpus \in Corpora
    /\ file = [t \in Targets |-> "listed"]
    /\ saved = [t \in Targets |-> Nothing]
    /\ context = Nothing
    /\ phase = "idle"
    /\ queue = <<>>
    /\ capacity = 0
    /\ units = 0
    /\ child = [t \in Targets |-> Nothing]
    /\ result = [t \in Targets |-> Nothing]
    /\ runs = 0
    /\ faults = 0
    /\ scanned = {}

\* Mutant: a checkpoint is taken whatever it was written under.
ResumesMutant(t, now) ==
    /\ corpus.kind = "resumable"
    /\ saved[t] # Nothing
    /\ saved[t].outcome = Outcome("complete", "listed")

\* _load_checkpoint
Resumes(t, now) ==
    /\ corpus.kind = "resumable"
    /\ saved[t] # Nothing
    /\ saved[t].context = now
    /\ saved[t].outcome = Outcome("complete", "listed")

\* max(jobs, heaviest pending artifact)
CapacityFor(pending) == Max({corpus.jobs} \cup {Weight(t) : t \in pending})

\* Some targets in the order of the corpus: one sequence.
InOrder(ts) ==
    {q \in [1..Cardinality(ts) -> ts] :
        /\ \A t \in ts : \E i \in DOMAIN q : q[i] = t
        /\ \A i, j \in DOMAIN q : i < j => q[i] < q[j]}

Begin ==
    /\ phase # "scanning"
    /\ runs < MaxRuns
    /\ runs' = runs + 1
    /\ context' \in Contexts
    /\ phase' = "scanning"
    /\ LET pending == {t \in Targets : ~Resumes(t, context')}
       IN  /\ queue' \in InOrder(pending)
           /\ capacity' = CapacityFor(pending)
           /\ result' = [t \in Targets |-> IF t \in pending THEN Nothing ELSE saved[t].outcome]
    /\ units' = 0
    /\ UNCHANGED <<corpus, file, saved, child, faults, scanned>>

\* The program has ended without a report.
Ends(how) ==
    /\ phase' = how
    /\ queue' = <<>>
    /\ capacity' = 0
    /\ units' = 0
    /\ child' = [t \in Targets |-> Nothing]
    /\ result' = [t \in Targets |-> Nothing]

\* The checkpoints after the results "new", a function on some targets.
Kept(new) ==
    IF corpus.kind = "resumable"
    THEN [t \in Targets |-> IF t \in DOMAIN new
                            THEN [context |-> context, outcome |-> new[t]]
                            ELSE saved[t]]
    ELSE saved

\* record_result, for each of some targets
Record(new) ==
    /\ result' = [t \in Targets |-> IF t \in DOMAIN new THEN new[t] ELSE result[t]]
    /\ saved' = Kept(new)

\* _manifest_preflight
Mismatched(t) == Listed /\ file[t] # "listed"

Start(t) ==
    IF Mismatched(t)
    THEN Record([u \in {t} |-> Failed]) /\ UNCHANGED <<child, units>>
    ELSE /\ child' = [child EXCEPT ![t] = Started]
         /\ units' = units + Weight(t)
         /\ UNCHANGED <<result, saved>>

\* The fill loop takes the first artifact in the queue that fits.
Fitting == {i \in DOMAIN queue : Weight(queue[i]) <= capacity - units}

Place ==
    /\ phase = "scanning"
    /\ Parallel
    /\ \E i \in Fitting :
           /\ \A j \in Fitting : i <= j
           /\ Start(queue[i])
           /\ queue' = RemoveAt(queue, i)
    /\ UNCHANGED <<corpus, file, context, phase, capacity, runs, faults, scanned>>

\* --jobs 1: one target at a time, in order.
PlaceNext ==
    /\ phase = "scanning"
    /\ ~Parallel
    /\ queue # <<>>
    /\ Running = {}
    /\ Start(Head(queue))
    /\ queue' = Tail(queue)
    /\ UNCHANGED <<corpus, file, context, phase, capacity, runs, faults, scanned>>

\* _read_worker_report: the report of a child that exited 0.
Reported(t) ==
    LET ended == child[t]
        ours == t \notin corpus.wrong /\ ended.read = "listed"
    IN  IF ended.end \in {"complete", "partial"} /\ (Listed => ours)
        THEN Outcome(ended.end, ended.read)
        ELSE Failed

Ended(t) == child[t].end # "none"

\* Mutant: a child is polled for its exit only.
DueMutant == {t \in Running : Ended(t)}

\* The children whose poll has an answer: they exited, or are past their deadline.
Due == {t \in Running : Ended(t) \/ child[t].late}

\* A child past its deadline is killed, and its result is a failure.
ResultOf(t) == IF Ended(t) THEN Reported(t) ELSE Failed

\* What leaves the parallel loop: a failed child that printed white space only
\* has no last line (IndexError), and one that outlives the kill times out the
\* last wait. With --jobs 1 both are failures of the artifact.
Raises(t) == IF Ended(t) THEN child[t].end = "silent" ELSE child[t].stuck

UnitsOf(ts) == MapThenSumSet(Weight, ts)

\* One pass of the poll loop, when the fill loop has placed what fits.
Polls == phase = "scanning" /\ Parallel /\ Fitting = {}

Poll ==
    /\ Polls
    /\ Due # {}
    /\ \A t \in Due : ~Raises(t)
    /\ Record([t \in Due |-> ResultOf(t)])
    /\ child' = [t \in Targets |-> IF t \in Due THEN Nothing ELSE child[t]]
    /\ units' = units - UnitsOf(Due)
    /\ UNCHANGED <<corpus, file, context, phase, queue, capacity, runs, faults, scanned>>

\* Children polled before the one that raises have their results recorded.
PollRaises ==
    /\ Polls
    /\ \E t \in Due, before \in SUBSET Due :
           /\ Raises(t)
           /\ \A u \in before : ~Raises(u)
           /\ saved' = Kept([u \in before |-> ResultOf(u)])
    /\ Ends("aborted")
    /\ UNCHANGED <<corpus, file, context, runs, faults, scanned>>

\* --jobs 1: the wait for the one child.
Wait ==
    /\ phase = "scanning"
    /\ ~Parallel
    /\ Due # {}
    /\ Record([t \in Due |-> ResultOf(t)])
    /\ child' = [t \in Targets |-> Nothing]
    /\ units' = 0
    /\ UNCHANGED <<corpus, file, context, phase, queue, capacity, runs, faults, scanned>>

Publish ==
    /\ phase = "scanning"
    /\ queue = <<>>
    /\ Running = {}
    /\ phase' = "done"
    /\ UNCHANGED <<corpus, file, saved, context, queue, capacity, units, child, result,
                   runs, faults, scanned>>

ParentStep ==
    Begin \/ Place \/ PlaceNext \/ Poll \/ PollRaises \/ Wait \/ Publish

-----------------------------------------------------------------------------
\* The scanner in the child, which reads the artifact and may end in any way;
\* "failed" is also one whose report cannot be used.
Alive(t) == t \in Running /\ child[t].end = "none" /\ ~child[t].stuck

Read(t) ==
    /\ Alive(t)
    /\ child[t].read = "nothing"
    /\ child' = [child EXCEPT ![t].read = file[t]]
    /\ UNCHANGED <<corpus, file, runs, faults, scanned>>
    /\ UNCHANGED parentVars

Exit(t, how) ==
    /\ Alive(t)
    /\ how \in {"complete", "partial"} => child[t].read # "nothing"
    /\ child' = [child EXCEPT ![t].end = how]
    /\ scanned' = IF how = "complete"
                  THEN scanned \cup {<<t, context, child[t].read>>}
                  ELSE scanned
    /\ UNCHANGED <<corpus, file, runs, faults>>
    /\ UNCHANGED parentVars

Deadline(t) ==
    /\ t \in Running
    /\ ~Ended(t)
    /\ ~child[t].late
    /\ child' = [child EXCEPT ![t].late = TRUE]
    /\ UNCHANGED <<corpus, file, runs, faults, scanned>>
    /\ UNCHANGED parentVars

ChildStep ==
    \E t \in Targets :
        \/ Read(t)
        \/ Deadline(t)
        \/ \E how \in {"complete", "partial", "failed", "silent"} : Exit(t, how)

-----------------------------------------------------------------------------
Fault ==
    /\ faults < MaxFaults
    /\ faults' = faults + 1

\* A file of the corpus is replaced.
Replace(t) ==
    /\ Fault
    /\ file' = [file EXCEPT ![t] = IF @ = "listed" THEN "other" ELSE "listed"]
    /\ UNCHANGED <<corpus, child, runs, scanned>>
    /\ UNCHANGED parentVars

\* A child enters a wait that no signal ends.
Hang(t) ==
    /\ Alive(t)
    /\ Fault
    /\ child' = [child EXCEPT ![t].stuck = TRUE]
    /\ UNCHANGED <<corpus, file, runs, scanned>>
    /\ UNCHANGED parentVars

\* The parent is killed, or fails to write a file of its own.
Kill ==
    /\ phase = "scanning"
    /\ Fault
    /\ Ends("killed")
    /\ UNCHANGED <<corpus, file, saved, context, runs, scanned>>

HostStep == Kill \/ \E t \in Targets : Replace(t) \/ Hang(t)

Next == ParentStep \/ ChildStep \/ HostStep

Spec == Init /\ [][Next]_vars

\* The parent goes on, and deadlines pass.
FairSpec ==
    /\ Spec
    /\ WF_vars(Place) /\ WF_vars(PlaceNext) /\ WF_vars(Publish)
    /\ WF_vars(Poll \/ PollRaises) /\ WF_vars(Wait)
    /\ \A t \in Targets : WF_vars(Deadline(t))
-----------------------------------------------------------------------------
\* A published report is whole and earned: every target has its result, and a
\* complete one comes from a child that ended in time with a complete report,
\* under the context of this run even if an earlier run started that child; in
\* a manifest it read the bytes that are listed, with the identity listed.
\* Files change, children hang and the program is killed in between.
CompleteIsEarned ==
    phase = "done" =>
        \A t \in Targets :
            /\ result[t] # Nothing
            /\ result[t].status = "complete" =>
                   /\ <<t, context, result[t].read>> \in scanned
                   /\ Listed => result[t].read = "listed" /\ t \notin corpus.wrong

\* Every run comes to its end, whatever its children do: one that hangs, even
\* beyond the reach of a signal, is given up at its deadline.
CorpusEnds == phase = "scanning" ~> phase # "scanning"

=============================================================================
