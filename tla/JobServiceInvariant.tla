------------------------ MODULE JobServiceInvariant ------------------------
(***************************************************************************)
(* The inductive invariant behind the theorems of JobServiceProofs: why a  *)
(* stale copy of a record, written back late, does no more harm than it    *)
(* does.  It holds with live maintenance, crashes, faults and expiry.      *)
(***************************************************************************)
EXTENDS JobServiceProperties

\* An id that no handler has drawn yet is in no file and in no thread.
FreshIds ==
    \A j \in Jobs :
      sub[j] = "none" => /\ ~Exists(j)
                         /\ lock.job # j
                         /\ \A t \in Threads : note[t].job # j

\* The record of a job whose POST is unanswered is there and is not old.
OfferedIsStored ==
    \A j \in Jobs :
      sub[j] \in {"created", "refused"} => Exists(j) /\ j \notin oldJobs

\* A runner or a watcher only notifies about a record it has just written.
NotifierIsRecent ==
    \A t \in Threads : t # Maint => note[t].job \notin oldJobs

\* What a thread is about to write back is a terminal record, and names the
\* same key as the stored one.
CopiesAreTerminal ==
    \A t \in Threads :
      note[t].pc \in {"put", "send", "write"} =>
        /\ Exists(note[t].job)
        /\ note[t].snap.key = jobs[note[t].job].key
        /\ note[t].snap.status \in {"complete", "failed", "cancelled"}

\* What a thread is about to read for a notification is terminal.
NotifiesTerminal ==
    \A t \in Threads :
      note[t].pc = "read" /\ Exists(note[t].job) => Terminal(note[t].job)

\* An open commit holds the key of its job, even if its record is purged.
CommitHoldsKey ==
    \A i, j \in Jobs :
      lock.job = j /\ Exists(i) =>
        IF i = j THEN jobs[i].key = lock.rec.key
        ELSE jobs[i].key = lock.rec.key => jobs[i].key = NoKey

\* Every receipt, stored or about to be, that is to be retried has budget.
HasBudget(rec) == rec.hook = "failed" => rec.tries < MaxTotalAttempts

ReceiptsHaveBudget ==
    /\ \A j \in Jobs : HasBudget(jobs[j])
    /\ \A t \in Threads : HasBudget(note[t].snap)
    /\ HasBudget(lock.rec)

\* The copies of records that the threads of the service and an open commit
\* hold can be written back at any time without a job coming back to life,
\* a key naming two jobs, or a retry beyond the budget.
CopiesAreHarmless ==
    /\ FreshIds
    /\ OfferedIsStored
    /\ NotifierIsRecent
    /\ CopiesAreTerminal
    /\ NotifiesTerminal
    /\ CommitHoldsKey
    /\ ReceiptsHaveBudget
    /\ KeyBindsOneJob

IInv == TypeOK /\ CopiesAreHarmless
=============================================================================
