--------------------------- MODULE TerminalWebhook ---------------------------
(***************************************************************************)
(* _notify_terminal_job: read the job without the lock, post the terminal  *)
(* event (a batch of attempts that may take a minute), then write back the *)
(* WHOLE record that was read, with the receipt of the delivery added.     *)
(* Three kinds of threads run it: the runner and the watcher of a job, and *)
(* the maintenance pass.                                                   *)
(***************************************************************************)
EXTENDS JobStore

CONSTANTS
    WebhookConfigured,  \* the three IDE_SCANNER_WEBHOOK_* variables are set
    WebhookAttempts,    \* WEBHOOK_ATTEMPTS: posts in one batch (3)
    MaxTotalAttempts    \* WEBHOOK_MAX_TOTAL_ATTEMPTS (9)

ASSUME WebhookAssumption ==
    /\ WebhookConfigured \in BOOLEAN
    /\ WebhookAttempts \in Nat \ {0}
    /\ MaxTotalAttempts \in Nat \ {0}

VARIABLES
    note,   \* per thread: where it is in _notify_terminal_job
    sent,   \* history: the events posted about each job
    posts   \* history: the number of posts about each job

hookVars == <<note, sent, posts>>

Maint   == <<"maint", NoJob>>
Runner(j)  == <<"runner", j>>
Watcher(j) == <<"watcher", j>>
Threads == ({"runner", "watcher"} \X Jobs) \cup {Maint}

IdleNote == [pc |-> "idle", job |-> NoJob, snap |-> Absent]

\* "put" is the pending store.write of the maintenance pass, see there.
NoteState ==
    {IdleNote} \cup
    [pc: {"put", "read", "send", "write"}, job: Jobs, snap: JobRecord]

Events == {"scan.completed", "scan.failed"}

HookTypeOK ==
    /\ note \in [Threads -> NoteState]
    /\ sent \in [Jobs -> SUBSET Events]
    /\ posts \in [Jobs -> Nat]

HookInit ==
    /\ note = [t \in Threads |-> IdleNote]
    /\ sent = [j \in Jobs |-> {}]
    /\ posts = [j \in Jobs |-> 0]

-----------------------------------------------------------------------------
Quiet(t) == note[t].pc = "idle"

Step(t, pc, j, rec) ==
    note' = [note EXCEPT ![t] = [pc |-> pc, job |-> j, snap |-> rec]]

BeginNotify(t, j) == Step(t, "read", j, Absent)
EndNotify(t)      == note' = [note EXCEPT ![t] = IdleNote]

Settled(rec) == rec.hook \in {"delivered", "dead_lettered"}
EventOf(rec) == IF rec.status = "complete" THEN "scan.completed"
                                           ELSE "scan.failed"

\* Mutant: the attempts of earlier batches are forgotten.
ReceiptFreshMutant(rec, ok, n) ==
    [rec EXCEPT !.tries = n,
                !.hook = IF ok THEN "delivered"
                         ELSE IF n >= MaxTotalAttempts THEN "dead_lettered"
                         ELSE "failed"]

\* The receipt of a batch: a batch that fails is charged in full, even when
\* a status that must not be retried ended it early.
Receipt(rec, ok, n) ==
    LET total == rec.tries + (IF ok THEN n ELSE WebhookAttempts)
    IN [rec EXCEPT
          !.tries = total,
          !.hook = IF ok THEN "delivered"
                   ELSE IF total >= MaxTotalAttempts THEN "dead_lettered"
                   ELSE "failed"]

\* Nothing to do: no record, a settled delivery, or no webhook configured.
NotifySkip(t) ==
    /\ note[t].pc = "read"
    /\ \/ ~Exists(note[t].job)
       \/ Settled(jobs[note[t].job])
       \/ ~WebhookConfigured
    /\ EndNotify(t)
    /\ UNCHANGED <<sent, posts, storeVars>>

NotifyRead(t) ==
    /\ note[t].pc = "read"
    /\ Exists(note[t].job)
    /\ ~Settled(jobs[note[t].job])
    /\ WebhookConfigured
    /\ Step(t, "send", note[t].job, jobs[note[t].job])
    /\ UNCHANGED <<sent, posts, storeVars>>

NotifySend(t) ==
    /\ note[t].pc = "send"
    /\ \E n \in 1..WebhookAttempts, ok \in BOOLEAN :
         /\ Step(t, "write", note[t].job, Receipt(note[t].snap, ok, n))
         /\ posts' = [posts EXCEPT ![note[t].job] = @ + n]
    /\ sent' = [sent EXCEPT ![note[t].job] = @ \cup {EventOf(note[t].snap)}]
    /\ UNCHANGED storeVars

NotifyWrite(t) ==
    /\ note[t].pc = "write"
    /\ WriteJob(note[t].job, note[t].snap)
    /\ EndNotify(t)
    /\ UNCHANGED <<sent, posts>>

Notify(t) == NotifySkip(t) \/ NotifyRead(t) \/ NotifySend(t) \/ NotifyWrite(t)
=============================================================================
