---------------------------- MODULE JobLifecycle ----------------------------
(***************************************************************************)
(* What the clients and the webhook consumer of the scanner service may    *)
(* rely on, without its files, threads, locks or processes: the life of a  *)
(* job as the HTTP answers and the events show it.  JobService implements  *)
(* Spec as long as the maintenance pass only runs before serving, and      *)
(* ServedSpec in every configuration: serve() also starts the loop that    *)
(* maintains the store beside the workers.                                 *)
(***************************************************************************)
EXTENDS Naturals, FiniteSets

CONSTANTS Jobs, Capacity  \* Capacity: workers of the pool

VARIABLES
    life,   \* where each job is
    heard   \* the events posted about each job

vars == <<life, heard>>

Ended == {"complete", "failed", "cancelled"}
Lives == {"none", "offered", "queued", "running", "gone"} \cup Ended

\* An offered job is between its creation and the answer to its POST: it may
\* still be refused, and whoever knows its id may cancel it.  Retention takes
\* any job that is old enough, one still queued after that long included.
Moves ==
    {<<"none", "offered">>,
     <<"offered", "queued">>, <<"offered", "cancelled">>, <<"offered", "failed">>,
     <<"queued", "running">>, <<"queued", "failed">>, <<"queued", "cancelled">>,
     <<"running", "complete">>, <<"running", "failed">>,
     <<"running", "cancelled">>}
    \cup (({"queued", "running"} \cup Ended) \X {"gone"})

Init ==
    /\ life = [j \in Jobs |-> "none"]
    /\ heard = [j \in Jobs |-> {}]

\* Several jobs may move at once: a crash and a purge touch all of them.
Live ==
    /\ life' \in [Jobs -> Lives]
    /\ \A j \in Jobs : life'[j] # life[j] => <<life[j], life'[j]>> \in Moves
    /\ Cardinality({j \in Jobs : life'[j] = "running"}) <= Capacity
    /\ UNCHANGED heard

\* The consumer hears the verdict of a job that has one.
Announce(j) ==
    /\ life[j] \in {"complete", "failed"}
    /\ heard' = [heard EXCEPT ![j] =
                   {IF life[j] = "complete" THEN "scan.completed"
                                            ELSE "scan.failed"}]
    /\ UNCHANGED life

Next == Live \/ \E j \in Jobs : Announce(j)

Spec == Init /\ [][Next]_vars

-----------------------------------------------------------------------------
(* The same life when records are also written back from stale copies.      *)

\* The pass may record the end of a job once more, as a failure, and the
\* thread that reported a completion may put that back.  A job that ran unwatched
\* until its record expired completes if that was removed while it was committed.
Revisions ==
    {<<"complete", "failed">>, <<"failed", "complete">>,
     <<"cancelled", "failed">>, <<"gone", "complete">>}

\* How many run at once is left open: a fault may leave a running record behind.
ServedLive ==
    /\ life' \in [Jobs -> Lives]
    /\ \A j \in Jobs :
         life'[j] # life[j] => <<life[j], life'[j]>> \in Moves \cup Revisions
    /\ UNCHANGED heard

\* A verdict that was revised may be heard beside its revision.  A job that is
\* still offered may be heard to have failed; nothing is heard of a job while
\* it is queued, running, cancelled or gone.
ServedAnnounce(j) ==
    /\ life[j] \in {"offered", "complete", "failed"}
    /\ \E event \in {"scan.completed", "scan.failed"} :
         /\ event = "scan.completed" => life[j] # "offered"
         /\ heard' = [heard EXCEPT ![j] = @ \cup {event}]
    /\ UNCHANGED life

ServedNext == ServedLive \/ \E j \in Jobs : ServedAnnounce(j)

ServedSpec == Init /\ [][ServedNext]_vars
=============================================================================
