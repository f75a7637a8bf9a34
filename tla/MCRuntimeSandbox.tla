-------------------------- MODULE MCRuntimeSandbox --------------------------
(***************************************************************************)
(* A package of scripts only, one of an entrypoint only, one of both, and  *)
(* workers that lack one thing each.                                       *)
(***************************************************************************)
EXTENDS RuntimeSandbox

Script(named, boots) == [named |-> named, boots |-> boots]

Bare == [archive |-> "whole", scripts |-> <<>>, entry |-> TRUE, sidecar |-> "none"]

Installed == [Bare EXCEPT !.scripts = <<Script(TRUE, 1)>>]
Scripted  == [Bare EXCEPT !.scripts = <<Script(FALSE, 2)>>, !.entry = FALSE]
Unbundled == [Bare EXCEPT !.scripts = <<Script(TRUE, 0)>>, !.sidecar = "missing"]
Refused   == [Bare EXCEPT !.archive = "refused"]

Worker ==
    [bwrap |-> TRUE, strace |-> TRUE, traced |-> TRUE, sudo |-> FALSE,
     privileged |-> FALSE, namespace |-> TRUE]
Lacking ==
    {[Worker EXCEPT !.traced = FALSE, !.strace = FALSE],
     [Worker EXCEPT !.strace = FALSE],
     [Worker EXCEPT !.bwrap = FALSE],
     [Worker EXCEPT !.namespace = FALSE],
     [Worker EXCEPT !.privileged = TRUE],
     [Worker EXCEPT !.privileged = TRUE, !.sudo = TRUE]}

MCCases == {<<p, Worker>> : p \in {Installed, Scripted, Unbundled, Refused}}
             \cup {<<Bare, w>> : w \in Lacking}
=============================================================================
