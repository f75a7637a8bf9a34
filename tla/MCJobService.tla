---------------------------- MODULE MCJobService ----------------------------
(* The service on small sets of jobs, keys and requests; see the .cfg files. *)
EXTENDS JobServiceInvariant, TLC

\* Jobs are interchangeable, and so are requests.
Symmetry == Permutations(Jobs) \cup Permutations(Requests)
=============================================================================
