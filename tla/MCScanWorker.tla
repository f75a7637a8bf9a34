---------------------------- MODULE MCScanWorker ----------------------------
(* The worker with named jobs and pipes; see the .cfg files. *)
EXTENDS ScanWorker

CONSTANTS j1, j2, out, err
=============================================================================
