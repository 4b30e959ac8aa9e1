---------------------------- MODULE MCRunService ----------------------------
(* Two runs, one of them traced, and a client that reads. *)
EXTENDS RunService
=============================================================================
