----------------------------- MODULE MCTaskQueue -----------------------------
(***************************************************************************)
(* Instances of TaskQueue: two workers per start(), one restart.  The      *)
(* values of the constants are in the .cfg files.                          *)
(***************************************************************************)
EXTENDS TaskQueue
=============================================================================
