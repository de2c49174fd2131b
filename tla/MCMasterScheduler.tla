-------------------------- MODULE MCMasterScheduler --------------------------
(* Small instances of MasterScheduler for TLC; the .cfg files give the     *)
(* constants their values.                                                 *)
EXTENDS MasterScheduler
=============================================================================
