-------------------------- MODULE MCLocalScheduler --------------------------
(* Small instances of LocalScheduler for TLC; the .cfg files give the      *)
(* constants their values.                                                 *)
EXTENDS LocalScheduler
=============================================================================
