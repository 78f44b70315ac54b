------------------------------- MODULE MCMonitor -------------------------------
(***************************************************************************)
(* Small instances of Monitor.  There is one pid more than programs: the   *)
(* one that exited stays recorded while its successor is forked.           *)
(***************************************************************************)
EXTENDS Monitor
================================================================================
