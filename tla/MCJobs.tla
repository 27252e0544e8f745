------------------------------- MODULE MCJobs -------------------------------
(* A small instance of Jobs: two threads start conversions, and the history  *)
(* and the log are short enough to overflow.                                 *)
EXTENDS Jobs
=============================================================================
