---------------------------- MODULE MCAutoRefresh ----------------------------
(* One credential, two workers and room for one job, so that refreshes of  *)
(* it can overlap and the loop has to wait; the backoff of a failure is    *)
(* longer than that of an attempt.                                         *)
EXTENDS AutoRefresh
=============================================================================
