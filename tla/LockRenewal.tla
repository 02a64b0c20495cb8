---------------------------- MODULE LockRenewal ----------------------------
(***************************************************************************)
(* How long a renewal task sleeps between two renewals of the lock it      *)
(* keeps, for orchestrations and for activities.  Times are milliseconds;  *)
(* the code computes with durations of whole nanoseconds, and with         *)
(* floating point only to round a half up to whole seconds.                *)
(*                                                                         *)
(* OrchestratorQueue and WorkerQueue assume that a lock that is being      *)
(* renewed is renewed before it expires (RenewalDue).  RenewsInTime, in    *)
(* OrchestratorQueue_proofs, says for which settings that is so.           *)
(***************************************************************************)
EXTENDS Integers

Second == 1000

Least(a, b) == IF a <= b THEN a ELSE b
Most(a, b) == IF a <= b THEN b ELSE a

(* The least whole number of seconds that is at least half of t. *)
HalfRoundedUp(t) == ((t + 2 * Second - 1) \div (2 * Second)) * Second

calculate_renewal_interval(lock_timeout, buffer) ==
  IF lock_timeout >= 15 * Second
    THEN Most(lock_timeout - Least(buffer, lock_timeout), Second)
    ELSE Most(HalfRoundedUp(lock_timeout), Second)

=============================================================================
