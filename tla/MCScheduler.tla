---------------------------- MODULE MCScheduler -----------------------------
(***************************************************************************)
(* A latency-measuring node with a byte-array task, the clock scaled so    *)
(* that a second is four ticks, the counters to two bits and one bit.  The *)
(* clock may be set by a second, either way.                               *)
(***************************************************************************)
EXTENDS Scheduler

MCKind == <<"heartbeat", "byte_array", "latency">>
MCInterval == <<4, 2, 3>>
MCLeaps == {-4, 4}

=============================================================================
