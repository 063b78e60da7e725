------------------------------ MODULE Requests ------------------------------
(***************************************************************************)
(* What the requester of a latency measurement promises to the exchange of *)
(* requests and responses: one request after the other, each with the next *)
(* transfer ID and its time in the slot of latency_ of that ID, no two of  *)
(* them closer than Spacing.  Scheduler implements it, on a steady clock;  *)
(* that these are the requests of Latency is the subject of Measurement.   *)
(***************************************************************************)
EXTENDS Integers

CONSTANTS TidMod,    \* the number of transfer IDs
          Spacing,   \* the shortest time between two requests
          NoTid      \* stands for no request yet

VARIABLES clock,     \* the time
          latency,   \* per transfer ID, when its last request was sent
          tid        \* the transfer ID of the last request

vars == <<clock, latency, tid>>

Tids == 0..(TidMod - 1)

Init == /\ clock = 0
        /\ latency \in [Tids -> Nat]
        /\ tid = NoTid

Request == /\ tid # NoTid => /\ clock >= latency[tid] + Spacing
                             /\ tid' = (tid + 1) % TidMod
           /\ tid' \in Tids
           /\ latency' = [latency EXCEPT ![tid'] = clock]
           /\ UNCHANGED clock

Tick == /\ clock' = clock + 1
        /\ UNCHANGED <<latency, tid>>

Next == Request \/ Tick

Spec == Init /\ [][Next]_vars

=============================================================================
