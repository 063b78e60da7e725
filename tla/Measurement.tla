---------------------------- MODULE Measurement -----------------------------
(***************************************************************************)
(* A latency measurement as the nodes run it: the requester is a node of   *)
(* Scheduler, whose latency task makes the requests of Latency, and which  *)
(* reads the responses in HandleTxRxQueues once a check has come to its    *)
(* end, with the sample of that check (App/main.cpp:61-73).  The responder *)
(* and what lies between the two nodes are those of Latency.               *)
(***************************************************************************)
EXTENDS Scheduler, Sequences

CONSTANTS
  CAN_REDUNDANCY_FACTOR,  \* Macros.h: number of interfaces
  TidTimeout,             \* CANARD_DEFAULT_TRANSFER_ID_TIMEOUT_USEC
  MaxDelay                \* the longest time from publishing a frame to reading it

VARIABLES
  sent,       \* history: when each request was sent
  requests,   \* per interface: requests on their way, as [req, at]
  responses,  \* per interface: responses on their way, as [req, at]
  served,     \* the responder's session for requests
  heard,      \* the requester's session for responses
  accepted,   \* history: the last request the responder accepted
  measured    \* history: the last measurement of the requester

(* clock and latency_ are those of the scheduler, and so is what its       *)
(* timing leaves of the interval between two stamps                        *)
Exchanging == INSTANCE Latency WITH TidMod <- WireMod

exchange == <<sent, requests, responses, served, heard, accepted, measured>>

MeasuringVars == <<vars, exchange>>

MeasuringInit == Init /\ Exchanging!Init

-----------------------------------------------------------------------------
(* Publish of the latency task: a frame into the queue of every interface. *)
(* The clock is not asked whether the last request is long enough ago.     *)
PublishRequest ==
  LET n == Len(sent) + 1
  IN /\ sent' = Append(sent, clock)
     /\ requests' = [i \in Exchanging!Ifaces |->
                       Append(requests[i], [req |-> n, at |-> clock])]
     /\ UNCHANGED <<responses, served, heard, accepted, measured>>

(* a task is run; that of another kind publishes what nobody measures *)
RunAnyTask ==
  /\ RunTask
  /\ IF Kind[cur] = "latency" THEN PublishRequest ELSE UNCHANGED exchange

(* the other steps of the loop, and of the clock *)
RunNoTask ==
  /\ StartNode \/ CheckScheduler \/ SkipTask \/ Tick \/ Leap
  /\ UNCHANGED exchange

(* HandleTxRxQueues of the requester reads a response, and stamps the      *)
(* frame with the sample of its turn                                       *)
HandleResponse ==
  /\ pc = "loop"
  /\ \E i \in Exchanging!Ifaces : Exchanging!ReadResponse(i, monotonic_time)
  /\ UNCHANGED vars

(* what the responder does, and what becomes of frames on their way *)
Elsewhere ==
  /\ \E i \in Exchanging!Ifaces : \/ Exchanging!ReceiveRequest(i)
                                  \/ Exchanging!LoseRequest(i)
                                  \/ Exchanging!LoseResponse(i)
  /\ UNCHANGED vars

MeasuringNext == RunAnyTask \/ RunNoTask \/ HandleResponse \/ Elsewhere

MeasuringSpec == MeasuringInit /\ [][MeasuringNext]_MeasuringVars

-----------------------------------------------------------------------------
(* What Latency assumes of its requester holds of the scheduler as long as *)
(* its clock is not set: the requests it makes, with the transfer IDs, the *)
(* stamps and the spacing that Latency gives them, and responses read with *)
(* a sample no older than a turn of the loop (Node.cpp:76-85,              *)
(* TLatencyMeasurement.cpp:19-21, LatencyMeasurementNode.cpp:36-43).       *)
ImplementsLatency == Exchanging!Spec

=============================================================================
