------------------------------ MODULE Latency -------------------------------
(***************************************************************************)
(* Latency measurement between two nodes (src/TestUtilities): a task of    *)
(* the requester stamps latency_ and publishes a request on every          *)
(* interface, the responder answers each request it accepts on the         *)
(* interface it came by, and the requester subtracts the stamp when it     *)
(* accepts a response.  Requests and responses are frames that wait in     *)
(* queues and socket buffers, one line per interface, and may be lost      *)
(* there; the duplicates that redundancy makes are left to libcanard.      *)
(***************************************************************************)
EXTENDS CanardRx, Sequences

CONSTANTS
  CAN_REDUNDANCY_FACTOR,  \* Macros.h: number of interfaces
  Spacing,                \* the shortest time between the stamps of two requests
  Garbage,                \* what the memory of latency_ may hold at first
  MaxDelay,               \* the longest time from publishing a frame to reading it
  MaxLag,                 \* the longest time between two samples of the clock
  MaxTime                 \* bound: last value of the clock

ASSUME LatencyAssumption ==
  /\ CAN_REDUNDANCY_FACTOR \in Nat \ {0}
  /\ Spacing \in Nat
  /\ Garbage \subseteq Nat
  /\ MaxDelay \in Nat
  /\ MaxLag \in Nat
  /\ MaxTime \in Nat

Ifaces == 0..(CAN_REDUNDANCY_FACTOR - 1)

VARIABLES
  clock,      \* the clock both nodes read
  sent,       \* history: when each request was sent
  latency,    \* latency_ of the requester
  requests,   \* per interface: requests on their way, as [req, at]
  responses,  \* per interface: responses on their way, as [req, at]
  served,     \* the responder's session for requests
  heard,      \* the requester's session for responses
  accepted,   \* history: the last request the responder accepted
  measured    \* history: the last measurement of the requester

vars == <<clock, sent, latency, requests, responses, served, heard, accepted, measured>>

(* fault: the IDs wrap one too early for latency_ *)
TidEarlyWrap(n) == (n - 1) % (TidMod - 1)

(* the transfer ID of request n, and the slot of latency_ it is stamped in *)
Tid(n) == (n - 1) % TidMod

NothingMeasured == [req |-> 0, stamp |-> 0, at |-> 0]

Init ==
  /\ clock = 0
  /\ sent = <<>>
  /\ latency \in [Tids -> Garbage]
  /\ requests = [i \in Ifaces |-> <<>>]
  /\ responses = [i \in Ifaces |-> <<>>]
  /\ served = NoSession
  /\ heard = NoSession
  /\ accepted = 0
  /\ measured = NothingMeasured

-----------------------------------------------------------------------------
(* TLatencyMeasurement::Execute, as the scheduler runs it (Measurement):   *)
(* two stamps are an interval apart, less the turn of the loop by which    *)
(* the first of them may be later than its sample (Scheduler!Spacing)      *)
Request ==
  LET n == Len(sent) + 1
  IN /\ sent # <<>> => clock >= sent[Len(sent)] + Spacing
     /\ sent' = Append(sent, clock)
     /\ latency' = [latency EXCEPT ![Tid(n)] = clock]
     /\ requests' = [i \in Ifaces |-> Append(requests[i], [req |-> n, at |-> clock])]
     /\ UNCHANGED <<clock, responses, served, heard, accepted, measured>>

(* the responder answers on the interface of the request *)
Respond(i, n) ==
  responses' = [responses EXCEPT ![i] = Append(@, [req |-> n, at |-> clock])]

InTime(frame) == clock <= frame.at + MaxDelay

(* the samples that the turn in which a node reads may have begun with; it *)
(* began no earlier than the turn of the last transfer in the session      *)
Samples(session) == {ts \in 0..clock : session.ts <= ts /\ clock <= ts + MaxLag}

(* ProcessReceivedTransfer of the responder, if libcanard takes the frame, *)
(* which is stamped with the sample                                        *)
ReadRequest(i, ts) ==
  /\ requests[i] # <<>>
  /\ LET frame == Head(requests[i])
     IN /\ InTime(frame)
        /\ IF Accepts(served, Tid(frame.req), ts, i)
           THEN /\ served' = SessionAfter(served, Tid(frame.req), ts, i)
                /\ accepted' = frame.req
                /\ Respond(i, frame.req)
           ELSE UNCHANGED <<served, accepted, responses>>
  /\ requests' = [requests EXCEPT ![i] = Tail(@)]
  /\ UNCHANGED <<clock, sent, latency, heard, measured>>

ReceiveRequest(i) == \E ts \in Samples(served) : ReadRequest(i, ts)

(* ProcessReceivedTransfer of the requester: what is measured is the time  *)
(* of the clock, not of the sample                                         *)
ReadResponse(i, ts) ==
  /\ responses[i] # <<>>
  /\ LET frame == Head(responses[i])
     IN /\ InTime(frame)
        /\ IF Accepts(heard, Tid(frame.req), ts, i)
           THEN /\ heard' = SessionAfter(heard, Tid(frame.req), ts, i)
                /\ measured' = [req |-> frame.req, stamp |-> latency[Tid(frame.req)],
                                at |-> clock]
           ELSE UNCHANGED <<heard, measured>>
  /\ responses' = [responses EXCEPT ![i] = Tail(@)]
  /\ UNCHANGED <<clock, sent, latency, requests, served, accepted>>

ReceiveResponse(i) == \E ts \in Samples(heard) : ReadResponse(i, ts)

(* a frame expires in its queue, is refused by one, or is lost on the bus *)
LoseRequest(i) ==
  /\ requests[i] # <<>>
  /\ requests' = [requests EXCEPT ![i] = Tail(@)]
  /\ UNCHANGED <<clock, sent, latency, responses, served, heard, accepted, measured>>

LoseResponse(i) ==
  /\ responses[i] # <<>>
  /\ responses' = [responses EXCEPT ![i] = Tail(@)]
  /\ UNCHANGED <<clock, sent, latency, requests, served, heard, accepted, measured>>

Tick ==
  /\ clock < MaxTime
  /\ clock' = clock + 1
  /\ UNCHANGED <<sent, latency, requests, responses, served, heard, accepted, measured>>

(* the loops of both nodes poll sockets that have nothing for them *)
ReceiveNothing ==
  /\ \A i \in Ifaces : requests[i] = <<>> /\ responses[i] = <<>>
  /\ UNCHANGED vars

Next ==
  \/ Request \/ ReceiveNothing \/ Tick
  \/ \E i \in Ifaces : \/ ReceiveRequest(i) \/ LoseRequest(i)
                       \/ ReceiveResponse(i) \/ LoseResponse(i)

Spec == Init /\ [][Next]_vars

-----------------------------------------------------------------------------
Frames == [req : Nat \ {0}, at : Nat]

Sessions == [tid : Tids, ts : Nat, iface : Ifaces] \cup {NoSession}

TypeOK ==
  /\ clock \in Nat
  /\ sent \in Seq(Nat)
  /\ latency \in [Tids -> Nat]
  /\ requests \in [Ifaces -> Seq(Frames)]
  /\ responses \in [Ifaces -> Seq(Frames)]
  /\ served \in Sessions
  /\ heard \in Sessions
  /\ accepted \in Nat
  /\ measured \in [req : Nat, stamp : Nat, at : Nat]

(* OpenCyphal.cpp:98-101: duplicates are removed, in whichever order the   *)
(* interfaces are read.  It takes that no copy of a request is read later  *)
(* than the transfer-ID timeout, less the turn of the loop by which the    *)
(* sample of the first copy may be old: then the responder takes every     *)
(* request at most once, and none after a later one.  (It takes one when   *)
(* the session changes.)                                                   *)
RequestsInOrder ==
  [][MaxDelay + MaxLag <= TidTimeout /\ served' # served => accepted' > accepted]_vars

(* On the same terms the requester takes at most one response of each      *)
(* request, and no response to an older request after a newer one.         *)
MeasurementsInOrder ==
  [][MaxDelay + MaxLag <= TidTimeout /\ heard' # heard => measured'.req > measured.req]_vars

(* A response is measured against the stamp of its own request, if request *)
(* and response together do not take as long as the transfer IDs take to   *)
(* come round: latency_[transfer_id] is not asked whether it is still that *)
(* request's (LatencyMeasurementNode.cpp:38).                              *)
MeasuredAgainstOwnRequest ==
  2 * MaxDelay < TidMod * Spacing /\ measured.req # 0 =>
     measured.stamp = sent[measured.req]

(* A gap in the transfer IDs stops nobody: a request that is newer than    *)
(* the last one and comes by the same interface is taken, unless so many   *)
(* were lost that its ID looks like a repetition.                          *)
GapsAreBridged ==
  [][\A i \in Ifaces :
       ReceiveRequest(i) /\ served.iface = i
         /\ Head(requests[i]).req - accepted \in 1..(TidMod - 1)
           => accepted' = Head(requests[i]).req]_vars

-----------------------------------------------------------------------------
(* The requests of the responses that are on their way.                    *)
Answers == UNION { {responses[i][p].req : p \in DOMAIN responses[i]} : i \in Ifaces }

Exchange == INSTANCE Exchange WITH answers <- Answers

(* While every frame is read so long before the transfer-ID timeout, and   *)
(* an answer before its transfer ID comes round, interfaces, sessions and  *)
(* slots do not show: every measurement is that of the one exchange it is  *)
(* taken for (TLatencyMeasurement.cpp:21, LatencyMeasurementNode.cpp:19,   *)
(* 38).                                                                    *)
ImplementsExchange == Exchange!Spec

=============================================================================
