----------------------------- MODULE NodeSetup ------------------------------
(***************************************************************************)
(* How nodes come to be: NodeFactory chooses an ID and opens sockets, the  *)
(* constructors of OpenCyphal and Node set up the transmission queues, the *)
(* subscriptions and the schedule, addTransceiver adds the redundant       *)
(* interfaces, StartNode puts the node online.  From then on the scheduler *)
(* publishes into the queue of every slot.                                 *)
(***************************************************************************)
EXTENDS Integers, Sequences, FiniteSetsExt

CONSTANTS
  Names,            \* names of SocketCAN interfaces
  Missing,          \* those of them that do not exist
  Ids,              \* node IDs a caller asks for
  GivenIds,         \* lists of used node IDs a factory is constructed with
  Draws,            \* what a new default_random_engine draws, in its order
  Factor,           \* CAN_REDUNDANCY_FACTOR
  MaxInterfaces, MaxNodes,   \* bounds
  MaxFrames,        \* bound: frames of a queue
  MaxBusy           \* bound: nodes that have frames at the same time

ASSUME SetupAssumption ==
  /\ Missing \subseteq Names
  /\ Ids \subseteq Nat
  /\ GivenIds \subseteq Seq(Nat)
  /\ Draws \in Seq(Nat) /\ Len(Draws) >= 2
  /\ Factor \in Nat \ {0}
  /\ MaxFrames \in Nat

VARIABLES
  used_ids_,                \* of the factory
  socket_can_interfaces_,   \* of the factory
  sockets,                  \* the open file descriptors: the name of each
  nodes,                    \* the nodes, in the order of their creation
  making,                   \* the latency node in the making, the last of nodes
  unjoined                  \* the interfaces it has still to be given

vars == <<used_ids_, socket_can_interfaces_, sockets, nodes, making, unjoined>>

Slots == 1..Factor
NoTransceiver == [name |-> "none", fd |-> -1]
Uninitialized == -1
Free == [id |-> -1]         \* a node that was destroyed
Alive == {i \in DOMAIN nodes : nodes[i] # Free}

-----------------------------------------------------------------------------
(* fault: that the interface is not there goes unnoticed *)
OpenedRegardless(open, name) ==
  [name |-> name, fd |-> Min((0..Cardinality(DOMAIN open)) \ DOMAIN open)]

(* socketcanOpen: the lowest free descriptor, or a negative error          *)
Opened(open, name) ==
  IF name \in Missing THEN [name |-> name, fd |-> -19]
  ELSE [name |-> name, fd |-> Min((0..Cardinality(DOMAIN open)) \ DOMAIN open)]

WithOpen(open, t) ==
  IF t.fd < 0 THEN open
  ELSE [fd \in DOMAIN open \cup {t.fd} |-> IF fd = t.fd THEN t.name ELSE open[fd]]

(* fault: a transceiver that found no slot stays open *)
ClosedNever(open, ts) == open

(* ~SocketCANTransceiver of each of ts: close(socket_), also of an error   *)
Closed(open, ts) == [fd \in DOMAIN open \ {t.fd : t \in ts} |-> open[fd]]

(* fault: a slot that is taken counts, too *)
VacantAny(node) == Slots

(* the slots that hold a null pointer *)
Vacant(node) == {k \in Slots : node.transceiver_[k] = NoTransceiver}

(* fault: every queue is made anew *)
addTransceiverAfresh(node, t) ==
  IF Vacant(node) = {} THEN [node EXCEPT !.tx_queues_ = [k \in Slots |-> 0]]
  ELSE [node EXCEPT !.transceiver_[Min(Vacant(node))] = t,
                    !.tx_queues_ = [k \in Slots |-> 0]]

(* OpenCyphal::addTransceiver: the first vacant slot gets it.  The loop    *)
(* goes on after the transceiver has been moved: later vacant slots get    *)
(* the null pointer that is left of it, and a new queue.  The frames of a  *)
(* queue that is replaced stay allocated.                                  *)
addTransceiver(node, t) ==
  IF Vacant(node) = {} THEN node
  ELSE [node EXCEPT !.transceiver_[Min(Vacant(node))] = t,
                    !.tx_queues_ = [k \in Slots |-> IF k \in Vacant(node) THEN 0 ELSE @[k]]]

(* make_unique<SocketCANTransceiver>, then addTransceiver; what was not    *)
(* taken is destroyed                                                      *)
Joined(both, name) ==
  LET t == Opened(both.sockets, name)
      open == WithOpen(both.sockets, t)
  IN [node    |-> addTransceiver(both.node, t),
      sockets |-> IF Vacant(both.node) = {} THEN Closed(open, {t}) ELSE open]

(* The constructors of OpenCyphal and Node: one transceiver, one queue     *)
(* with it, a subscription, the heartbeat.                                 *)
Constructed(id, t, random) ==
  [id           |-> id,
   random       |-> random,
   from         |-> <<t.name>>,
   transceiver_ |-> [k \in Slots |-> IF k = 1 THEN t ELSE NoTransceiver],
   tx_queues_   |-> [k \in Slots |-> IF k = 1 THEN 0 ELSE Uninitialized],
   allocated    |-> [k \in Slots |-> 0],
   late         |-> FALSE,
   subscribers_ |-> <<"GetInfo request">>,
   schedule_    |-> <<"heartbeat">>,
   online_      |-> FALSE]

(* A node of the first interface: the sockets that are open then, too.  An *)
(* interface has to be there: the factory takes the first unasked.         *)
Create(id, random) ==
  /\ making = "nothing" /\ Len(nodes) < MaxNodes /\ socket_can_interfaces_ # <<>>
  /\ LET t == Opened(sockets, socket_can_interfaces_[1])
     IN /\ nodes' = Append(nodes, Constructed(id, t, random))
        /\ sockets' = WithOpen(sockets, t)
  /\ used_ids_' = Append(used_ids_, id)
  /\ UNCHANGED socket_can_interfaces_

-----------------------------------------------------------------------------
(* NodeFactory() and NodeFactory(used_ids, size) *)
Init ==
  /\ used_ids_ \in GivenIds
  /\ socket_can_interfaces_ = <<>>
  /\ sockets = <<>>
  /\ nodes = <<>>
  /\ making = "nothing"
  /\ unjoined = <<>>

AddSocketCanInterface ==
  /\ making = "nothing"
  /\ Len(socket_can_interfaces_) < MaxInterfaces
  /\ \E name \in Names :
       socket_can_interfaces_' = Append(socket_can_interfaces_, name)
  /\ UNCHANGED <<used_ids_, sockets, nodes, making, unjoined>>

(* CreateNode(node_id) *)
CreateNodeOf ==
  /\ \E id \in Ids : Create(id, FALSE)
  /\ UNCHANGED <<making, unjoined>>

(* CreateNode(): the engine is new on every call and draws the same        *)
(* numbers; the loop around the comparison ends after its first round      *)
RandomId == IF Draws[1] \in Range(used_ids_) THEN Draws[2] ELSE Draws[1]

CreateNode ==
  /\ Create(RandomId, TRUE)
  /\ UNCHANGED <<making, unjoined>>

(* CreateLatencyNode, called for either kind of latency node: the other    *)
(* interfaces are joined one by one                                        *)
CreateLatencyNode ==
  /\ \E id \in Ids : Create(id, FALSE)
  /\ making' \in {"request node", "response node"}
  /\ unjoined' = Tail(socket_can_interfaces_)

(* one round of its loop *)
JoinNext ==
  /\ unjoined # <<>>
  /\ unjoined' = Tail(unjoined)
  /\ LET i == Len(nodes)
         both == Joined([node |-> nodes[i], sockets |-> sockets], Head(unjoined))
     IN /\ nodes' = [nodes EXCEPT ![i] = [both.node EXCEPT !.from = Append(@, Head(unjoined))]]
        /\ sockets' = both.sockets
  /\ UNCHANGED <<used_ids_, socket_can_interfaces_, making>>

(* what the two callers do with the node *)
CreateLatencyRequestNode ==
  /\ making = "request node" /\ unjoined = <<>>
  /\ nodes' = [nodes EXCEPT ![Len(nodes)].subscribers_ = Append(@, "latency response"),
                            ![Len(nodes)].schedule_ = Append(@, "latency measurement")]
  /\ making' = "nothing"
  /\ UNCHANGED <<used_ids_, socket_can_interfaces_, sockets, unjoined>>

CreateLatencyResponseNode ==
  /\ making = "response node" /\ unjoined = <<>>
  /\ nodes' = [nodes EXCEPT ![Len(nodes)].subscribers_ = Append(@, "latency request")]
  /\ making' = "nothing"
  /\ UNCHANGED <<used_ids_, socket_can_interfaces_, sockets, unjoined>>

(* What an application does with a node, one call at a time. *)
Idle == making = "nothing" /\ UNCHANGED <<used_ids_, socket_can_interfaces_, making, unjoined>>

(* It adds a transceiver.  late: a queue of a vacant slot had frames then. *)
Attach(i, name) ==
  LET both == Joined([node |-> nodes[i], sockets |-> sockets], name)
      replaced == {k \in Vacant(nodes[i]) : nodes[i].tx_queues_[k] > 0}
  IN /\ nodes' = [nodes EXCEPT ![i] = [both.node EXCEPT !.late = @ \/ replaced # {}]]
     /\ sockets' = both.sockets

StartNode(i) ==
  /\ nodes' = [nodes EXCEPT ![i].online_ = TRUE]
  /\ UNCHANGED sockets

(* A task of the node publishes: a frame into each queue.  What a push     *)
(* into a queue that was never initialized does is not followed.           *)
Publish(i) ==
  /\ nodes[i].online_
  /\ \A k \in Slots : nodes[i].tx_queues_[k] \in 0..(MaxFrames - 1)
  /\ Cardinality({i} \cup {j \in Alive : Range(nodes[j].allocated) # {0}}) <= MaxBusy
  /\ nodes' = [nodes EXCEPT ![i].tx_queues_ = [k \in Slots |-> @[k] + 1],
                            ![i].allocated = [k \in Slots |-> @[k] + 1]]
  /\ UNCHANGED sockets

(* HandleTxRxQueues sends a frame of one queue, and frees it. *)
Send(i, k) ==
  /\ nodes[i].transceiver_[k].fd >= 0
  /\ nodes[i].tx_queues_[k] > 0
  /\ nodes' = [nodes EXCEPT ![i].tx_queues_[k] = @ - 1, ![i].allocated[k] = @ - 1]
  /\ UNCHANGED sockets

(* ~Node *)
Destroy(i) ==
  /\ nodes' = [nodes EXCEPT ![i] = Free]
  /\ sockets' = Closed(sockets, Range(nodes[i].transceiver_))

Use ==
  /\ Idle
  /\ \E i \in Alive :
       \/ \E name \in Names : Attach(i, name)
       \/ StartNode(i) \/ Publish(i) \/ Destroy(i)
       \/ \E k \in Slots : Send(i, k)

Next ==
  \/ AddSocketCanInterface
  \/ CreateNodeOf \/ CreateNode \/ CreateLatencyNode
  \/ JoinNext \/ CreateLatencyRequestNode \/ CreateLatencyResponseNode
  \/ Use

Spec == Init /\ [][Next]_vars

-----------------------------------------------------------------------------
(* The state of a node (OpenCyphal.h, Node.h).                             *)
Transceivers == [name : Names, fd : Nat \cup {-19}] \cup {NoTransceiver}

Node ==
  [id : Nat, random : BOOLEAN, from : Seq(Names),
   transceiver_ : [Slots -> Transceivers],
   tx_queues_ : [Slots -> {Uninitialized} \cup 0..MaxFrames],
   allocated : [Slots -> Nat], late : BOOLEAN,
   subscribers_ : Seq({"GetInfo request", "latency request", "latency response"}),
   schedule_ : Seq({"heartbeat", "latency measurement"}),
   online_ : BOOLEAN]

(* The state of the factory and of each node; an open socket is bound to   *)
(* an interface that exists, and the ID of a node is noted as used.        *)
TypeOK ==
  /\ used_ids_ \in Seq(Nat)
  /\ socket_can_interfaces_ \in Seq(Names)
  /\ \A fd \in DOMAIN sockets : fd \in Nat /\ sockets[fd] \in Names \ Missing
  /\ nodes \in Seq(Node \cup {Free})
  /\ \A i \in Alive : nodes[i].id \in Range(used_ids_)
  /\ making \in {"nothing", "request node", "response node"}
  /\ unjoined \in Seq(Names)
  /\ making = "nothing" => unjoined = <<>>

(* A node made of as many interfaces as there are slots, or more, serves   *)
(* every slot, the first interface in the first: no slot is left with a    *)
(* null pointer or with a queue never initialized, though addTransceiver   *)
(* goes on with the pointer it has moved from (OpenCyphal.cpp:66-73), so   *)
(* HandleTxRxQueues and Publish never meet one.                            *)
EverySlotServed ==
  \A i \in Alive : Len(nodes[i].from) >= Factor =>
    \A k \in Slots : /\ nodes[i].transceiver_[k].name = nodes[i].from[k]
                     /\ nodes[i].tx_queues_[k] # Uninitialized

(* Every open socket belongs to one slot of one node, and is bound to the  *)
(* interface that slot names; one that found no slot is closed, and a      *)
(* destroyed node leaves none and closes no other node's                   *)
(* (SocketCANTransceiver.cpp:24-28).                                       *)
SocketsOwned ==
  \A fd \in DOMAIN sockets \cup UNION {{nodes[i].transceiver_[k].fd : k \in Slots} : i \in Alive} :
    fd >= 0 =>
      LET owners == {o \in Alive \X Slots : nodes[o[1]].transceiver_[o[2]].fd = fd}
      IN /\ Cardinality(owners) = 1
         /\ fd \in DOMAIN sockets
         /\ \A o \in owners : nodes[o[1]].transceiver_[o[2]].name = sockets[fd]

(* a queue that was never initialized has no frames *)
Frames(queue) == IF queue = Uninitialized THEN 0 ELSE queue

(* The blocks a node has allocated for a queue are the frames in it:       *)
(* nothing leaks as long as no transceiver is added while a slot without   *)
(* one already holds frames.  (Then addTransceiver replaces a queue that   *)
(* has frames, OpenCyphal.cpp:70.)                                         *)
FramesAccounted ==
  \A i \in Alive : ~nodes[i].late =>
    \A k \in Slots : nodes[i].allocated[k] = Frames(nodes[i].tx_queues_[k])

(* A node with a random ID does not get one that is used: NodeFactory      *)
(* keeps a "List of already used node ids" (NodeFactory.h:105) and         *)
(* CreateNode redraws an ID it finds there (NodeFactory.cpp:34-42).        *)
RandomIdsAreNew ==
  \A i \in Alive : nodes[i].random => \A j \in Alive \ {i} : nodes[i].id # nodes[j].id

=============================================================================
