----------------------------- MODULE OpenCyphal -----------------------------
(***************************************************************************)
(* One OpenCyphal instance (src/OpenCyphal/OpenCyphal.cpp) with its        *)
(* redundant interfaces: Publish puts a transfer in the queue of every     *)
(* interface, HandleTxRxQueues moves frames between the queues and the     *)
(* sockets, and a received request is answered from inside that call.      *)
(* One step is one call of libcanard or of the transceiver; the sockets,   *)
(* the bus and the clock take their own steps in between.                  *)
(***************************************************************************)
EXTENDS CanardTx, Sequences

CONSTANTS
  CAN_REDUNDANCY_FACTOR,  \* Macros.h: number of interfaces
  HeapBlocks,             \* blocks the O1Heap arena can hand out
  Sources,                \* (subscription, remote node) pairs that may be heard
  MessageRanks,           \* ranks of the transfers the tasks publish
  ServiceRank,            \* rank of the responses
  Lifetimes,              \* tx deadline minus current time, of published transfers
  Unlimited,              \* {0} if a transfer may have no deadline, otherwise {}
  ResponseLifetime,       \* MEGA: tx deadline of a response minus its timestamp
  MaxTime,                \* bound: last value of the clock
  RxBufferLen             \* bound: frames a socket buffers

ASSUME OpenCyphalAssumption ==
  /\ CAN_REDUNDANCY_FACTOR \in Nat \ {0}
  /\ HeapBlocks \in Nat
  /\ IsFiniteSet(Sources) /\ Sources # {}
  /\ Ranks = MessageRanks \cup {ServiceRank}
  /\ Lifetimes \subseteq Nat
  /\ Unlimited \subseteq {0}
  /\ ResponseLifetime \in Nat
  /\ MaxTime \in Nat
  /\ RxBufferLen \in Nat

Ifaces == 0..(CAN_REDUNDANCY_FACTOR - 1)

(***************************************************************************)
(* What a socket can hand to ReceiveCanardFrame.  For "dropped" (the       *)
(* loop-back of an own frame, or no extended data frame) socketcanPop      *)
(* returns 0 as if nothing had arrived; canardRxAccept returns 0 for       *)
(* "ignored" (not subscribed, not for this node, or a duplicate) and 1 for *)
(* "transfer" (a subscribed one-frame transfer, a request for instance).   *)
(***************************************************************************)
FrameKinds == {"dropped", "ignored", "transfer"}

VARIABLES
  pc,        \* "idle" between calls, else the part of the call being run
  ifidx,     \* the loop variable ifidx
  now,       \* monotonic_time, as the main loop last sampled it
  npub,      \* number of the last transfer pushed
  transfer,  \* arguments of the Publish call in progress
  retval,    \* retval of the Publish call in progress
  ret,       \* result of the last HandleTxRxQueues call
  txq,       \* tx_queues_
  heap,      \* heap_arena: the blocks held by queued frames
  sessions,  \* heap_arena: the receive sessions, one block each, never freed
  oom,       \* O1HeapDiagnostics.oom_count > 0
  drv,       \* what a write to the socket of each interface does now
  rxbuf,     \* frames each socket has buffered
  wire       \* history: frames handed to each socket

pubVars  == <<npub, transfer, retval>>
memVars  == <<txq, heap, sessions, oom>>
sockVars == <<drv, rxbuf, wire>>
vars == <<pc, ifidx, now, ret, pubVars, memVars, sockVars>>

NoTransfer == [rank |-> ServiceRank, deadline |-> 0, frames |-> 0]

-----------------------------------------------------------------------------
(* Memory: every queued frame and every receive session is one block.      *)

Free(sess) == HeapBlocks - Cardinality(heap) - Cardinality(sess)

(* canardTxPush queues all frames of a transfer or none of them *)
Accepts(i, frames, sess) == /\ Fits(txq[i], frames)
                            /\ Cardinality(frames) <= Free(sess)

(* canardTxPush on interface i, while the sessions in sess are allocated *)
Push(i, frames, sess) ==
  /\ txq' = [txq EXCEPT ![i] = IF Accepts(i, frames, sess) THEN @ \cup frames ELSE @]
  /\ heap' = IF Accepts(i, frames, sess) THEN heap \cup ({i} \X frames) ELSE heap
  /\ oom' = (oom \/ (Fits(txq[i], frames) /\ Cardinality(frames) > Free(sess)))

(* bounds of the model: no transfer is pushed beyond them *)
InBounds(deadline) == npub < MaxTransfers /\ deadline <= MaxTime

-----------------------------------------------------------------------------
Init == /\ pc = "idle"
        /\ ifidx = 0
        /\ now = 1
        /\ npub = 0
        /\ transfer = NoTransfer
        /\ retval = 0
        /\ ret = 0
        /\ txq = [i \in Ifaces |-> {}]
        /\ heap = {}
        /\ sessions = {}
        /\ oom = FALSE
        /\ drv = [i \in Ifaces |-> "ready"]
        /\ rxbuf = [i \in Ifaces |-> <<>>]
        /\ wire = [i \in Ifaces |-> <<>>]

-----------------------------------------------------------------------------
(* Publish on all interfaces, called by a task between two calls of        *)
(* HandleTxRxQueues.                                                       *)

PublishBegin(rank, n, deadline) ==
  /\ pc = "idle"
  /\ InBounds(deadline)
  /\ pc' = "publish"
  /\ ifidx' = 0
  /\ npub' = npub + 1
  /\ transfer' = [rank |-> rank, deadline |-> deadline, frames |-> n]
  /\ retval' = 0
  /\ UNCHANGED <<now, ret, memVars, sockVars>>

(* one pass of the loop: the result of the earlier passes is overwritten *)
PublishOnInterface ==
  LET frames == FramesOf(npub, transfer.frames, transfer.rank, transfer.deadline)
  IN /\ pc = "publish"
     /\ ifidx < CAN_REDUNDANCY_FACTOR
     /\ Push(ifidx, frames, sessions)
     /\ retval' = IF Accepts(ifidx, frames, sessions) THEN transfer.frames ELSE -1
     /\ ifidx' = ifidx + 1
     /\ UNCHANGED <<pc, now, ret, npub, transfer, sessions, sockVars>>

(* every caller ignores the result *)
PublishReturn ==
  /\ pc = "publish"
  /\ ifidx = CAN_REDUNDANCY_FACTOR
  /\ pc' = "idle"
  /\ ifidx' = 0
  /\ transfer' = NoTransfer
  /\ retval' = 0
  /\ UNCHANGED <<now, ret, npub, memVars, sockVars>>

-----------------------------------------------------------------------------
(* HandleTxRxQueues: pc is "tx" in the send loop and "rx" at the receive   *)
(* of interface ifidx.                                                     *)

HandleTxRxQueues ==
  /\ pc = "idle"
  /\ pc' = "tx"
  /\ ifidx' = 0
  /\ UNCHANGED <<now, ret, pubVars, memVars, sockVars>>

Return(result) == /\ pc' = "idle"
                  /\ ifidx' = 0
                  /\ ret' = result

(* fault: the loop runs one interface too far *)
NextInterfacePast == IF ifidx < CAN_REDUNDANCY_FACTOR
                     THEN pc' = "tx" /\ ifidx' = ifidx + 1 /\ UNCHANGED ret
                     ELSE Return(0)

(* fault: an interface is served again until it has nothing to receive *)
NextInterfaceAgain == pc' = "tx" /\ UNCHANGED <<ifidx, ret>>

NextInterface == IF ifidx + 1 < CAN_REDUNDANCY_FACTOR
                 THEN pc' = "tx" /\ ifidx' = ifidx + 1 /\ UNCHANGED ret
                 ELSE Return(0)

(* fault: the frame is taken from the queue and not freed *)
PopAndLeak(x) == /\ txq' = [txq EXCEPT ![ifidx] = @ \ {x}]
                 /\ UNCHANGED heap

(* canardTxPop, and memory_free of what it returned *)
PopAndFree(x) == /\ txq' = [txq EXCEPT ![ifidx] = @ \ {x}]
                 /\ heap' = heap \ {<<ifidx, x>>}

(* fault: the loop goes on without dropping the expired frame *)
TxExpireKept(x) ==
  /\ ~LiveAt(x, now)
  /\ UNCHANGED <<pc, ifidx, ret, txq, heap, drv, rxbuf, wire>>

(* fault: the loop ends at the first expired frame *)
TxExpireBreak(x) ==
  /\ ~LiveAt(x, now)
  /\ pc' = "rx"
  /\ UNCHANGED <<ifidx, ret, txq, heap, drv, rxbuf, wire>>

(* the send loop: x is the frame canardTxPeek returned *)
TxExpire(x) ==
  /\ ~LiveAt(x, now)
  /\ PopAndFree(x)
  /\ UNCHANGED <<pc, ifidx, ret, drv, rxbuf, wire>>

(* fault: the frame stays queued after it was sent *)
TxSendKept(x) ==
  /\ LiveAt(x, now)
  /\ drv[ifidx] = "ready"
  /\ wire' = [wire EXCEPT ![ifidx] = Append(@, x)]
  /\ rxbuf' = [rxbuf EXCEPT ![ifidx] =
                 IF Len(@) < RxBufferLen THEN Append(@, "dropped") ELSE @]
  /\ UNCHANGED <<pc, ifidx, ret, txq, heap, drv>>

(* the kernel loops the frame back (CAN_RAW_RECV_OWN_MSGS) if it has room *)
TxSend(x) ==
  /\ LiveAt(x, now)
  /\ drv[ifidx] = "ready"
  /\ PopAndFree(x)
  /\ wire' = [wire EXCEPT ![ifidx] = Append(@, x)]
  /\ rxbuf' = [rxbuf EXCEPT ![ifidx] =
                 IF Len(@) < RxBufferLen THEN Append(@, "dropped") ELSE @]
  /\ UNCHANGED <<pc, ifidx, ret, drv>>

(* fault: the frame a full socket refuses is dropped *)
TxFullDropped(x) ==
  /\ LiveAt(x, now)
  /\ drv[ifidx] = "full"
  /\ PopAndFree(x)
  /\ pc' = "rx"
  /\ UNCHANGED <<ifidx, ret, drv, rxbuf, wire>>

TxFull(x) ==
  /\ LiveAt(x, now)
  /\ drv[ifidx] = "full"
  /\ pc' = "rx"
  /\ UNCHANGED <<ifidx, ret, txq, heap, drv, rxbuf, wire>>

(* fault: the frame whose write fails is dropped *)
TxFailDropped(x) ==
  /\ LiveAt(x, now)
  /\ drv[ifidx] = "failing"
  /\ PopAndFree(x)
  /\ Return(1)
  /\ UNCHANGED <<drv, rxbuf, wire>>

(* the negated errno is returned negated again: a positive number *)
TxFail(x) ==
  /\ LiveAt(x, now)
  /\ drv[ifidx] = "failing"
  /\ Return(1)
  /\ UNCHANGED <<txq, heap, drv, rxbuf, wire>>

TxHead == /\ pc = "tx"
          /\ \E x \in txq[ifidx] : /\ IsHead(txq[ifidx], x)
                                   /\ TxExpire(x) \/ TxSend(x) \/ TxFull(x) \/ TxFail(x)
          /\ UNCHANGED <<now, pubVars, sessions, oom>>

TxEmpty == /\ pc = "tx"
           /\ txq[ifidx] = {}
           /\ pc' = "rx"
           /\ UNCHANGED <<ifidx, now, ret, pubVars, memVars, sockVars>>

(* no frame, or one socketcanPop drops: the loop over the interfaces ends *)
RxNothing ==
  /\ pc = "rx"
  /\ \/ rxbuf[ifidx] = <<>> /\ UNCHANGED rxbuf
     \/ /\ rxbuf[ifidx] # <<>>
        /\ Head(rxbuf[ifidx]) = "dropped"
        /\ rxbuf' = [rxbuf EXCEPT ![ifidx] = Tail(@)]
  /\ Return(0)
  /\ UNCHANGED <<now, pubVars, memVars, drv, wire>>

RxFail == /\ pc = "rx"
          /\ drv[ifidx] = "failing"
          /\ Return(1)
          /\ UNCHANGED <<now, pubVars, memVars, sockVars>>

Receive(kind) == /\ pc = "rx"
                 /\ rxbuf[ifidx] # <<>>
                 /\ Head(rxbuf[ifidx]) = kind
                 /\ rxbuf' = [rxbuf EXCEPT ![ifidx] = Tail(@)]
                 /\ NextInterface
                 /\ UNCHANGED <<now, transfer, retval, drv, wire>>

RxIgnored == /\ Receive("ignored")
             /\ UNCHANGED <<npub, memVars>>

(* canardRxAccept finds no memory for the session of a new source *)
RxNoMemory(s) == /\ Receive("transfer")
                 /\ s \notin sessions
                 /\ Free(sessions) < 1
                 /\ oom' = TRUE
                 /\ UNCHANGED <<npub, txq, heap, sessions>>

(* a transfer is received, from a known source or a new one *)
RxAccepted(s) == /\ Receive("transfer")
                 /\ s \in sessions \/ Free(sessions) >= 1
                 /\ sessions' = sessions \cup {s}

(* the receivers do not answer it *)
RxUnanswered(s) == /\ RxAccepted(s)
                   /\ UNCHANGED <<npub, txq, heap, oom>>

(* ProcessReceivedTransfer answers a request, on the same interface only *)
RxAnswered(s, n) ==
  /\ InBounds(now + ResponseLifetime)
  /\ RxAccepted(s)
  /\ npub' = npub + 1
  /\ Push(ifidx, FramesOf(npub + 1, n, ServiceRank, now + ResponseLifetime), sessions')

-----------------------------------------------------------------------------
(* The clock is sampled before every call; sockets and peers never stop.   *)

Tick == /\ pc = "idle"
        /\ now < MaxTime
        /\ now' = now + 1
        /\ UNCHANGED <<pc, ifidx, ret, pubVars, memVars, sockVars>>

DriverChange(i, state) ==
  /\ drv[i] # state
  /\ drv' = [drv EXCEPT ![i] = state]
  /\ UNCHANGED <<pc, ifidx, now, ret, pubVars, memVars, rxbuf, wire>>

Arrive(i, kind) ==
  /\ Len(rxbuf[i]) < RxBufferLen
  /\ rxbuf' = [rxbuf EXCEPT ![i] = Append(@, kind)]
  /\ UNCHANGED <<pc, ifidx, now, ret, pubVars, memVars, drv, wire>>

-----------------------------------------------------------------------------
Publish == \E rank \in MessageRanks, n \in 1..MaxFrames,
              deadline \in {now + l : l \in Lifetimes} \cup Unlimited :
             PublishBegin(rank, n, deadline)

RxTransfer == \E s \in Sources : \/ RxNoMemory(s)
                                 \/ RxUnanswered(s)
                                 \/ \E n \in 1..MaxFrames : RxAnswered(s, n)

(* the rest of a call that has begun *)
CallStep == \/ PublishOnInterface \/ PublishReturn
            \/ TxHead \/ TxEmpty
            \/ RxNothing \/ RxFail \/ RxIgnored \/ RxTransfer

Environment == \/ Tick
               \/ \E i \in Ifaces : \/ \E s \in {"ready", "full", "failing"} : DriverChange(i, s)
                                    \/ \E k \in FrameKinds : Arrive(i, k)

Next == Publish \/ HandleTxRxQueues \/ CallStep \/ Environment

Spec == Init /\ [][Next]_vars

(***************************************************************************)
(* The main loop never blocks: it finishes the calls it begins, calls      *)
(* HandleTxRxQueues again and again, and samples a clock that advances.    *)
(* Nothing is assumed of the sockets, the peers, or of tasks that publish. *)
(***************************************************************************)
Fairness == WF_vars(CallStep) /\ WF_vars(HandleTxRxQueues) /\ SF_vars(Tick)

FairSpec == Spec /\ Fairness

-----------------------------------------------------------------------------
(* Safety                                                                  *)

TypeOK ==
  /\ pc \in {"idle", "publish", "tx", "rx"}
  /\ ifidx \in IF pc = "publish" THEN 0..CAN_REDUNDANCY_FACTOR ELSE Ifaces
  /\ now \in Nat
  /\ npub \in IF pc = "publish" THEN Transfers ELSE 0..MaxTransfers
  /\ transfer \in IF pc = "publish"
                  THEN [rank : MessageRanks, deadline : 0..MaxTime, frames : 1..MaxFrames]
                  ELSE {NoTransfer}
  /\ retval \in Int
  /\ ret \in {0, 1}
  /\ txq \in [Ifaces -> SUBSET Item]
  /\ heap \subseteq Ifaces \X Item
  /\ sessions \subseteq Sources
  /\ oom \in BOOLEAN
  /\ drv \in [Ifaces -> {"ready", "full", "failing"}]
  /\ rxbuf \in [Ifaces -> Seq(FrameKinds)]
  /\ wire \in [Ifaces -> Seq(Item)]

(* Every block of the arena a frame ever took is held by a frame still     *)
(* queued, and every queued frame holds its block: the pairing of push,    *)
(* pop and memory_free neither leaks nor frees twice (OpenCyphal.cpp:94).  *)
HeapOwned == heap = UNION { {i} \X txq[i] : i \in Ifaces }

OnWire(i) == { wire[i][p] : p \in DOMAIN wire[i] }

(* No frame is handed to a socket twice, whatever the retries after a full *)
(* queue or a failed write: a frame already sent is no longer queued.      *)
AtMostOnce ==
  \A i \in Ifaces : /\ txq[i] \cap OnWire(i) = {}
                    /\ \A p, q \in DOMAIN wire[i] : wire[i][p] = wire[i][q] => p = q

Preceding(x) == [x EXCEPT !.idx = @ - 1]

(* A receiver can assemble what it hears: on each interface a frame of a   *)
(* transfer follows the frame before it.  The deadline, a more urgent      *)
(* transfer or a failed call may cut a transfer short or spread it out,    *)
(* but leave no hole in it.                                                *)
FramesInOrder ==
  \A i \in Ifaces : \A p \in DOMAIN wire[i] :
     wire[i][p].idx > 1 => \E q \in 1..(p - 1) : wire[i][q] = Preceding(wire[i][p])

(* OpenCyphal.cpp:127: with room in the arena for full queues and for a    *)
(* session of every source, no allocation ever fails and Health stays      *)
(* nominal.                                                                *)
SizedHeapNeverOOM ==
  HeapBlocks >= CAN_REDUNDANCY_FACTOR * TxCapacity + Cardinality(Sources) => ~oom

(* The most steps the call in progress can still take: every interface     *)
(* costs one per queued frame, one for the end of its queue, one for its   *)
(* receive.                                                                *)
StepsLeft ==
  LET later == (CAN_REDUNDANCY_FACTOR - 1 - ifidx) * (TxCapacity + 2)
  IN CASE pc = "publish" -> CAN_REDUNDANCY_FACTOR - ifidx + 1
       [] pc = "tx"      -> later + Cardinality(txq[ifidx]) + 2
       [] pc = "rx"      -> later + 1
       [] pc = "idle"    -> 0

(* Whatever sockets and peers do meanwhile, and although a call may itself *)
(* queue answers, each of its steps brings it nearer to its end: neither   *)
(* the send loop (OpenCyphal.cpp:81) nor the one over the interfaces (77)  *)
(* goes round for nothing.  So a call takes a bounded number of steps, and *)
(* nothing but sockets changes beside them.                                *)
CallsWindDown ==
  [][pc # "idle" => \/ StepsLeft' < StepsLeft
                    \/ UNCHANGED <<pc, ifidx, now, ret, pubVars, memVars, wire>>]_vars

(***************************************************************************)
(* The sending side implements Outbox.  An expired frame that is still     *)
(* queued is pending no more; an interface the current Publish has not     *)
(* come to was not offered its transfer yet.                               *)
(***************************************************************************)
LiveQueue(i) == { x \in txq[i] : LiveAt(x, now) }

Offered(i) == IF pc = "publish" /\ ifidx <= i THEN npub - 1 ELSE npub

(* What AtMostOnce and FramesInOrder rest on.  A transfer an interface has *)
(* queued or sent was offered to it; and while a later frame of a transfer *)
(* can still be sent, the frame before it is queued or was sent.           *)
OrderInv ==
  \A i \in Ifaces :
    /\ \A x \in txq[i] \cup OnWire(i) : x.xfer <= Offered(i)
    /\ \A x \in txq[i] : x.idx > 1 /\ LiveAt(x, now)
                          => Preceding(x) \in txq[i] \cup OnWire(i)

Outbox == INSTANCE Outbox
            WITH Deadlines <- 0..MaxTime,
                 offered <- [i \in Ifaces |-> Offered(i)],
                 pending <- [i \in Ifaces |-> LiveQueue(i)],
                 sent <- wire

(* Frames leave an interface only alive, most urgent first and at most     *)
(* once; a full queue, a failed write or an early return loses none.       *)
ImplementsOutbox == Outbox!Spec

-----------------------------------------------------------------------------
(* Liveness                                                                *)

Queued(i, k) == \E x \in txq[i] : x.xfer = k

Visiting(i) == pc = "tx" /\ ifidx = i

Drains(i, k) == Queued(i, k) ~> ~Queued(i, k)

(* Every call returns: the send loop ends although nothing bounds how many *)
(* frames one call sends.                                                  *)
CallReturns == pc # "idle" ~> pc = "idle"

(* A transfer with a deadline leaves the queue of interface 0, sent or     *)
(* expired, whatever the sockets do: the loop starts there on every call.  *)
FirstInterfaceDrains == \A k \in Transfers : Drains(0, k)

(* On a later interface it is enough that the loop comes to it again and   *)
(* again: no early exit of another interface's pass keeps frames queued.   *)
VisitedInterfaceDrains ==
  \A i \in Ifaces \ {0} : []<>Visiting(i) => \A k \in Transfers : Drains(i, k)

(* OpenCyphal.cpp:98-100 and OpenCyphal.h:58,116: interfaces are served in *)
(* any order, and calling HandleTxRxQueues continuously publishes on all   *)
(* of them; at least while every socket accepts every frame.               *)
EveryInterfaceDrains ==
  (<>[] \A i \in Ifaces : drv[i] = "ready") =>
    \A i \in Ifaces, k \in Transfers : Drains(i, k)

-----------------------------------------------------------------------------
(* What the headers say of the results                                     *)

(* Node.h:93 and OpenCyphal.h:58: a Publish that returns a number of       *)
(* frames has put the transfer in the queue of every interface.            *)
PublishReport ==
  [][PublishReturn /\ retval > 0 => \A i \in Ifaces : Queued(i, npub)]_vars

=============================================================================
