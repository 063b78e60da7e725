-------------------------- MODULE OpenCyphalProofs --------------------------
(***************************************************************************)
(* Theorems about OpenCyphal, for every number of interfaces, every queue  *)
(* and arena size, every set of sources, and every bound of the model.     *)
(***************************************************************************)
EXTENDS OpenCyphal, FiniteSetTheorems, TLAPS

-----------------------------------------------------------------------------
(* Facts about the operators the actions share.                            *)

(* Interfaces are numbered from 0, and there is a first one.               *)
LEMMA IfacesType == Ifaces \subseteq Nat /\ 0 \in Ifaces
BY OpenCyphalAssumption, SMT DEF Ifaces

(* A transfer's frames are items of the queue's type.                      *)
LEMMA FramesOfType ==
  ASSUME NEW k \in Transfers, NEW n \in 0..MaxFrames, NEW rank \in Ranks,
         NEW deadline \in Nat
  PROVE  FramesOf(k, n, rank, deadline) \subseteq Item
<1>1. SUFFICES ASSUME NEW j \in 1..n
               PROVE  [xfer |-> k, idx |-> j, rank |-> rank, deadline |-> deadline] \in Item
  BY <1>1 DEF FramesOf
<1>2. j \in 1..MaxFrames
  BY CanardTxAssumption, SMT
<1> QED
  BY <1>2 DEF Item

(* The arguments of a Publish in progress have the types of a transfer.    *)
LEMMA PublishArguments ==
  ASSUME TypeOK, pc = "publish"
  PROVE  /\ npub \in Transfers
         /\ transfer.rank \in Ranks
         /\ transfer.deadline \in Nat /\ transfer.deadline \in 0..MaxTime
         /\ transfer.frames \in 0..MaxFrames /\ transfer.frames \in 1..MaxFrames
<1>1. transfer \in [rank : MessageRanks, deadline : 0..MaxTime, frames : 1..MaxFrames]
  BY DEF TypeOK
<1>2. npub \in Transfers
  BY DEF TypeOK
<1> QED
  BY <1>1, <1>2, OpenCyphalAssumption, CanardTxAssumption

(* Pushing items keeps the types of the queues and of the arena.           *)
LEMMA PushType ==
  ASSUME TypeOK, NEW i \in Ifaces, NEW frames \in SUBSET Item, NEW sess,
         Push(i, frames, sess)
  PROVE  /\ txq' \in [Ifaces -> SUBSET Item]
         /\ heap' \subseteq Ifaces \X Item
         /\ oom' \in BOOLEAN
<1>1. txq' \in [Ifaces -> SUBSET Item]
  <2>1. txq \in [Ifaces -> SUBSET Item]
    BY DEF TypeOK
  <2> QED
    BY <2>1 DEF Push
<1>2. heap' \subseteq Ifaces \X Item
  <2>1. heap \subseteq Ifaces \X Item
    BY DEF TypeOK
  <2>2. heap' = heap \/ heap' = heap \cup ({i} \X frames)
    BY DEF Push
  <2> QED
    BY <2>1, <2>2
<1>3. oom' \in BOOLEAN
  BY DEF Push, TypeOK
<1> QED
  BY <1>1, <1>2, <1>3

(* Popping an item keeps them too.                                         *)
LEMMA PopType ==
  ASSUME TypeOK, NEW x, PopAndFree(x)
  PROVE  /\ txq' \in [Ifaces -> SUBSET Item]
         /\ heap' \subseteq Ifaces \X Item
BY DEF TypeOK, PopAndFree

(* After a call returned, or on the next interface, the program counter    *)
(* and the loop variable fit each other.                                   *)
LEMMA ReturnType ==
  ASSUME NEW result \in {0, 1}, Return(result)
  PROVE  /\ pc' = "idle"
         /\ ifidx' \in Ifaces
         /\ ret' \in {0, 1}
BY IfacesType DEF Return

(* The end of a pass leaves a position of the call that is well typed.     *)
LEMMA NextInterfaceType ==
  ASSUME TypeOK, pc = "rx", NextInterface
  PROVE  /\ pc' \in {"idle", "tx"}
         /\ ifidx' \in Ifaces
         /\ ret' \in {0, 1}
<1>1. CASE ifidx + 1 < CAN_REDUNDANCY_FACTOR
  <2>1. pc' = "tx" /\ ifidx' = ifidx + 1 /\ ret' = ret
    BY <1>1 DEF NextInterface
  <2>2. ifidx \in Ifaces /\ ret \in {0, 1}
    BY DEF TypeOK
  <2>3. ifidx + 1 \in Ifaces
    BY <1>1, <2>2, OpenCyphalAssumption, SMT DEF Ifaces
  <2> QED
    BY <2>1, <2>2, <2>3
<1>2. CASE ~(ifidx + 1 < CAN_REDUNDANCY_FACTOR)
  <2>1. Return(0)
    BY <1>2 DEF NextInterface
  <2> QED
    BY <2>1, ReturnType
<1> QED
  BY <1>1, <1>2

-----------------------------------------------------------------------------
(* Type correctness, one lemma per part of the program.                    *)

(* Publish keeps the types.                                                *)
LEMMA PublishTypeOK ==
  ASSUME TypeOK, Publish \/ PublishOnInterface \/ PublishReturn
  PROVE  TypeOK'
<1>1. CASE Publish
  <2>1. PICK rank \in MessageRanks, n \in 1..MaxFrames,
             deadline \in {now + l : l \in Lifetimes} \cup Unlimited :
               PublishBegin(rank, n, deadline)
    BY <1>1 DEF Publish
  <2>2. deadline \in Nat
    <3>1. CASE deadline \in Unlimited
      BY <3>1, OpenCyphalAssumption
    <3>2. CASE deadline \in {now + l : l \in Lifetimes}
      <4>1. PICK l \in Lifetimes : deadline = now + l
        BY <3>2
      <4>2. l \in Nat /\ now \in Nat
        BY OpenCyphalAssumption DEF TypeOK
      <4> QED
        BY <4>1, <4>2
    <3> QED
      BY <3>1, <3>2
  <2>3. deadline \in 0..MaxTime
    BY <2>1, <2>2, OpenCyphalAssumption DEF PublishBegin, InBounds
  <2>4. npub + 1 \in Transfers
    BY <2>1, CanardTxAssumption, SMT DEF PublishBegin, InBounds, TypeOK, Transfers
  <2>5. 0 \in 0..CAN_REDUNDANCY_FACTOR
    BY OpenCyphalAssumption
  <2> QED
    BY <2>1, <2>3, <2>4, <2>5 DEF PublishBegin, TypeOK, memVars, sockVars
<1>2. CASE PublishOnInterface
  <2> DEFINE frames == FramesOf(npub, transfer.frames, transfer.rank, transfer.deadline)
  <2>1. /\ pc = "publish"
        /\ ifidx \in 0..CAN_REDUNDANCY_FACTOR
        /\ ifidx < CAN_REDUNDANCY_FACTOR
        /\ Push(ifidx, frames, sessions)
    BY <1>2 DEF PublishOnInterface, TypeOK
  <2>2. ifidx \in Ifaces /\ ifidx + 1 \in 0..CAN_REDUNDANCY_FACTOR
    BY <2>1, OpenCyphalAssumption, SMT DEF Ifaces
  <2>3. frames \subseteq Item
    BY <2>1, PublishArguments, FramesOfType
  <2>4. /\ txq' \in [Ifaces -> SUBSET Item]
        /\ heap' \subseteq Ifaces \X Item
        /\ oom' \in BOOLEAN
    BY <2>1, <2>2, <2>3, PushType
  <2>5. retval' \in Int
    BY <1>2, <2>1, PublishArguments DEF PublishOnInterface
  <2> QED
    BY <1>2, <2>1, <2>2, <2>4, <2>5 DEF PublishOnInterface, TypeOK, sockVars
<1>3. CASE PublishReturn
  <2>2. npub \in 0..MaxTransfers
    BY <1>3 DEF PublishReturn, TypeOK, Transfers
  <2> QED
    BY <1>3, <2>2, IfacesType DEF PublishReturn, TypeOK, memVars, sockVars
<1> QED
  BY <1>1, <1>2, <1>3

(* The send loop keeps the types.                                          *)
LEMMA TxTypeOK ==
  ASSUME TypeOK, HandleTxRxQueues \/ TxHead \/ TxEmpty
  PROVE  TypeOK'
<1>1. CASE HandleTxRxQueues
  BY <1>1, IfacesType DEF HandleTxRxQueues, TypeOK, pubVars, memVars, sockVars
<1>2. CASE TxHead
  <2>1. PICK x \in txq[ifidx] : TxExpire(x) \/ TxSend(x) \/ TxFull(x) \/ TxFail(x)
    BY <1>2 DEF TxHead
  <2>2. /\ pc = "tx"
        /\ UNCHANGED <<now, npub, transfer, retval, sessions, oom>>
    BY <1>2 DEF TxHead, pubVars
  <2>3. ifidx \in Ifaces /\ x \in Item
    BY <2>2 DEF TypeOK
  <2>4. CASE TxExpire(x)
    BY <2>2, <2>4, PopType DEF TxExpire, TypeOK
  <2>5. CASE TxSend(x)
    <3>1. wire' \in [Ifaces -> Seq(Item)]
      BY <2>3, <2>5 DEF TxSend, TypeOK
    <3>2. rxbuf' \in [Ifaces -> Seq(FrameKinds)]
      BY <2>3, <2>5 DEF TxSend, TypeOK, FrameKinds
    <3> QED
      BY <2>2, <2>5, <3>1, <3>2, PopType DEF TxSend, TypeOK
  <2>6. CASE TxFull(x)
    BY <2>2, <2>6 DEF TxFull, TypeOK
  <2>7. CASE TxFail(x)
    BY <2>2, <2>7, ReturnType DEF TxFail, TypeOK
  <2> QED
    BY <2>1, <2>4, <2>5, <2>6, <2>7
<1>3. CASE TxEmpty
  BY <1>3 DEF TxEmpty, TypeOK, pubVars, memVars, sockVars
<1> QED
  BY <1>1, <1>2, <1>3

(* What every reception leaves well typed, whatever the frame was.         *)
LEMMA ReceiveType ==
  ASSUME TypeOK, NEW kind, Receive(kind)
  PROVE  /\ pc = "rx" /\ ifidx \in Ifaces
         /\ pc' \in {"idle", "tx"} /\ ifidx' \in Ifaces /\ ret' \in {0, 1}
         /\ rxbuf' \in [Ifaces -> Seq(FrameKinds)]
         /\ now' = now /\ transfer' = transfer /\ retval' = retval
         /\ drv' = drv /\ wire' = wire
<1>1. pc = "rx" /\ ifidx \in Ifaces
  BY DEF Receive, TypeOK
<1>2. pc' \in {"idle", "tx"} /\ ifidx' \in Ifaces /\ ret' \in {0, 1}
  BY <1>1, NextInterfaceType DEF Receive
<1>3. rxbuf' \in [Ifaces -> Seq(FrameKinds)]
  BY <1>1 DEF Receive, TypeOK
<1> QED
  BY <1>1, <1>2, <1>3 DEF Receive

(* Every outcome of a reception keeps the types.                           *)
LEMMA RxTypeOK ==
  ASSUME TypeOK, RxNothing \/ RxFail \/ RxIgnored \/ RxTransfer
  PROVE  TypeOK'
<1>1. CASE RxNothing
  <2>1. pc = "rx" /\ ifidx \in Ifaces
    BY <1>1 DEF RxNothing, TypeOK
  <2>2. rxbuf' \in [Ifaces -> Seq(FrameKinds)]
    <3>1. CASE rxbuf' = rxbuf
      BY <3>1 DEF TypeOK
    <3>2. CASE /\ rxbuf[ifidx] # <<>>
               /\ rxbuf' = [rxbuf EXCEPT ![ifidx] = Tail(@)]
      BY <3>2, <2>1 DEF TypeOK
    <3> QED
      BY <1>1, <3>1, <3>2 DEF RxNothing
  <2>3. Return(0)
    BY <1>1 DEF RxNothing
  <2> QED
    BY <1>1, <2>1, <2>2, <2>3, ReturnType DEF RxNothing, TypeOK, pubVars, memVars
<1>2. CASE RxFail
  BY <1>2, ReturnType DEF RxFail, TypeOK, pubVars, memVars, sockVars
<1>3. CASE RxIgnored
  BY <1>3, ReceiveType DEF RxIgnored, TypeOK, memVars
<1>4. ASSUME NEW s \in Sources, RxNoMemory(s)
      PROVE  TypeOK'
  BY <1>4, ReceiveType DEF RxNoMemory, TypeOK
<1>5. ASSUME NEW s \in Sources, RxUnanswered(s)
      PROVE  TypeOK'
  BY <1>5, ReceiveType DEF RxUnanswered, RxAccepted, TypeOK
<1>6. ASSUME NEW s \in Sources, NEW n \in 1..MaxFrames, RxAnswered(s, n)
      PROVE  TypeOK'
  <2> DEFINE frames == FramesOf(npub + 1, n, ServiceRank, now + ResponseLifetime)
  <2>1. Receive("transfer") /\ sessions' = sessions \cup {s}
    BY <1>6 DEF RxAnswered, RxAccepted
  <2>2. npub' = npub + 1 /\ Push(ifidx, frames, sessions')
    BY <1>6 DEF RxAnswered
  <2>3. pc = "rx" /\ ifidx \in Ifaces
    BY <2>1, ReceiveType
  <2>4. npub + 1 \in Transfers
    BY <1>6, <2>3, CanardTxAssumption, SMT DEF RxAnswered, InBounds, TypeOK, Transfers
  <2>5. now + ResponseLifetime \in Nat /\ n \in 0..MaxFrames /\ ServiceRank \in Ranks
    BY OpenCyphalAssumption, CanardTxAssumption DEF TypeOK
  <2>6. frames \subseteq Item
    BY <2>4, <2>5, FramesOfType
  <2>7. /\ txq' \in [Ifaces -> SUBSET Item]
        /\ heap' \subseteq Ifaces \X Item
        /\ oom' \in BOOLEAN
    BY <2>2, <2>3, <2>6, PushType
  <2>8. npub' \in 0..MaxTransfers
    BY <2>2, <2>4 DEF Transfers
  <2> QED
    BY <2>1, <2>7, <2>8, ReceiveType DEF TypeOK
<1> QED
  BY <1>1, <1>2, <1>3, <1>4, <1>5, <1>6 DEF RxTransfer

(* Clock, sockets and peers keep the types.                                *)
LEMMA EnvironmentTypeOK ==
  ASSUME TypeOK, Environment
  PROVE  TypeOK'
<1>1. CASE Tick
  BY <1>1 DEF Tick, TypeOK, pubVars, memVars, sockVars
<1>2. ASSUME NEW i \in Ifaces, NEW s \in {"ready", "full", "failing"}, DriverChange(i, s)
      PROVE  TypeOK'
  BY <1>2 DEF DriverChange, TypeOK, pubVars, memVars
<1>3. ASSUME NEW i \in Ifaces, NEW k \in FrameKinds, Arrive(i, k)
      PROVE  TypeOK'
  <2>1. rxbuf' \in [Ifaces -> Seq(FrameKinds)]
    BY <1>3 DEF Arrive, TypeOK
  <2> QED
    BY <1>3, <2>1 DEF Arrive, TypeOK, pubVars, memVars
<1> QED
  BY <1>1, <1>2, <1>3 DEF Environment

(* No step of the program or of its environment breaks the types.          *)
LEMMA TypeStep ==
  ASSUME TypeOK, [Next]_vars
  PROVE  TypeOK'
<1>1. CASE Next
  BY <1>1, PublishTypeOK, TxTypeOK, RxTypeOK, EnvironmentTypeOK DEF Next, CallStep
<1>2. CASE UNCHANGED vars
  BY <1>2 DEF TypeOK, vars, pubVars, memVars, sockVars
<1> QED
  BY <1>1, <1>2

(* Every reachable state is well typed: the loop variable is an interface  *)
(* whenever it is used as an index, and transfers are numbered in range.   *)
THEOREM TypeCorrect == Spec => []TypeOK
<1>1. Init => TypeOK
  <2> SUFFICES ASSUME Init PROVE TypeOK
    OBVIOUS
  <2>2. 0 \in 0..MaxTransfers
    BY CanardTxAssumption
  <2>3. /\ rxbuf \in [Ifaces -> Seq(FrameKinds)]
        /\ wire \in [Ifaces -> Seq(Item)]
    BY DEF Init
  <2>4. /\ txq \in [Ifaces -> SUBSET Item]
        /\ drv \in [Ifaces -> {"ready", "full", "failing"}]
    BY DEF Init
  <2>5. /\ pc = "idle" /\ ifidx \in Ifaces
        /\ now \in Nat /\ npub \in 0..MaxTransfers /\ retval \in Int /\ ret \in {0, 1}
    BY <2>2, IfacesType DEF Init
  <2>6. transfer \in {NoTransfer}
    BY DEF Init
  <2>7. oom \in BOOLEAN /\ heap \subseteq Ifaces \X Item /\ sessions \subseteq Sources
    BY DEF Init
  <2> QED
    BY <2>3, <2>4, <2>5, <2>6, <2>7 DEF TypeOK
<1>2. TypeOK /\ [Next]_vars => TypeOK'
  BY TypeStep
<1> QED
  BY <1>1, <1>2, PTL DEF Spec

-----------------------------------------------------------------------------
(* Ownership of the arena's blocks.                                        *)

(* HeapOwned, block by block.                                              *)
LEMMA OwnedBlocks ==
  ASSUME NEW q, NEW h
  PROVE  h = UNION { {i} \X q[i] : i \in Ifaces }
           <=> \A b : b \in h <=> \E i \in Ifaces : \E x \in q[i] : b = <<i, x>>
<1> DEFINE U == UNION { {i} \X q[i] : i \in Ifaces }
<1>1. \A b : b \in U <=> \E i \in Ifaces : \E x \in q[i] : b = <<i, x>>
  OBVIOUS
<1>2. h = U <=> \A b : b \in h <=> b \in U
  OBVIOUS
<1> QED
  BY <1>1, <1>2

(* A push allocates exactly the blocks of the frames it queues.            *)
LEMMA PushOwned ==
  ASSUME TypeOK, HeapOwned, NEW i \in Ifaces, NEW frames, NEW sess,
         Push(i, frames, sess)
  PROVE  HeapOwned'
<1>1. \A b : b \in heap <=> \E j \in Ifaces : \E x \in txq[j] : b = <<j, x>>
  BY OwnedBlocks DEF HeapOwned
<1>2. CASE Accepts(i, frames, sess)
  <2>1. heap' = heap \cup ({i} \X frames)
    BY <1>2 DEF Push
  <2>2. \A j \in Ifaces : txq'[j] = IF j = i THEN txq[j] \cup frames ELSE txq[j]
    BY <1>2 DEF Push, TypeOK
  <2>3. \A b : b \in heap' <=> \E j \in Ifaces : \E x \in txq'[j] : b = <<j, x>>
    <3>1. ASSUME NEW b \in heap'
          PROVE  \E j \in Ifaces : \E x \in txq'[j] : b = <<j, x>>
      <4>1. CASE b \in heap
        BY <1>1, <2>2, <4>1
      <4>2. CASE b \in {i} \X frames
        <5>1. PICK x \in frames : b = <<i, x>>
          BY <4>2
        <5>2. x \in txq'[i]
          BY <2>2
        <5> QED
          BY <5>1, <5>2
      <4> QED
        BY <2>1, <3>1, <4>1, <4>2
    <3>2. ASSUME NEW j \in Ifaces, NEW x \in txq'[j]
          PROVE  <<j, x>> \in heap'
      <4>1. CASE x \in txq[j]
        BY <1>1, <2>1, <4>1
      <4>2. CASE x \notin txq[j]
        BY <2>1, <2>2, <3>2, <4>2
      <4> QED
        BY <4>1, <4>2
    <3> QED
      BY <3>1, <3>2
  <2> QED
    BY <2>3, OwnedBlocks DEF HeapOwned
<1>3. CASE ~Accepts(i, frames, sess)
  <2>1. heap' = heap /\ \A j \in Ifaces : txq'[j] = txq[j]
    BY <1>3 DEF Push, TypeOK
  <2>2. \A b : b \in heap' <=> \E j \in Ifaces : \E x \in txq'[j] : b = <<j, x>>
    BY <1>1, <2>1
  <2> QED
    BY <2>2, OwnedBlocks DEF HeapOwned
<1> QED
  BY <1>2, <1>3

(* A pop frees exactly the block of the frame it removes.                  *)
LEMMA PopOwned ==
  ASSUME TypeOK, HeapOwned, ifidx \in Ifaces, NEW x \in txq[ifidx], PopAndFree(x)
  PROVE  HeapOwned'
<1>1. \A b : b \in heap <=> \E j \in Ifaces : \E y \in txq[j] : b = <<j, y>>
  BY OwnedBlocks DEF HeapOwned
<1>2. heap' = heap \ {<<ifidx, x>>}
  BY DEF PopAndFree
<1>3. \A j \in Ifaces : txq'[j] = IF j = ifidx THEN txq[j] \ {x} ELSE txq[j]
  BY DEF PopAndFree, TypeOK
<1>4. \A b : b \in heap' <=> \E j \in Ifaces : \E y \in txq'[j] : b = <<j, y>>
  <2>1. ASSUME NEW b \in heap'
        PROVE  \E j \in Ifaces : \E y \in txq'[j] : b = <<j, y>>
    <3>0. PICK j \in Ifaces : \E y \in txq[j] : b = <<j, y>>
      BY <1>1, <1>2, <2>1
    <3>1. PICK y \in txq[j] : b = <<j, y>>
      BY <3>0
    <3>2. ~(j = ifidx /\ y = x)
      BY <1>2, <2>1, <3>1
    <3>3. y \in txq'[j]
      BY <1>3, <3>2
    <3> QED
      BY <3>1, <3>3
  <2>2. ASSUME NEW j \in Ifaces, NEW y \in txq'[j]
        PROVE  <<j, y>> \in heap'
    <3>1. y \in txq[j] /\ <<j, y>> # <<ifidx, x>>
      BY <1>3, <2>2
    <3> QED
      BY <1>1, <1>2, <3>1
  <2> QED
    BY <2>1, <2>2
<1> QED
  BY <1>4, OwnedBlocks DEF HeapOwned

(* Every queued frame holds its block, and no other block is held: frames  *)
(* are freed exactly when they are popped, on every path through the loop. *)
THEOREM HeapAlwaysOwned == Spec => []HeapOwned
<1>1. Init => HeapOwned
  <2> SUFFICES ASSUME Init PROVE HeapOwned
    OBVIOUS
  <2>1. \A b : b \in heap <=> \E i \in Ifaces : \E x \in txq[i] : b = <<i, x>>
    BY DEF Init
  <2> QED
    BY <2>1, OwnedBlocks DEF HeapOwned
<1>2. TypeOK /\ HeapOwned /\ [Next]_vars => HeapOwned'
  <2> SUFFICES ASSUME TypeOK, HeapOwned, [Next]_vars PROVE HeapOwned'
    OBVIOUS
  <2>1. CASE UNCHANGED memVars
    BY <2>1 DEF memVars, HeapOwned
  <2>2. CASE PublishOnInterface
    <3>1. ifidx \in Ifaces
      BY <2>2, OpenCyphalAssumption, SMT DEF PublishOnInterface, TypeOK, Ifaces
    <3> QED
      BY <2>2, <3>1, PushOwned DEF PublishOnInterface
  <2>3. CASE TxHead
    <3>1. ifidx \in Ifaces
      BY <2>3 DEF TxHead, TypeOK
    <3>2. PICK x \in txq[ifidx] : TxExpire(x) \/ TxSend(x) \/ TxFull(x) \/ TxFail(x)
      BY <2>3 DEF TxHead
    <3>3. CASE PopAndFree(x)
      BY <3>1, <3>3, PopOwned
    <3>4. CASE UNCHANGED <<txq, heap>>
      BY <3>4 DEF HeapOwned
    <3> QED
      BY <3>2, <3>3, <3>4 DEF TxExpire, TxSend, TxFull, TxFail
  <2>4. CASE UNCHANGED <<txq, heap>>
    BY <2>4 DEF HeapOwned
  <2>5. ASSUME NEW s \in Sources, NEW n \in 1..MaxFrames, RxAnswered(s, n)
        PROVE  HeapOwned'
    <3>1. ifidx \in Ifaces
      BY <2>5, ReceiveType DEF RxAnswered, RxAccepted
    <3> QED
      BY <2>5, <3>1, PushOwned DEF RxAnswered
  <2>6. CASE RxTransfer
    BY <2>4, <2>5, <2>6 DEF RxTransfer, RxNoMemory, RxUnanswered
  <2>7. Publish \/ HandleTxRxQueues \/ PublishReturn \/ TxEmpty \/ RxNothing \/ RxFail
          \/ RxIgnored \/ Environment \/ UNCHANGED vars
          => UNCHANGED memVars
    BY DEF Publish, PublishBegin, HandleTxRxQueues, PublishReturn, TxEmpty, RxNothing,
           RxFail, RxIgnored, Environment, Tick, DriverChange, Arrive, vars, memVars
  <2> QED
    BY <2>1, <2>2, <2>3, <2>6, <2>7 DEF Next, CallStep
<1> QED
  BY <1>1, <1>2, TypeCorrect, PTL DEF Spec


-----------------------------------------------------------------------------
(* What OpenCyphal sends: every frame at most once, and the frames of a    *)
(* transfer in order, on every interface.  The inductive invariant is the  *)
(* order on the wire and what it rests on.                                 *)
SendInv == TypeOK /\ OrderInv /\ AtMostOnce /\ FramesInOrder

-----------------------------------------------------------------------------
(* Numbers of transfers are integers, whatever the phase of a Publish.     *)
LEMMA OfferedType ==
  ASSUME TypeOK, TypeOK', NEW i \in Ifaces
  PROVE  Offered(i) \in Int /\ Offered(i)' \in Int
<1>1. npub \in Int /\ npub' \in Int
  BY CanardTxAssumption DEF TypeOK, Transfers
<1> QED
  BY <1>1 DEF Offered

(* The fields of a queued frame.                                           *)
LEMMA ItemType ==
  ASSUME TypeOK, NEW i \in Ifaces, NEW x \in txq[i] \cup OnWire(i)
  PROVE  /\ x \in Item
         /\ x.idx \in Int /\ x.rank \in Int /\ x.xfer \in Int /\ x.deadline \in Nat
<1>1. x \in Item
  BY DEF TypeOK, OnWire
<1>2. x.rank \in Int
  BY <1>1, CanardTxAssumption DEF Item
<1>3. x.idx \in Int /\ x.xfer \in Int /\ x.deadline \in Nat
  BY <1>1 DEF Item, Transfers
<1> QED
  BY <1>1, <1>2, <1>3

(* A step that neither queues nor sends keeps the order, provided that it  *)
(* offers no fewer transfers and turns no clock back.                      *)
LEMMA QuietStep ==
  ASSUME SendInv, TypeOK', txq' = txq, wire' = wire, now <= now',
         \A i \in Ifaces : Offered(i) <= Offered(i)'
  PROVE  SendInv'
<1>1. \A i \in Ifaces : OnWire(i)' = OnWire(i)
  BY DEF OnWire
<1>2. AtMostOnce'
  BY <1>1 DEF SendInv, AtMostOnce
<1>3. FramesInOrder'
  BY DEF SendInv, FramesInOrder
<1>4. ASSUME NEW i \in Ifaces, NEW x \in txq[i] \cup OnWire(i)
      PROVE  x.xfer <= Offered(i)'
  <2>1. x.xfer \in Int
    BY ItemType DEF SendInv
  <2>2. Offered(i) \in Int /\ Offered(i)' \in Int
    BY OfferedType DEF SendInv
  <2>3. x.xfer <= Offered(i) /\ Offered(i) <= Offered(i)'
    BY DEF SendInv, OrderInv
  <2> QED
    BY <2>1, <2>2, <2>3
<1>5. ASSUME NEW i \in Ifaces, NEW x \in txq[i], x.idx > 1, LiveAt(x, now')
      PROVE  Preceding(x) \in txq[i] \cup OnWire(i)
  <2>1. x.deadline \in Nat /\ now \in Nat /\ now' \in Nat
    BY DEF SendInv, TypeOK, Item
  <2>2. LiveAt(x, now)
    BY <1>5, <2>1 DEF LiveAt
  <2> QED
    BY <1>5, <2>2 DEF SendInv, OrderInv
<1>6. OrderInv'
  BY <1>1, <1>4, <1>5 DEF OrderInv
<1> QED
  BY <1>2, <1>3, <1>6 DEF SendInv

(* A push on interface i of the transfer it is offered next: the frames    *)
(* are new to the interface, and bring their predecessors with them.       *)
LEMMA PushKeepsOrder ==
  ASSUME SendInv, TypeOK', NEW i \in Ifaces, NEW sess,
         NEW k \in Transfers, NEW n \in 0..MaxFrames, NEW rank \in Ranks,
         NEW deadline \in Nat,
         Push(i, FramesOf(k, n, rank, deadline), sess),
         wire' = wire, now' = now,
         Offered(i) < k, k <= Offered(i)',
         \A j \in Ifaces : Offered(j) <= Offered(j)'
  PROVE  SendInv'
<1> DEFINE frames == FramesOf(k, n, rank, deadline)
<1>1. CASE txq' = txq
  <2>1. now <= now'
    BY DEF SendInv, TypeOK
  <2> QED
    BY <1>1, <2>1, QuietStep
<1>2. CASE txq' # txq
  <2>1. \A j \in Ifaces : txq'[j] = IF j = i THEN txq[j] \cup frames ELSE txq[j]
    BY <1>2 DEF Push, SendInv, TypeOK
  <2>2. \A j \in Ifaces : OnWire(j)' = OnWire(j)
    BY DEF OnWire
  <2>3. frames \subseteq Item /\ \A x \in frames : x.xfer = k
    BY FramesOfType DEF FramesOf
  <2>4. ASSUME NEW j \in Ifaces, NEW x \in txq[j] \cup OnWire(j)
        PROVE  /\ x.xfer \in Int /\ Offered(j) \in Int /\ Offered(j)' \in Int
               /\ x.xfer <= Offered(j)
    <3>1. x.xfer \in Int
      BY ItemType DEF SendInv
    <3>2. Offered(j) \in Int /\ Offered(j)' \in Int
      BY OfferedType DEF SendInv
    <3>3. x.xfer <= Offered(j)
      BY DEF SendInv, OrderInv
    <3> QED
      BY <3>1, <3>2, <3>3
  <2>5. AtMostOnce'
    <3>1. ASSUME NEW j \in Ifaces, NEW x \in txq'[j]
          PROVE  x \notin OnWire(j)
      <4>1. CASE x \in txq[j]
        BY <4>1 DEF SendInv, AtMostOnce
      <4>2. CASE x \notin txq[j]
        <5>1. j = i /\ x.xfer = k
          BY <2>1, <2>3, <3>1, <4>2
        <5>2. ASSUME x \in OnWire(i) PROVE FALSE
          BY <2>4, <5>1, <5>2 DEF Transfers
        <5> QED
          BY <5>1, <5>2
      <4> QED
        BY <4>1, <4>2
    <3>2. \A j \in Ifaces : \A p, q \in DOMAIN wire[j] : wire[j][p] = wire[j][q] => p = q
      BY DEF SendInv, AtMostOnce
    <3> QED
      BY <2>2, <3>1, <3>2 DEF AtMostOnce
  <2>6. FramesInOrder'
    BY DEF SendInv, FramesInOrder
  <2>7. ASSUME NEW j \in Ifaces, NEW x \in txq'[j] \cup OnWire(j)
        PROVE  x.xfer <= Offered(j)'
    <3>1. CASE x \in txq[j] \cup OnWire(j)
      <4>1. Offered(j) <= Offered(j)'
        OBVIOUS
      <4> QED
        BY <2>4, <3>1, <4>1
    <3>2. CASE x \notin txq[j] \cup OnWire(j)
      BY <2>1, <2>3, <2>7, <3>2
    <3> QED
      BY <3>1, <3>2
  <2>8. ASSUME NEW j \in Ifaces, NEW x \in txq'[j], x.idx > 1, LiveAt(x, now')
        PROVE  Preceding(x) \in txq'[j] \cup OnWire(j)
    <3>1. CASE x \in txq[j]
      BY <2>1, <2>8, <3>1 DEF SendInv, OrderInv
    <3>2. CASE x \notin txq[j]
      <4>1. j = i /\ x \in frames
        BY <2>1, <2>8, <3>2
      <4>2. PICK m \in 1..n :
              x = [xfer |-> k, idx |-> m, rank |-> rank, deadline |-> deadline]
        BY <4>1 DEF FramesOf
      <4>3. Preceding(x)
              = [xfer |-> k, idx |-> m - 1, rank |-> rank, deadline |-> deadline]
        BY <4>2 DEF Preceding
      <4>4. m - 1 \in 1..n
        BY <2>8, <4>2
      <4>5. Preceding(x) \in frames
        BY <4>3, <4>4 DEF FramesOf
      <4> QED
        BY <2>1, <4>1, <4>5
    <3> QED
      BY <3>1, <3>2
  <2>9. OrderInv'
    BY <2>2, <2>7, <2>8 DEF OrderInv
  <2> QED
    BY <2>5, <2>6, <2>9 DEF SendInv
<1> QED
  BY <1>1, <1>2

(* A pop that sends nothing: only an expired frame is dropped, and the     *)
(* later frames of its transfer have expired with it.                      *)
LEMMA ExpireKeepsOrder ==
  ASSUME SendInv, TypeOK', ifidx \in Ifaces, NEW x \in txq[ifidx], TxExpire(x),
         now' = now, npub' = npub
  PROVE  SendInv'
<1>1. \A j \in Ifaces : txq'[j] = IF j = ifidx THEN txq[j] \ {x} ELSE txq[j]
  BY DEF TxExpire, PopAndFree, SendInv, TypeOK
<1>2. wire' = wire /\ \A j \in Ifaces : OnWire(j)' = OnWire(j) /\ Offered(j)' = Offered(j)
  BY DEF TxExpire, OnWire, Offered
<1>3. AtMostOnce'
  <2>1. \A j \in Ifaces : txq'[j] \subseteq txq[j]
    BY <1>1
  <2> QED
    BY <1>2, <2>1 DEF SendInv, AtMostOnce
<1>4. FramesInOrder'
  BY <1>2 DEF SendInv, FramesInOrder
<1>5. ASSUME NEW j \in Ifaces, NEW y \in txq'[j], y.idx > 1, LiveAt(y, now')
      PROVE  Preceding(y) \in txq'[j] \cup OnWire(j)
  <2>1. y \in txq[j] /\ LiveAt(y, now)
    BY <1>1, <1>5
  <2>2. Preceding(y) \in txq[j] \cup OnWire(j)
    BY <1>5, <2>1 DEF SendInv, OrderInv
  <2>3. Preceding(y).deadline = y.deadline
    BY <2>1 DEF Preceding, SendInv, TypeOK, Item
  <2>4. Preceding(y) # x
    BY <2>1, <2>3 DEF TxExpire, LiveAt
  <2> QED
    BY <1>1, <2>2, <2>4
<1>6. OrderInv'
  BY <1>1, <1>2, <1>5 DEF SendInv, OrderInv
<1> QED
  BY <1>3, <1>4, <1>6 DEF SendInv

(* Sending the head of the queue: it is new to the wire, the frame before  *)
(* it is not behind it in the queue, so it has been sent.                  *)
LEMMA SendKeepsOrder ==
  ASSUME SendInv, TypeOK', NEW i \in Ifaces, ifidx = i, NEW w, wire[i] = w,
         NEW x \in txq[i], IsHead(txq[i], x), TxSend(x), now' = now, npub' = npub
  PROVE  SendInv'
<1>1. x \in Item /\ w \in Seq(Item)
  BY DEF SendInv, TypeOK
<1>2. \A j \in Ifaces : txq'[j] = IF j = i THEN txq[j] \ {x} ELSE txq[j]
  BY DEF TxSend, PopAndFree, SendInv, TypeOK
<1>3. \A j \in Ifaces : wire'[j] = IF j = i THEN Append(w, x) ELSE wire[j]
  BY DEF TxSend, SendInv, TypeOK
<1>4. /\ Len(w) \in Nat
      /\ DOMAIN wire[i] = 1..Len(w)
      /\ DOMAIN wire'[i] = 1..(Len(w) + 1)
      /\ \A p \in 1..Len(w) : wire'[i][p] = w[p]
      /\ wire'[i][Len(w) + 1] = x
  <2>1. wire'[i] = Append(w, x)
    BY <1>3
  <2>2. /\ Len(w) \in Nat
        /\ DOMAIN w = 1..Len(w)
        /\ DOMAIN Append(w, x) = 1..(Len(w) + 1)
        /\ \A p \in 1..Len(w) : Append(w, x)[p] = w[p]
        /\ Append(w, x)[Len(w) + 1] = x
    BY <1>1
  <2> QED
    BY <2>1, <2>2
<1>5. \A j \in Ifaces : Offered(j)' = Offered(j)
  BY DEF TxSend, Offered
<1>6. /\ OnWire(i)' = OnWire(i) \cup {x}
      /\ \A j \in Ifaces : j # i => OnWire(j)' = OnWire(j)
  <2>1. OnWire(i) = { w[p] : p \in 1..Len(w) }
    BY <1>4 DEF OnWire
  <2>2. OnWire(i)' = { wire'[i][p] : p \in 1..(Len(w) + 1) }
    BY <1>4 DEF OnWire
  <2>4. \A y : y \in OnWire(i)' <=> y \in OnWire(i) \/ y = x
    <3>1. ASSUME NEW p \in 1..(Len(w) + 1)
          PROVE  wire'[i][p] = x \/ wire'[i][p] \in OnWire(i)
      <4>1. CASE p = Len(w) + 1
        BY <1>4, <4>1
      <4>2. CASE p \in 1..Len(w)
        BY <1>4, <2>1, <4>2
      <4> QED
        BY <1>4, <4>1, <4>2
    <3>2. ASSUME NEW p \in 1..Len(w)
          PROVE  w[p] \in OnWire(i)'
      <4>1. p \in 1..(Len(w) + 1) /\ w[p] = wire'[i][p]
        BY <1>4
      <4> QED
        BY <2>2, <4>1
    <3>3. x \in OnWire(i)'
      <4>1. Len(w) + 1 \in 1..(Len(w) + 1)
        BY <1>4
      <4> QED
        BY <1>4, <2>2, <4>1
    <3> QED
      BY <2>1, <2>2, <3>1, <3>2, <3>3
  <2>3. ASSUME NEW j \in Ifaces, j # i
        PROVE  OnWire(j)' = OnWire(j)
    BY <1>3, <2>3 DEF OnWire
  <2> QED
    BY <2>3, <2>4
<1>7. x \notin OnWire(i)
  BY DEF SendInv, AtMostOnce
<1>8. AtMostOnce'
  <2>1. ASSUME NEW j \in Ifaces
        PROVE  /\ txq'[j] \cap OnWire(j)' = {}
               /\ \A p, q \in DOMAIN wire'[j] : wire'[j][p] = wire'[j][q] => p = q
    <3>1. CASE j # i
      BY <1>2, <1>3, <1>6, <3>1 DEF SendInv, AtMostOnce
    <3>2. CASE j = i
      <4>1. txq'[j] \cap OnWire(j)' = {}
        BY <1>2, <1>6, <3>2 DEF SendInv, AtMostOnce, TxSend
      <4>2. \A p \in 1..Len(w) : w[p] # x
        BY <1>4, <1>7 DEF OnWire
      <4>3. \A p, q \in 1..Len(w) : w[p] = w[q] => p = q
        BY <1>4 DEF SendInv, AtMostOnce
      <4>4. \A p, q \in 1..(Len(w) + 1) : wire'[i][p] = wire'[i][q] => p = q
        BY <1>4, <4>2, <4>3
      <4> QED
        BY <1>4, <3>2, <4>1, <4>4
    <3> QED
      BY <3>1, <3>2
  <2> QED
    BY <2>1 DEF AtMostOnce
<1>9. x.idx > 1 => \E q \in 1..Len(w) : w[q] = Preceding(x)
  <2>1. SUFFICES ASSUME x.idx > 1 PROVE Preceding(x) \in OnWire(i)
    BY <1>4 DEF OnWire
  <2>2. Preceding(x) \in txq[i] \cup OnWire(i)
    BY <2>1 DEF TxSend, SendInv, OrderInv
  <2>3. /\ Preceding(x).idx = x.idx - 1
        /\ Preceding(x).rank = x.rank
        /\ Preceding(x).xfer = x.xfer
    BY <1>1 DEF Preceding, Item
  <2>4. x.idx \in Int /\ x.rank \in Int /\ x.xfer \in Int
    BY ItemType DEF SendInv
  <2>5. ~Before(x, Preceding(x)) /\ Preceding(x) # x
    BY <2>3, <2>4 DEF Before
  <2>6. Preceding(x) \notin txq[i]
    BY <2>5 DEF IsHead
  <2> QED
    BY <2>2, <2>6
<1>10. FramesInOrder'
  <2>1. ASSUME NEW j \in Ifaces, NEW p \in DOMAIN wire'[j], wire'[j][p].idx > 1
        PROVE  \E q \in 1..(p - 1) : wire'[j][q] = Preceding(wire'[j][p])
    <3>1. CASE j # i
      BY <1>3, <2>1, <3>1 DEF SendInv, FramesInOrder
    <3>2. CASE j = i /\ p = Len(w) + 1
      <4>1. wire'[i][p] = x
        BY <1>4, <3>2
      <4>2. PICK q \in 1..Len(w) : w[q] = Preceding(x)
        BY <1>9, <2>1, <3>2, <4>1
      <4>3. wire'[i][q] = Preceding(x) /\ q \in 1..(p - 1)
        BY <1>4, <3>2, <4>2
      <4> QED
        BY <3>2, <4>1, <4>3
    <3>3. CASE j = i /\ p # Len(w) + 1
      <4>1. p \in 1..Len(w)
        BY <1>4, <2>1, <3>3
      <4>2. wire'[i][p] = w[p]
        BY <1>4, <4>1
      <4>3. PICK q \in 1..(p - 1) : w[q] = Preceding(w[p])
        BY <1>4, <2>1, <3>3, <4>1, <4>2 DEF SendInv, FramesInOrder
      <4>4. q \in 1..Len(w)
        BY <1>4, <4>1, <4>3
      <4>5. wire'[i][q] = w[q]
        BY <1>4, <4>4
      <4> QED
        BY <3>3, <4>2, <4>3, <4>5
    <3> QED
      BY <3>1, <3>2, <3>3
  <2> QED
    BY <2>1 DEF FramesInOrder
<1>11. OrderInv'
  <2>1. ASSUME NEW j \in Ifaces
        PROVE  txq'[j] \cup OnWire(j)' = txq[j] \cup OnWire(j)
    <3>1. CASE j = i
      BY <1>2, <1>6, <3>1 DEF TxSend
    <3>2. CASE j # i
      BY <1>2, <1>6, <3>2
    <3> QED
      BY <3>1, <3>2
  <2>2. \A j \in Ifaces : txq'[j] \subseteq txq[j]
    BY <1>2
  <2> QED
    BY <1>5, <2>1, <2>2 DEF SendInv, OrderInv
<1> QED
  BY <1>8, <1>10, <1>11 DEF SendInv

-----------------------------------------------------------------------------
(* The steps of OpenCyphal.                                                *)

(* Outside of Publish every interface was offered every transfer.          *)
LEMMA OfferedAll ==
  ASSUME TypeOK, TypeOK', npub <= npub',
         pc # "publish" \/ (ifidx = CAN_REDUNDANCY_FACTOR /\ pc = "publish"),
         pc' # "publish"
  PROVE  \A i \in Ifaces : Offered(i) = npub /\ Offered(i)' = npub' /\ Offered(i) <= Offered(i)'
<1>1. TAKE i \in Ifaces
<1>2. ~(CAN_REDUNDANCY_FACTOR <= i)
  BY OpenCyphalAssumption DEF Ifaces
<1> QED
  BY <1>2 DEF Offered

(* A pass of the loop of Publish preserves SendInv.                        *)
LEMMA PublishSendInv ==
  ASSUME SendInv, TypeOK', Publish \/ PublishOnInterface \/ PublishReturn
  PROVE  SendInv'
<1>1. CASE Publish
  <2>1. /\ pc = "idle" /\ pc' = "publish" /\ ifidx' = 0
        /\ npub' = npub + 1 /\ txq' = txq /\ wire' = wire /\ now' = now
    BY <1>1 DEF Publish, PublishBegin, memVars, sockVars
  <2>2. npub \in Int /\ now \in Nat
    BY <2>1 DEF SendInv, TypeOK
  <2>3. \A i \in Ifaces : Offered(i) = npub /\ Offered(i)' = npub' - 1
    BY <2>1, IfacesType DEF Offered
  <2>4. \A i \in Ifaces : Offered(i) <= Offered(i)'
    BY <2>1, <2>2, <2>3
  <2> QED
    BY <2>1, <2>2, <2>4, QuietStep
<1>2. CASE PublishOnInterface
  <2>1. /\ pc = "publish" /\ pc' = "publish" /\ ifidx' = ifidx + 1
        /\ npub' = npub /\ wire' = wire /\ now' = now
        /\ Push(ifidx, FramesOf(npub, transfer.frames, transfer.rank, transfer.deadline), sessions)
    BY <1>2 DEF PublishOnInterface, sockVars
  <2>2. ifidx \in Ifaces
    BY <1>2, OpenCyphalAssumption, SMT DEF PublishOnInterface, SendInv, TypeOK, Ifaces
  <2>3. npub \in Transfers
    BY <2>1 DEF SendInv, TypeOK
  <2>4. ASSUME NEW j \in Ifaces
        PROVE  /\ Offered(j) <= Offered(j)'
               /\ j = ifidx => Offered(j) < npub /\ npub <= Offered(j)'
    <3>1. j \in Int /\ ifidx \in Int /\ npub \in Int
      BY <2>2, <2>3, IfacesType DEF Transfers
    <3> QED
      BY <2>1, <3>1 DEF Offered
  <2>5. /\ transfer.frames \in 0..MaxFrames
        /\ transfer.rank \in Ranks
        /\ transfer.deadline \in Nat
    BY <2>1, PublishArguments DEF SendInv
  <2> QED
    BY <2>1, <2>2, <2>3, <2>4, <2>5, PushKeepsOrder
<1>3. CASE PublishReturn
  <2>1. /\ ifidx = CAN_REDUNDANCY_FACTOR /\ pc = "publish" /\ pc' = "idle"
        /\ npub' = npub /\ txq' = txq /\ wire' = wire /\ now' = now
    BY <1>3 DEF PublishReturn, memVars, sockVars
  <2>2. npub <= npub' /\ now <= now'
    BY <2>1 DEF SendInv, TypeOK, Transfers
  <2> QED
    BY <2>1, <2>2, OfferedAll, QuietStep DEF SendInv
<1> QED
  BY <1>1, <1>2, <1>3

(* What the send loop does with its peeked frame preserves SendInv.        *)
LEMMA TxSendInv ==
  ASSUME SendInv, TypeOK', HandleTxRxQueues \/ TxHead \/ TxEmpty
  PROVE  SendInv'
<1>1. pc # "publish" /\ npub' = npub /\ now' = now
  BY DEF HandleTxRxQueues, TxHead, TxEmpty, pubVars
<1>2. npub <= npub' /\ now <= now'
  BY <1>1 DEF SendInv, TypeOK
<1>3. ASSUME txq' = txq, wire' = wire, pc' # "publish"
      PROVE  SendInv'
  BY <1>1, <1>2, <1>3, OfferedAll, QuietStep DEF SendInv
<1>4. CASE HandleTxRxQueues \/ TxEmpty
  BY <1>3, <1>4 DEF HandleTxRxQueues, TxEmpty, memVars, sockVars
<1>5. CASE TxHead
  <2>1. ifidx \in Ifaces
    BY <1>5 DEF TxHead, SendInv, TypeOK
  <2>2. PICK x \in txq[ifidx] : /\ IsHead(txq[ifidx], x)
                                /\ TxExpire(x) \/ TxSend(x) \/ TxFull(x) \/ TxFail(x)
    BY <1>5 DEF TxHead
  <2>3. CASE TxExpire(x)
    BY <1>1, <2>1, <2>3, ExpireKeepsOrder
  <2>4. CASE TxSend(x)
    BY <1>1, <2>1, <2>2, <2>4, SendKeepsOrder
  <2>5. CASE TxFull(x) \/ TxFail(x)
    BY <1>3, <2>5 DEF TxFull, TxFail, Return
  <2> QED
    BY <2>2, <2>3, <2>4, <2>5
<1> QED
  BY <1>4, <1>5

(* Receptions, an answer among them, preserve SendInv.                     *)
LEMMA RxSendInv ==
  ASSUME SendInv, TypeOK', RxNothing \/ RxFail \/ RxIgnored \/ RxTransfer
  PROVE  SendInv'
<1>1. npub \in Nat /\ now \in Nat
  BY DEF SendInv, TypeOK, Transfers
<1>2. /\ pc = "rx" /\ pc' # "publish" /\ wire' = wire /\ now' = now
      /\ ifidx \in Ifaces
  <2>1. CASE RxNothing \/ RxFail
    BY <2>1 DEF RxNothing, RxFail, Return, sockVars, SendInv, TypeOK
  <2>2. CASE RxIgnored
    BY <2>2, ReceiveType DEF RxIgnored, SendInv
  <2>3. CASE RxTransfer
    BY <2>3, ReceiveType
       DEF RxTransfer, RxNoMemory, RxUnanswered, RxAnswered, RxAccepted, SendInv
  <2> QED
    BY <2>1, <2>2, <2>3
<1>3. ASSUME npub' = npub, txq' = txq
      PROVE  SendInv'
  <2>1. npub <= npub' /\ now <= now'
    BY <1>1, <1>2, <1>3
  <2> QED
    BY <1>2, <1>3, <2>1, OfferedAll, QuietStep DEF SendInv
<1>4. ASSUME NEW s \in Sources, NEW n \in 1..MaxFrames, RxAnswered(s, n)
      PROVE  SendInv'
  <2>1. /\ npub' = npub + 1 /\ npub < MaxTransfers
        /\ Push(ifidx, FramesOf(npub + 1, n, ServiceRank, now + ResponseLifetime), sessions')
    BY <1>4 DEF RxAnswered, InBounds
  <2>2. npub + 1 \in Transfers
    BY <1>1, <2>1, CanardTxAssumption DEF Transfers
  <2>3. /\ n \in 0..MaxFrames /\ ServiceRank \in Ranks
        /\ now + ResponseLifetime \in Nat
    BY <1>1, OpenCyphalAssumption, CanardTxAssumption
  <2>4. npub <= npub'
    BY <1>1, <2>1
  <2>5. \A i \in Ifaces : Offered(i) = npub /\ Offered(i)' = npub' /\ Offered(i) <= Offered(i)'
    BY <1>2, <2>4, OfferedAll DEF SendInv
  <2>6. \A i \in Ifaces : Offered(i) < npub + 1 /\ npub + 1 <= Offered(i)'
    BY <1>1, <2>1, <2>5
  <2> QED
    BY <1>2, <2>1, <2>2, <2>3, <2>5, <2>6, PushKeepsOrder
<1>5. CASE RxNothing \/ RxFail \/ RxIgnored
  BY <1>3, <1>5 DEF RxNothing, RxFail, RxIgnored, pubVars, memVars
<1>6. CASE RxTransfer
  BY <1>3, <1>4, <1>6 DEF RxTransfer, RxNoMemory, RxUnanswered
<1> QED
  BY <1>5, <1>6

(* Clock, sockets and peers preserve SendInv.                              *)
LEMMA EnvironmentSendInv ==
  ASSUME SendInv, TypeOK', Environment \/ UNCHANGED vars
  PROVE  SendInv'
<1>1. /\ pc' = pc /\ ifidx' = ifidx /\ npub' = npub
      /\ txq' = txq /\ wire' = wire
      /\ now' = now \/ now' = now + 1
  BY DEF Environment, Tick, DriverChange, Arrive, vars, pubVars, memVars, sockVars
<1>2. now \in Nat
  BY DEF SendInv, TypeOK
<1>3. now <= now'
  BY <1>1, <1>2
<1>4. ASSUME NEW i \in Ifaces
      PROVE  Offered(i) <= Offered(i)'
  <2>1. Offered(i)' = Offered(i)
    BY <1>1 DEF Offered
  <2>2. Offered(i) \in Int
    BY OfferedType DEF SendInv
  <2> QED
    BY <2>1, <2>2
<1> QED
  BY <1>1, <1>3, <1>4, QuietStep

(* Every step preserves SendInv.                                           *)
LEMMA SendInvStep ==
  ASSUME SendInv, [Next]_vars
  PROVE  SendInv'
<1>1. TypeOK'
  BY TypeStep DEF SendInv
<1> QED
  BY <1>1, PublishSendInv, TxSendInv, RxSendInv, EnvironmentSendInv DEF Next, CallStep

(* Nothing is queued or sent at first.                                     *)
LEMMA SendInvInit ==
  ASSUME Init, TypeOK
  PROVE  SendInv
<1>1. \A i \in Ifaces : txq[i] = {} /\ wire[i] = <<>> /\ OnWire(i) = {}
  BY DEF Init, OnWire
<1> QED
  BY <1>1 DEF SendInv, OrderInv, AtMostOnce, FramesInOrder

-----------------------------------------------------------------------------
(* SendInv holds in every reachable state.                                 *)
LEMMA SendInvariant == Spec => []SendInv
<1>1. Init /\ TypeOK => SendInv
  BY SendInvInit
<1>2. SendInv /\ [Next]_vars => SendInv'
  BY SendInvStep
<1> QED
  BY <1>1, <1>2, TypeCorrect, PTL DEF Spec

(* A transfer is on an interface only after it was offered to it, and a    *)
(* live frame has its predecessor queued or sent: the induction hypothesis *)
(* that AtMostOnce and FramesInOrder rest on.                              *)
THEOREM QueuesConsistent == Spec => []OrderInv
BY SendInvariant, PTL DEF SendInv

(* No interface is handed a frame twice.                                   *)
THEOREM SentAtMostOnce == Spec => []AtMostOnce
BY SendInvariant, PTL DEF SendInv

(* On every interface the frames of a transfer are sent without a hole.    *)
THEOREM SentInOrder == Spec => []FramesInOrder
BY SendInvariant, PTL DEF SendInv

-----------------------------------------------------------------------------
(* OpenCyphal implements Outbox.                                           *)

(* Nothing is sent, queued or offered: the abstract state stands still.    *)
LEMMA StandStill ==
  ASSUME now' = now, wire' = wire,
         \A i \in Ifaces : Offered(i)' = Offered(i) /\ LiveQueue(i)' = LiveQueue(i)
  PROVE  UNCHANGED Outbox!vars
<1>1. [i \in Ifaces |-> Offered(i)]' = [i \in Ifaces |-> Offered(i)]
  OBVIOUS
<1>2. [i \in Ifaces |-> LiveQueue(i)]' = [i \in Ifaces |-> LiveQueue(i)]
  OBVIOUS
<1> QED
  BY <1>1, <1>2 DEF Outbox!vars

(* The abstract step of each interface, given for each one.                *)
LEMMA ServeAll ==
  ASSUME now' = now,
         \A i \in Ifaces :
           \/ /\ Offered(i)' = Offered(i) + 1
              /\ wire'[i] = wire[i]
              /\ \/ LiveQueue(i)' = LiveQueue(i)
                 \/ \E n \in 1..MaxFrames, rank \in Ranks, deadline \in 0..MaxTime :
                      LiveQueue(i)' = LiveQueue(i) \cup
                        { x \in FramesOf(Offered(i) + 1, n, rank, deadline) : LiveAt(x, now) }
           \/ \E x \in LiveQueue(i) : /\ IsHead(LiveQueue(i), x)
                                      /\ LiveQueue(i)' = LiveQueue(i) \ {x}
                                      /\ wire'[i] = Append(wire[i], x)
                                      /\ Offered(i)' = Offered(i)
           \/ /\ Offered(i)' = Offered(i)
              /\ LiveQueue(i)' = LiveQueue(i)
              /\ wire'[i] = wire[i]
  PROVE  Outbox!Next
<1>1. \A i \in Ifaces : /\ [j \in Ifaces |-> Offered(j)][i] = Offered(i)
                        /\ [j \in Ifaces |-> Offered(j)]'[i] = Offered(i)'
                        /\ [j \in Ifaces |-> LiveQueue(j)][i] = LiveQueue(i)
                        /\ [j \in Ifaces |-> LiveQueue(j)]'[i] = LiveQueue(i)'
  OBVIOUS
<1>2. ASSUME NEW i \in Ifaces
      PROVE  Outbox!Offer(i) \/ Outbox!Transmit(i) \/ Outbox!Rest(i)
  BY <1>1 DEF Outbox!Offer, Outbox!Transmit, Outbox!Rest, Outbox!LiveFrames,
              Outbox!FramesOf, Outbox!LiveAt, Outbox!IsHead, Outbox!Before,
              FramesOf, LiveAt, IsHead, Before
<1> QED
  BY <1>2 DEF Outbox!Next, Outbox!Serve

(* A push adds to an interface the frames of the transfer that can still   *)
(* be sent, or nothing.                                                    *)
LEMMA PushOffers ==
  ASSUME NEW i \in Ifaces, NEW frames, now' = now,
         \A j \in Ifaces : j # i => txq'[j] = txq[j],
         txq'[i] = txq[i] \/ txq'[i] = txq[i] \cup frames
  PROVE  /\ \A j \in Ifaces : j # i => LiveQueue(j)' = LiveQueue(j)
         /\ \/ LiveQueue(i)' = LiveQueue(i)
            \/ LiveQueue(i)' = LiveQueue(i) \cup { x \in frames : LiveAt(x, now) }
<1>1. \A j \in Ifaces : LiveQueue(j)' = { x \in txq'[j] : LiveAt(x, now) }
  BY DEF LiveQueue
<1> QED
  BY <1>1 DEF LiveQueue

(* A pass of the loop of Publish offers a transfer to one interface.       *)
LEMMA PublishImplements ==
  ASSUME TypeOK, PublishOnInterface
  PROVE  Outbox!Next
<1>1. /\ pc = "publish" /\ pc' = "publish" /\ ifidx' = ifidx + 1
      /\ npub' = npub /\ wire' = wire /\ now' = now
      /\ Push(ifidx, FramesOf(npub, transfer.frames, transfer.rank, transfer.deadline), sessions)
  BY DEF PublishOnInterface, sockVars
<1>2. PICK i \in Ifaces : i = ifidx
  BY OpenCyphalAssumption, SMT DEF PublishOnInterface, TypeOK, Ifaces
<1>3. /\ transfer.frames \in 1..MaxFrames
      /\ transfer.rank \in Ranks
      /\ transfer.deadline \in 0..MaxTime
      /\ npub \in Int
  BY <1>1, PublishArguments DEF Transfers
<1>4. ASSUME NEW j \in Ifaces
      PROVE  /\ j = i => Offered(j) + 1 = npub /\ Offered(j)' = npub
             /\ j # i => Offered(j)' = Offered(j)
  <2>1. j \in Int /\ i \in Int
    BY IfacesType
  <2> QED
    BY <1>1, <1>2, <1>3, <2>1 DEF Offered
<1>5. /\ \A j \in Ifaces : j # i => LiveQueue(j)' = LiveQueue(j)
      /\ \/ LiveQueue(i)' = LiveQueue(i)
         \/ LiveQueue(i)' = LiveQueue(i) \cup
              { x \in FramesOf(npub, transfer.frames, transfer.rank, transfer.deadline) :
                  LiveAt(x, now) }
  <2> DEFINE frames == FramesOf(npub, transfer.frames, transfer.rank, transfer.deadline)
  <2>1. /\ \A j \in Ifaces : j # i => txq'[j] = txq[j]
        /\ txq'[i] = txq[i] \/ txq'[i] = txq[i] \cup frames
    BY <1>1, <1>2 DEF Push, TypeOK
  <2> HIDE DEF frames
  <2>2. /\ \A j \in Ifaces : j # i => LiveQueue(j)' = LiveQueue(j)
        /\ \/ LiveQueue(i)' = LiveQueue(i)
           \/ LiveQueue(i)' = LiveQueue(i) \cup { x \in frames : LiveAt(x, now) }
    BY <1>1, <2>1, PushOffers
  <2> QED
    BY <2>2 DEF frames
<1>6. ASSUME NEW j \in Ifaces, j # i
      PROVE  Offered(j)' = Offered(j) /\ LiveQueue(j)' = LiveQueue(j) /\ wire'[j] = wire[j]
  BY <1>1, <1>4, <1>5, <1>6
<1>7. /\ Offered(i)' = Offered(i) + 1
      /\ wire'[i] = wire[i]
      /\ \/ LiveQueue(i)' = LiveQueue(i)
         \/ \E n \in 1..MaxFrames, rank \in Ranks, deadline \in 0..MaxTime :
              LiveQueue(i)' = LiveQueue(i) \cup
                { x \in FramesOf(Offered(i) + 1, n, rank, deadline) : LiveAt(x, now) }
  <2>1. Offered(i) + 1 = npub /\ Offered(i)' = npub
    BY <1>4
  <2> QED
    BY <1>1, <1>3, <1>5, <2>1
<1> QED
  BY <1>1, <1>6, <1>7, ServeAll

(* Answering a request offers the answer to every interface at once, and   *)
(* only the one the request came from takes it.                            *)
LEMMA AnswerImplements ==
  ASSUME TypeOK, TypeOK', NEW s \in Sources, NEW n \in 1..MaxFrames, RxAnswered(s, n)
  PROVE  Outbox!Next
<1>1. Receive("transfer")
  BY DEF RxAnswered, RxAccepted
<1>2. PICK i \in Ifaces : i = ifidx
  BY <1>1, ReceiveType
<1>3. /\ pc = "rx" /\ pc' # "publish" /\ now' = now /\ wire' = wire /\ npub' = npub + 1
      /\ Push(ifidx, FramesOf(npub + 1, n, ServiceRank, now + ResponseLifetime), sessions')
  BY <1>1, ReceiveType DEF RxAnswered
<1>4. npub \in Int /\ npub <= npub'
  BY <1>3 DEF TypeOK
<1>5. now + ResponseLifetime \in 0..MaxTime /\ ServiceRank \in Ranks
  BY OpenCyphalAssumption DEF RxAnswered, InBounds, TypeOK
<1>6. \A j \in Ifaces : Offered(j) = npub /\ Offered(j)' = npub + 1
  BY <1>3, <1>4, OfferedAll
<1>7. /\ \A j \in Ifaces : j # i => LiveQueue(j)' = LiveQueue(j)
      /\ \/ LiveQueue(i)' = LiveQueue(i)
         \/ LiveQueue(i)' = LiveQueue(i) \cup
              { x \in FramesOf(npub + 1, n, ServiceRank, now + ResponseLifetime) :
                  LiveAt(x, now) }
  <2> DEFINE frames == FramesOf(npub + 1, n, ServiceRank, now + ResponseLifetime)
  <2>1. /\ \A j \in Ifaces : j # i => txq'[j] = txq[j]
        /\ txq'[i] = txq[i] \/ txq'[i] = txq[i] \cup frames
    BY <1>2, <1>3 DEF Push, TypeOK
  <2> HIDE DEF frames
  <2>2. /\ \A j \in Ifaces : j # i => LiveQueue(j)' = LiveQueue(j)
        /\ \/ LiveQueue(i)' = LiveQueue(i)
           \/ LiveQueue(i)' = LiveQueue(i) \cup { x \in frames : LiveAt(x, now) }
    BY <1>3, <2>1, PushOffers
  <2> QED
    BY <2>2 DEF frames
<1>8. ASSUME NEW j \in Ifaces
      PROVE  /\ Offered(j)' = Offered(j) + 1
             /\ wire'[j] = wire[j]
             /\ \/ LiveQueue(j)' = LiveQueue(j)
                \/ \E m \in 1..MaxFrames, rank \in Ranks, deadline \in 0..MaxTime :
                     LiveQueue(j)' = LiveQueue(j) \cup
                       { x \in FramesOf(Offered(j) + 1, m, rank, deadline) : LiveAt(x, now) }
  <2>1. Offered(j) = npub /\ Offered(j)' = npub + 1
    BY <1>6
  <2> QED
    BY <1>3, <1>5, <1>7, <2>1
<1> QED
  BY <1>3, <1>8, ServeAll

(* Sending the head of the whole queue sends the head of its live part.    *)
LEMMA SendImplements ==
  ASSUME TypeOK, NEW i \in Ifaces, ifidx = i, pc = "tx", NEW x \in txq[i],
         IsHead(txq[i], x), TxSend(x), now' = now, npub' = npub
  PROVE  Outbox!Next
<1>1. \A j \in Ifaces : txq'[j] = IF j = i THEN txq[j] \ {x} ELSE txq[j]
  BY DEF TxSend, PopAndFree, TypeOK
<1>2. \A j \in Ifaces : wire'[j] = IF j = i THEN Append(wire[j], x) ELSE wire[j]
  BY DEF TxSend, TypeOK
<1>3. \A j \in Ifaces : Offered(j)' = Offered(j)
  BY DEF TxSend, Offered
<1>4. \A j \in Ifaces : LiveQueue(j)' = { y \in txq'[j] : LiveAt(y, now) }
  BY DEF LiveQueue
<1>5. x \in LiveQueue(i) /\ IsHead(LiveQueue(i), x)
  BY DEF LiveQueue, TxSend, IsHead
<1>6. LiveQueue(i)' = LiveQueue(i) \ {x}
  BY <1>1, <1>4 DEF LiveQueue
<1>7. \A j \in Ifaces : j # i => LiveQueue(j)' = LiveQueue(j)
  BY <1>1, <1>4 DEF LiveQueue
<1>8. wire'[i] = Append(wire[i], x)
  BY <1>2
<1> QED
  BY <1>2, <1>3, <1>5, <1>6, <1>7, <1>8, ServeAll

(* A step that neither sends nor offers, and removes only expired frames.  *)
LEMMA IdleImplements ==
  ASSUME TypeOK, TypeOK', now' = now, wire' = wire,
         \A j \in Ifaces : Offered(j)' = Offered(j),
         \/ txq' = txq
         \/ ifidx \in Ifaces /\ \E x \in txq[ifidx] : ~LiveAt(x, now) /\ PopAndFree(x)
  PROVE  UNCHANGED Outbox!vars
<1>1. ASSUME NEW j \in Ifaces
      PROVE  LiveQueue(j)' = LiveQueue(j)
  <2>1. LiveQueue(j)' = { y \in txq'[j] : LiveAt(y, now) }
    BY DEF LiveQueue
  <2>2. CASE txq' = txq
    BY <2>1, <2>2 DEF LiveQueue
  <2>3. ASSUME ifidx \in Ifaces, NEW x \in txq[ifidx], ~LiveAt(x, now), PopAndFree(x)
        PROVE  LiveQueue(j)' = LiveQueue(j)
    <3>1. txq'[j] = IF j = ifidx THEN txq[j] \ {x} ELSE txq[j]
      BY <2>3 DEF PopAndFree, TypeOK
    <3> QED
      BY <2>1, <2>3, <3>1 DEF LiveQueue
  <2> QED
    BY <2>2, <2>3
<1> QED
  BY <1>1, StandStill

(* The clock: the abstract Outbox forgets what expires at this instant.    *)
LEMMA TickImplements ==
  ASSUME TypeOK, Tick
  PROVE  Outbox!Next
<1>1. now' = now + 1 /\ txq' = txq /\ wire' = wire
  BY DEF Tick, memVars, sockVars
<1>2. \A i \in Ifaces : Offered(i)' = Offered(i)
  BY DEF Tick, Offered, pubVars
<1>3. ASSUME NEW i \in Ifaces
      PROVE  LiveQueue(i)' = { x \in LiveQueue(i) : LiveAt(x, now') }
  <2>1. \A x \in txq[i] : LiveAt(x, now') => LiveAt(x, now)
    BY <1>1 DEF LiveAt, TypeOK, Item
  <2> QED
    BY <1>1, <2>1 DEF LiveQueue
<1>4. Outbox!Advance
  <2>1. [i \in Ifaces |-> LiveQueue(i)]'
          = [i \in Ifaces |-> { x \in [j \in Ifaces |-> LiveQueue(j)][i] : LiveAt(x, now') }]
    BY <1>3
  <2>2. [i \in Ifaces |-> Offered(i)]' = [i \in Ifaces |-> Offered(i)]
    BY <1>2
  <2> QED
    BY <1>1, <2>1, <2>2 DEF Outbox!Advance, Outbox!LiveFrames, Outbox!LiveAt, LiveAt
<1> QED
  BY <1>4 DEF Outbox!Next

(* Every step is a step of Outbox, or changes nothing of it.               *)
LEMMA StepImplements ==
  ASSUME TypeOK, TypeOK', [Next]_vars
  PROVE  Outbox!Next \/ UNCHANGED Outbox!vars
<1>1. ASSUME now' = now, wire' = wire, txq' = txq,
             \A i \in Ifaces : Offered(i)' = Offered(i)
      PROVE  UNCHANGED Outbox!vars
  BY <1>1, IdleImplements
<1>2. ASSUME npub' = npub, pc # "publish", pc' # "publish"
      PROVE  \A i \in Ifaces : Offered(i)' = Offered(i)
  BY <1>2 DEF Offered
<1>3. CASE Publish
  <2>1. /\ pc = "idle" /\ pc' = "publish" /\ ifidx' = 0
        /\ npub' = npub + 1 /\ txq' = txq /\ wire' = wire /\ now' = now
    BY <1>3 DEF Publish, PublishBegin, memVars, sockVars
  <2>2. npub \in Int
    BY <2>1 DEF TypeOK
  <2>3. \A i \in Ifaces : Offered(i)' = Offered(i)
    BY <2>1, <2>2, IfacesType DEF Offered
  <2> QED
    BY <1>1, <2>1, <2>3
<1>4. CASE PublishReturn
  <2>1. /\ ifidx = CAN_REDUNDANCY_FACTOR /\ pc = "publish" /\ pc' = "idle"
        /\ npub' = npub /\ txq' = txq /\ wire' = wire /\ now' = now
    BY <1>4 DEF PublishReturn, memVars, sockVars
  <2>2. npub <= npub'
    BY <2>1 DEF TypeOK, Transfers
  <2>3. \A i \in Ifaces : Offered(i)' = Offered(i)
    BY <2>1, <2>2, OfferedAll
  <2> QED
    BY <1>1, <2>1, <2>3
<1>5. CASE HandleTxRxQueues \/ TxEmpty
  BY <1>1, <1>2, <1>5 DEF HandleTxRxQueues, TxEmpty, pubVars, memVars, sockVars
<1>6. CASE TxHead
  <2>1. /\ pc = "tx" /\ now' = now /\ npub' = npub
    BY <1>6 DEF TxHead, pubVars
  <2>2. PICK i \in Ifaces : i = ifidx
    BY <2>1 DEF TypeOK
  <2>3. PICK x \in txq[i] : /\ IsHead(txq[i], x)
                            /\ TxExpire(x) \/ TxSend(x) \/ TxFull(x) \/ TxFail(x)
    BY <1>6, <2>2 DEF TxHead
  <2>4. CASE TxSend(x)
    BY <2>1, <2>2, <2>3, <2>4, SendImplements
  <2>5. CASE TxExpire(x)
    <3>1. /\ ~LiveAt(x, now) /\ PopAndFree(x) /\ wire' = wire /\ pc' = pc
      BY <2>5 DEF TxExpire
    <3>2. \A j \in Ifaces : Offered(j)' = Offered(j)
      BY <1>2, <2>1, <3>1
    <3> QED
      BY <2>1, <2>2, <2>3, <3>1, <3>2, IdleImplements
  <2>6. CASE TxFull(x) \/ TxFail(x)
    BY <1>1, <1>2, <2>1, <2>6 DEF TxFull, TxFail, Return
  <2> QED
    BY <2>3, <2>4, <2>5, <2>6
<1>7. CASE RxNothing \/ RxFail
  BY <1>1, <1>2, <1>7 DEF RxNothing, RxFail, Return, pubVars, memVars, sockVars
<1>8. ASSUME Receive("ignored") \/ Receive("transfer"), npub' = npub, txq' = txq
      PROVE  UNCHANGED Outbox!vars
  <2>1. pc = "rx" /\ pc' # "publish" /\ now' = now /\ wire' = wire
    BY <1>8, ReceiveType
  <2> QED
    BY <1>1, <1>2, <1>8, <2>1
<1>9. CASE RxIgnored
  BY <1>8, <1>9 DEF RxIgnored, memVars
<1>10. CASE RxTransfer
  <2>1. PICK s \in Sources : \/ RxNoMemory(s) \/ RxUnanswered(s)
                             \/ \E n \in 1..MaxFrames : RxAnswered(s, n)
    BY <1>10 DEF RxTransfer
  <2>2. CASE RxNoMemory(s) \/ RxUnanswered(s)
    BY <1>8, <2>2 DEF RxNoMemory, RxUnanswered, RxAccepted
  <2>3. CASE \E n \in 1..MaxFrames : RxAnswered(s, n)
    BY <2>3, AnswerImplements
  <2> QED
    BY <2>1, <2>2, <2>3
<1>11. CASE (Environment /\ ~Tick) \/ UNCHANGED vars
  <2>1. /\ now' = now /\ wire' = wire /\ txq' = txq
        /\ pc' = pc /\ ifidx' = ifidx /\ npub' = npub
    BY <1>11 DEF Environment, DriverChange, Arrive, vars, pubVars, memVars, sockVars
  <2>2. \A i \in Ifaces : Offered(i)' = Offered(i)
    BY <2>1 DEF Offered
  <2> QED
    BY <1>1, <2>1, <2>2
<1> QED
  BY <1>3, <1>4, <1>5, <1>6, <1>7, <1>9, <1>10, <1>11, PublishImplements, TickImplements
     DEF Next, CallStep, Environment

(* The first state is a first state of Outbox.                             *)
LEMMA InitImplements == Init => Outbox!Init
<1> SUFFICES ASSUME Init PROVE Outbox!Init
  OBVIOUS
<1>1. \A i \in Ifaces : Offered(i) = 0 /\ LiveQueue(i) = {}
  BY DEF Init, Offered, LiveQueue
<1> QED
  BY <1>1 DEF Init, Outbox!Init

(* OpenCyphal keeps the promises of Outbox, for any number of interfaces:  *)
(* live frames only, the most urgent first, each once, transfers taken     *)
(* whole, and nothing lost to a full queue, a failed write or a return.    *)
THEOREM SendingImplementsOutbox == Spec => ImplementsOutbox
<1>1. TypeOK /\ TypeOK' /\ [Next]_vars => [Outbox!Next]_(Outbox!vars)
  BY StepImplements
<1> QED
  BY <1>1, InitImplements, TypeCorrect, PTL DEF Spec, ImplementsOutbox, Outbox!Spec

=============================================================================
