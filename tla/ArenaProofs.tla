---------------------------- MODULE ArenaProofs -----------------------------
(***************************************************************************)
(* A sized arena never runs out (OpenCyphal.cpp:127).  The frames a push   *)
(* asks blocks for are new and fit their queue, so the arena would not     *)
(* hold more blocks after it than all queues have places; and what is left *)
(* beyond these is enough for a session of every source.                   *)
(***************************************************************************)
EXTENDS OpenCyphalProofs, WellFoundedInduction

Sized == HeapBlocks >= CAN_REDUNDANCY_FACTOR * TxCapacity + Cardinality(Sources)

(* A queue keeps to its capacity.                                          *)
Within(q) == IsFiniteSet(q) /\ Cardinality(q) <= TxCapacity

QueuesBounded == \A i \in Ifaces : Within(txq[i])

(* The frames of a transfer share its CAN identifier and deadline.         *)
Coherent ==
  \A i \in Ifaces : \A x, y \in txq[i] :
    x.xfer = y.xfer => x.rank = y.rank /\ x.deadline = y.deadline

ArenaInv == SendInv /\ HeapOwned /\ QueuesBounded /\ Coherent /\ (Sized => ~oom)

-----------------------------------------------------------------------------
(* Counting                                                                *)

(* Queues within their capacity hold no more frames than there are places: *)
(* the frames of every queue are counted by the first of its places.       *)
LEMMA PlacesOfQueues ==
  ASSUME NEW q, \A i \in Ifaces : Within(q[i])
  PROVE  LET blocks == UNION { {i} \X q[i] : i \in Ifaces }
         IN  /\ IsFiniteSet(blocks)
             /\ Cardinality(blocks) <= CAN_REDUNDANCY_FACTOR * TxCapacity
<1> DEFINE blocks == UNION { {i} \X q[i] : i \in Ifaces }
           size(i) == Cardinality(q[i])
           nth == [i \in Ifaces |-> CHOOSE f : f \in Bijection(1..size(i), q[i])]
           all == Ifaces \X (1..TxCapacity)
           places == { p \in all : p[2] <= size(p[1]) }
           block == [p \in places |-> <<p[1], nth[p[1]][p[2]]>>]
<1>1. TxCapacity \in Nat /\ CAN_REDUNDANCY_FACTOR \in Nat \ {0}
  BY CanardTxAssumption, OpenCyphalAssumption
<1>2. ASSUME NEW i \in Ifaces
      PROVE  /\ size(i) \in Nat /\ size(i) <= TxCapacity
             /\ nth[i] \in Bijection(1..size(i), q[i])
  <2>1. size(i) \in Nat /\ ExistsBijection(1..size(i), q[i])
    BY FS_CardinalityType DEF Within
  <2>2. \E f : f \in Bijection(1..size(i), q[i])
    BY <2>1 DEF ExistsBijection
  <2> QED
    BY <2>1, <2>2 DEF Within
<1>3. IsFiniteSet(Ifaces) /\ Cardinality(Ifaces) = CAN_REDUNDANCY_FACTOR
  <2>1. 0 \in Int /\ CAN_REDUNDANCY_FACTOR - 1 \in Int
    BY <1>1
  <2>2. /\ IsFiniteSet(0..(CAN_REDUNDANCY_FACTOR - 1))
        /\ Cardinality(0..(CAN_REDUNDANCY_FACTOR - 1)) =
             IF 0 > CAN_REDUNDANCY_FACTOR - 1 THEN 0 ELSE (CAN_REDUNDANCY_FACTOR - 1) - 0 + 1
    BY <2>1, FS_Interval
  <2> QED
    BY <1>1, <2>2 DEF Ifaces
<1>4. IsFiniteSet(1..TxCapacity) /\ Cardinality(1..TxCapacity) = TxCapacity
  <2>1. /\ IsFiniteSet(1..TxCapacity)
        /\ Cardinality(1..TxCapacity) = IF 1 > TxCapacity THEN 0 ELSE TxCapacity - 1 + 1
    BY <1>1, FS_Interval
  <2> QED
    BY <1>1, <2>1
<1>5. IsFiniteSet(all) /\ Cardinality(all) = CAN_REDUNDANCY_FACTOR * TxCapacity
  BY <1>3, <1>4, FS_Product
<1>6. IsFiniteSet(places) /\ Cardinality(places) <= CAN_REDUNDANCY_FACTOR * TxCapacity
  <2>1. places \in SUBSET all
    OBVIOUS
  <2> QED
    BY <1>5, <2>1, FS_Subset
<1>7. block \in Surjection(places, blocks)
  <2>1. ASSUME NEW p \in places
        PROVE  block[p] \in blocks
    <3>1. p[1] \in Ifaces /\ p[2] \in 1..size(p[1])
      BY <1>2
    <3>2. nth[p[1]][p[2]] \in q[p[1]]
      BY <1>2, <3>1 DEF Bijection, Injection
    <3>3. block[p] = <<p[1], nth[p[1]][p[2]]>>
      OBVIOUS
    <3>4. block[p] \in {p[1]} \X q[p[1]]
      BY <3>2, <3>3
    <3> QED
      BY <3>1, <3>4
  <2>2. ASSUME NEW b \in blocks
        PROVE  \E p \in places : block[p] = b
    <3>1. PICK i \in Ifaces : b \in {i} \X q[i]
      OBVIOUS
    <3>2. PICK x \in q[i] : b = <<i, x>>
      BY <3>1
    <3>3. PICK j \in 1..size(i) : nth[i][j] = x
      BY <1>2, <3>2 DEF Bijection, Surjection
    <3>4. <<i, j>> \in places
      <4>1. size(i) \in Nat /\ size(i) <= TxCapacity
        BY <1>2
      <4> HIDE DEF size
      <4>2. j \in 1..TxCapacity /\ j <= size(i)
        BY <1>1, <4>1
      <4>3. <<i, j>> \in all /\ <<i, j>>[1] = i /\ <<i, j>>[2] = j
        BY <4>2
      <4> QED
        BY <4>2, <4>3
    <3> QED
      BY <3>2, <3>3, <3>4
  <2>3. block \in [places -> blocks]
    BY <2>1
  <2> QED
    BY <2>2, <2>3 DEF Surjection
<1>8. /\ IsFiniteSet(blocks)
      /\ Cardinality(blocks) <= Cardinality(places)
  BY <1>6, <1>7, FS_Surjection
<1>9. Cardinality(blocks) \in Nat /\ Cardinality(places) \in Nat
  BY <1>6, <1>8, FS_CardinalityType
<1>10. CAN_REDUNDANCY_FACTOR * TxCapacity \in Nat
  BY <1>5, FS_CardinalityType
<1> QED
  BY <1>6, <1>8, <1>9, <1>10

(* canardTxPush makes finitely many frames.                                *)
LEMMA FramesAreFinite ==
  ASSUME NEW k, NEW n \in Nat, NEW rank, NEW deadline
  PROVE  IsFiniteSet(FramesOf(k, n, rank, deadline))
<1> DEFINE frame == [j \in 1..n |-> [xfer |-> k, idx |-> j, rank |-> rank, deadline |-> deadline]]
<1>1. frame \in Surjection(1..n, FramesOf(k, n, rank, deadline))
  BY DEF Surjection, FramesOf
<1>2. IsFiniteSet(1..n)
  BY FS_Interval
<1> QED
  BY <1>1, <1>2, FS_Surjection

-----------------------------------------------------------------------------
(* A push keeps its queue within the capacity.                             *)
LEMMA PushWithin ==
  ASSUME TypeOK, QueuesBounded, NEW i \in Ifaces, NEW sess,
         NEW frames, IsFiniteSet(frames), Push(i, frames, sess)
  PROVE  QueuesBounded'
<1>1. ASSUME NEW j \in Ifaces
      PROVE  Within(txq'[j])
  <2>1. CASE j = i /\ Accepts(i, frames, sess)
    <3>1. txq'[j] = txq[i] \cup frames
      BY <2>1 DEF Push, TypeOK
    <3>2. IsFiniteSet(txq[i])
      BY DEF QueuesBounded, Within
    <3>3. Cardinality(txq[i]) + Cardinality(frames) <= TxCapacity
      BY <2>1 DEF Accepts, Fits
    <3>4. /\ IsFiniteSet(txq[i] \cup frames)
          /\ Cardinality(txq[i] \cup frames) =
               Cardinality(txq[i]) + Cardinality(frames) - Cardinality(txq[i] \cap frames)
      BY <3>2, FS_Union
    <3>5. IsFiniteSet(txq[i] \cap frames)
      BY <3>2, FS_Intersection
    <3>6. /\ Cardinality(txq[i]) \in Nat /\ Cardinality(frames) \in Nat
          /\ Cardinality(txq[i] \cap frames) \in Nat
      BY <3>2, <3>5, FS_CardinalityType
    <3>7. TxCapacity \in Nat
      BY CanardTxAssumption
    <3>8. Cardinality(txq[i] \cup frames) <= TxCapacity
      BY <3>3, <3>4, <3>6, <3>7
    <3> QED
      BY <3>1, <3>4, <3>8 DEF Within
  <2>2. CASE j # i \/ ~Accepts(i, frames, sess)
    <3>1. txq'[j] = txq[j]
      BY <2>2 DEF Push, TypeOK
    <3> QED
      BY <3>1 DEF QueuesBounded
  <2> QED
    BY <2>1, <2>2
<1> QED
  BY <1>1 DEF QueuesBounded

(* A push of a new transfer keeps the frames of every transfer alike.      *)
LEMMA PushCoherent ==
  ASSUME TypeOK, Coherent, NEW i \in Ifaces, NEW sess,
         NEW k \in Int, NEW n, NEW rank, NEW deadline,
         \A x \in txq[i] : x.xfer \in Int /\ x.xfer < k,
         Push(i, FramesOf(k, n, rank, deadline), sess)
  PROVE  Coherent'
<1> DEFINE frames == FramesOf(k, n, rank, deadline)
<1>1. \A x \in frames : x.xfer = k /\ x.rank = rank /\ x.deadline = deadline
  BY DEF FramesOf
<1>2. ASSUME NEW j \in Ifaces, NEW x \in txq'[j]
      PROVE  x \in txq[j] \/ (j = i /\ x \in frames)
  BY DEF Push, TypeOK
<1> HIDE DEF frames
<1>3. ASSUME NEW j \in Ifaces, NEW x \in txq'[j], NEW y \in txq'[j], x.xfer = y.xfer
      PROVE  x.rank = y.rank /\ x.deadline = y.deadline
  <2>1. CASE x \in txq[j] /\ y \in txq[j]
    BY <1>3, <2>1 DEF Coherent
  <2>2. CASE x \notin txq[j] \/ y \notin txq[j]
    BY <1>1, <1>2, <1>3, <2>2
  <2> QED
    BY <2>1, <2>2
<1> QED
  BY <1>3 DEF Coherent

(* Queues that only lose frames stay within the capacity, and coherent.    *)
LEMMA PopWithin ==
  ASSUME TypeOK, QueuesBounded, Coherent, \A i \in Ifaces : txq'[i] \subseteq txq[i]
  PROVE  QueuesBounded' /\ Coherent'
<1>1. ASSUME NEW i \in Ifaces
      PROVE  Within(txq'[i])
  <2>1. IsFiniteSet(txq[i]) /\ Cardinality(txq[i]) <= TxCapacity
    BY DEF QueuesBounded, Within
  <2>2. IsFiniteSet(txq'[i]) /\ Cardinality(txq'[i]) <= Cardinality(txq[i])
    BY <2>1, FS_Subset
  <2>3. Cardinality(txq'[i]) \in Nat /\ Cardinality(txq[i]) \in Nat /\ TxCapacity \in Nat
    BY <2>1, <2>2, FS_CardinalityType, CanardTxAssumption
  <2> QED
    BY <2>1, <2>2, <2>3 DEF Within
<1>2. Coherent'
  BY DEF Coherent
<1> QED
  BY <1>1, <1>2 DEF QueuesBounded

(* The blocks in the arena are no more than the places of the queues.      *)
LEMMA HeapBound ==
  ASSUME HeapOwned, QueuesBounded
  PROVE  /\ IsFiniteSet(heap)
         /\ Cardinality(heap) <= CAN_REDUNDANCY_FACTOR * TxCapacity
  BY PlacesOfQueues DEF HeapOwned, QueuesBounded

(* New frames that fit their queue find room in a sized arena.             *)
LEMMA PushFindsRoom ==
  ASSUME Sized, TypeOK, HeapOwned, QueuesBounded, NEW i \in Ifaces,
         NEW frames, IsFiniteSet(frames), Fits(txq[i], frames),
         txq[i] \cap frames = {},
         NEW sess \in SUBSET Sources
  PROVE  ~(Cardinality(frames) > Free(sess))
<1> DEFINE q == [j \in Ifaces |-> IF j = i THEN txq[i] \cup frames ELSE txq[j]]
           blocks == UNION { {j} \X q[j] : j \in Ifaces }
           added == {i} \X frames
<1>1. \A j \in Ifaces : Within(q[j])
  <2>1. IsFiniteSet(txq[i])
    BY DEF QueuesBounded, Within
  <2>2. /\ IsFiniteSet(txq[i] \cup frames)
        /\ Cardinality(txq[i] \cup frames) =
             Cardinality(txq[i]) + Cardinality(frames) - Cardinality(txq[i] \cap frames)
    BY <2>1, FS_Union
  <2>3. Cardinality(txq[i] \cap frames) = 0
    BY FS_EmptySet
  <2>4. /\ Cardinality(txq[i]) \in Nat /\ Cardinality(frames) \in Nat
        /\ TxCapacity \in Nat
    BY <2>1, FS_CardinalityType, CanardTxAssumption
  <2>5. Within(txq[i] \cup frames)
    BY <2>2, <2>3, <2>4 DEF Fits, Within
  <2> QED
    BY <2>5 DEF QueuesBounded
<1>2. IsFiniteSet(blocks) /\ Cardinality(blocks) <= CAN_REDUNDANCY_FACTOR * TxCapacity
  BY <1>1, PlacesOfQueues
<1>3. blocks = heap \cup added /\ heap \cap added = {}
  <2>1. \A b : b \in blocks <=> \E j \in Ifaces : \E x \in q[j] : b = <<j, x>>
    BY OwnedBlocks
  <2>2. \A b : b \in heap <=> \E j \in Ifaces : \E x \in txq[j] : b = <<j, x>>
    BY OwnedBlocks DEF HeapOwned
  <2>3. ASSUME NEW b
        PROVE  b \in blocks <=> b \in heap \cup added
    <3>1. b \in added <=> \E x \in frames : b = <<i, x>>
      OBVIOUS
    <3> QED
      BY <2>1, <2>2, <3>1
  <2>4. ASSUME NEW b \in heap, b \in added
        PROVE  FALSE
    <3>1. PICK x \in frames : b = <<i, x>>
      BY <2>4
    <3>2. x \in txq[i]
      BY <2>2, <2>4, <3>1
    <3> QED
      BY <3>1, <3>2
  <2> HIDE DEF blocks, added
  <2> QED
    BY <2>3, <2>4
<1>4. IsFiniteSet(added) /\ Cardinality(added) = Cardinality(frames)
  <2>1. IsFiniteSet({i}) /\ Cardinality({i}) = 1
    BY FS_Singleton
  <2>2. IsFiniteSet(added) /\ Cardinality(added) = Cardinality({i}) * Cardinality(frames)
    BY <2>1, FS_Product
  <2>3. Cardinality(frames) \in Nat
    BY FS_CardinalityType
  <2> QED
    BY <2>1, <2>2, <2>3
<1>5. IsFiniteSet(heap)
  BY HeapBound
<1>6. Cardinality(blocks) = Cardinality(heap) + Cardinality(frames)
  <2>1. Cardinality(heap \cup added) =
          Cardinality(heap) + Cardinality(added) - Cardinality(heap \cap added)
    BY <1>4, <1>5, FS_Union
  <2>2. Cardinality(heap \cap added) = 0
    BY <1>3, FS_EmptySet
  <2>3. Cardinality(heap) \in Nat /\ Cardinality(added) \in Nat
    BY <1>4, <1>5, FS_CardinalityType
  <2> HIDE DEF blocks, added
  <2> QED
    BY <1>3, <1>4, <2>1, <2>2, <2>3
<1>7. /\ Cardinality(sess) \in Nat /\ Cardinality(Sources) \in Nat
      /\ Cardinality(sess) <= Cardinality(Sources)
  BY OpenCyphalAssumption, FS_Subset, FS_CardinalityType
<1>8. /\ Cardinality(heap) \in Nat /\ Cardinality(frames) \in Nat /\ Cardinality(blocks) \in Nat
      /\ HeapBlocks \in Nat
  BY <1>2, <1>5, FS_CardinalityType, OpenCyphalAssumption
<1>9. PICK limit \in Nat : limit = CAN_REDUNDANCY_FACTOR * TxCapacity
  BY CanardTxAssumption, OpenCyphalAssumption
<1> HIDE DEF blocks
<1> QED
  BY <1>2, <1>6, <1>7, <1>8, <1>9 DEF Sized, Free

(* A push of a new transfer never counts as out of memory.                 *)
LEMMA PushNominal ==
  ASSUME Sized, TypeOK, HeapOwned, QueuesBounded, ~oom, NEW i \in Ifaces,
         NEW k \in Int, NEW n \in Nat, NEW rank, NEW deadline,
         \A x \in txq[i] : x.xfer \in Int /\ x.xfer < k,
         NEW sess \in SUBSET Sources,
         Push(i, FramesOf(k, n, rank, deadline), sess)
  PROVE  ~oom'
<1> DEFINE frames == FramesOf(k, n, rank, deadline)
<1>1. IsFiniteSet(frames)
  BY FramesAreFinite
<1>2. \A x \in frames : x.xfer = k
  BY DEF FramesOf
<1> HIDE DEF frames
<1>3. txq[i] \cap frames = {}
  BY <1>2
<1>4. oom' = (oom \/ (Fits(txq[i], frames) /\ Cardinality(frames) > Free(sess)))
  BY DEF Push, frames
<1>5. CASE Fits(txq[i], frames)
  BY <1>1, <1>3, <1>4, <1>5, PushFindsRoom
<1>6. CASE ~Fits(txq[i], frames)
  BY <1>4, <1>6
<1> QED
  BY <1>5, <1>6

(* A new source finds room for its session.                                *)
LEMMA SessionFindsRoom ==
  ASSUME Sized, TypeOK, HeapOwned, QueuesBounded, NEW s \in Sources, s \notin sessions
  PROVE  ~(Free(sessions) < 1)
<1>1. IsFiniteSet(Sources) /\ sessions \subseteq Sources
  BY OpenCyphalAssumption DEF TypeOK
<1>2. IsFiniteSet(sessions) /\ IsFiniteSet(sessions \cup {s})
  BY <1>1, FS_Subset, FS_AddElement
<1>3. Cardinality(sessions \cup {s}) = Cardinality(sessions) + 1
  BY <1>2, FS_AddElement
<1>4. Cardinality(sessions \cup {s}) <= Cardinality(Sources)
  BY <1>1, FS_Subset
<1>5. IsFiniteSet(heap) /\ Cardinality(heap) <= CAN_REDUNDANCY_FACTOR * TxCapacity
  BY HeapBound
<1>6. /\ Cardinality(heap) \in Nat /\ Cardinality(sessions) \in Nat
      /\ Cardinality(Sources) \in Nat /\ HeapBlocks \in Nat
  BY <1>1, <1>2, <1>5, FS_CardinalityType, OpenCyphalAssumption
<1>7. PICK limit \in Nat : limit = CAN_REDUNDANCY_FACTOR * TxCapacity
  BY CanardTxAssumption, OpenCyphalAssumption
<1> QED
  BY <1>3, <1>4, <1>5, <1>6, <1>7 DEF Sized, Free

-----------------------------------------------------------------------------
(* Publishing preserves the invariant.                                     *)
LEMMA PublishArena ==
  ASSUME ArenaInv, PublishOnInterface
  PROVE  QueuesBounded' /\ Coherent' /\ (Sized => ~oom')
<1>1. TypeOK /\ HeapOwned /\ QueuesBounded /\ OrderInv /\ Coherent /\ (Sized => ~oom)
  BY DEF ArenaInv, SendInv
<1>2. /\ pc = "publish"
      /\ Push(ifidx, FramesOf(npub, transfer.frames, transfer.rank, transfer.deadline), sessions)
  BY DEF PublishOnInterface
<1>3. PICK i \in Ifaces : i = ifidx
  BY <1>1, OpenCyphalAssumption, SMT DEF PublishOnInterface, TypeOK, Ifaces
<1>4. Push(i, FramesOf(npub, transfer.frames, transfer.rank, transfer.deadline), sessions)
  BY <1>2, <1>3 DEF Push, Accepts
<1>5. npub \in Int /\ transfer.frames \in Nat /\ sessions \in SUBSET Sources
  BY <1>1, <1>2, PublishArguments, CanardTxAssumption DEF TypeOK, Transfers
<1>6. \A x \in txq[i] : x.xfer \in Int /\ x.xfer < npub
  <2>1. TAKE x \in txq[i]
  <2>2. x.xfer \in Int
    BY <1>1, ItemType
  <2>3. Offered(i) = npub - 1
    BY <1>2, <1>3, IfacesType DEF Offered
  <2>4. x.xfer <= Offered(i)
    BY <1>1 DEF OrderInv
  <2> QED
    BY <1>5, <2>2, <2>3, <2>4
<1>7. QueuesBounded'
  BY <1>1, <1>4, <1>5, FramesAreFinite, PushWithin
<1>8. Sized => ~oom'
  BY <1>1, <1>4, <1>5, <1>6, PushNominal
<1>9. Coherent'
  BY <1>1, <1>4, <1>5, <1>6, PushCoherent
<1> QED
  BY <1>7, <1>8, <1>9

(* Answering a request preserves the invariant.                            *)
LEMMA AnswerArena ==
  ASSUME ArenaInv, NEW s \in Sources, NEW n \in 1..MaxFrames, RxAnswered(s, n)
  PROVE  QueuesBounded' /\ Coherent' /\ (Sized => ~oom')
<1>1. TypeOK /\ HeapOwned /\ QueuesBounded /\ OrderInv /\ Coherent /\ (Sized => ~oom)
  BY DEF ArenaInv, SendInv
<1>2. pc = "rx" /\ ifidx \in Ifaces
  BY <1>1, ReceiveType DEF RxAnswered, RxAccepted
<1>3. PICK i \in Ifaces : i = ifidx
  BY <1>2
<1>4. sessions' \in SUBSET Sources
  BY <1>1 DEF RxAnswered, RxAccepted, TypeOK
<1>5. PICK sess \in SUBSET Sources : sess = sessions'
  BY <1>4
<1>6. Push(i, FramesOf(npub + 1, n, ServiceRank, now + ResponseLifetime), sess)
  BY <1>3, <1>5 DEF RxAnswered, Push, Accepts, Free
<1>7. npub \in Int /\ npub + 1 \in Int /\ n \in Nat
  BY <1>1, CanardTxAssumption DEF TypeOK, Transfers
<1>8. \A x \in txq[i] : x.xfer \in Int /\ x.xfer < npub + 1
  <2>1. TAKE x \in txq[i]
  <2>2. x.xfer \in Int
    BY <1>1, ItemType
  <2>3. Offered(i) = npub
    BY <1>2 DEF Offered
  <2>4. x.xfer <= Offered(i)
    BY <1>1 DEF OrderInv
  <2> QED
    BY <1>7, <2>2, <2>3, <2>4
<1>9. QueuesBounded'
  BY <1>1, <1>6, <1>7, FramesAreFinite, PushWithin
<1>10. Sized => ~oom'
  BY <1>1, <1>6, <1>7, <1>8, PushNominal
<1>11. Coherent'
  BY <1>1, <1>6, <1>7, <1>8, PushCoherent
<1> QED
  BY <1>9, <1>10, <1>11

(* Every step preserves the bounds of the queues and of the arena.         *)
LEMMA ArenaStep ==
  ASSUME ArenaInv, [Next]_vars
  PROVE  QueuesBounded' /\ Coherent' /\ (Sized => ~oom')
<1>1. TypeOK /\ HeapOwned /\ QueuesBounded /\ Coherent /\ (Sized => ~oom)
  BY DEF ArenaInv, SendInv
<1>2. ASSUME \A i \in Ifaces : txq'[i] \subseteq txq[i], oom' = oom
      PROVE  QueuesBounded' /\ Coherent' /\ (Sized => ~oom')
  BY <1>1, <1>2, PopWithin
<1>3. CASE PublishOnInterface
  BY <1>3, PublishArena
<1>4. ASSUME NEW s \in Sources, NEW n \in 1..MaxFrames, RxAnswered(s, n)
      PROVE  QueuesBounded' /\ Coherent' /\ (Sized => ~oom')
  BY <1>4, AnswerArena
<1>5. ASSUME NEW s \in Sources, RxNoMemory(s)
      PROVE  QueuesBounded' /\ Coherent' /\ (Sized => ~oom')
  <2>1. ~Sized
    BY <1>1, <1>5, SessionFindsRoom DEF RxNoMemory
  <2>2. \A i \in Ifaces : txq'[i] \subseteq txq[i]
    BY <1>5 DEF RxNoMemory
  <2> QED
    BY <1>1, <2>1, <2>2, PopWithin
<1>6. CASE TxHead
  <2>1. PICK x \in txq[ifidx] : TxExpire(x) \/ TxSend(x) \/ TxFull(x) \/ TxFail(x)
    BY <1>6 DEF TxHead
  <2>2. oom' = oom
    BY <1>6 DEF TxHead
  <2>3. CASE PopAndFree(x)
    <3>1. \A i \in Ifaces : txq'[i] \subseteq txq[i]
      BY <1>1, <2>3 DEF PopAndFree, TypeOK
    <3> QED
      BY <1>2, <2>2, <3>1
  <2>4. CASE txq' = txq
    BY <1>2, <2>2, <2>4
  <2> QED
    BY <2>1, <2>3, <2>4 DEF TxExpire, TxSend, TxFull, TxFail
<1>7. CASE txq' = txq /\ oom' = oom
  BY <1>2, <1>7
<1>8. CASE Publish
  BY <1>7, <1>8 DEF Publish, PublishBegin, memVars
<1>9. CASE HandleTxRxQueues \/ PublishReturn \/ TxEmpty \/ RxNothing \/ RxFail \/ RxIgnored
  BY <1>7, <1>9 DEF HandleTxRxQueues, PublishReturn, TxEmpty, RxNothing, RxFail, RxIgnored, memVars
<1>10. CASE RxTransfer
  <2>1. ASSUME NEW s \in Sources, RxUnanswered(s)
        PROVE  QueuesBounded' /\ Coherent' /\ (Sized => ~oom')
    BY <1>7, <2>1 DEF RxUnanswered
  <2> QED
    BY <1>4, <1>5, <1>10, <2>1 DEF RxTransfer
<1>11. CASE Environment
  BY <1>7, <1>11 DEF Environment, Tick, DriverChange, Arrive, memVars
<1>12. CASE UNCHANGED vars
  BY <1>7, <1>12 DEF vars, memVars
<1> QED
  BY <1>3, <1>6, <1>8, <1>9, <1>10, <1>11, <1>12 DEF Next, CallStep

(* The queues of the first state are empty.                                *)
LEMMA ArenaInit ==
  ASSUME Init
  PROVE  QueuesBounded /\ Coherent /\ (Sized => ~oom)
<1>1. Within({})
  BY FS_EmptySet, CanardTxAssumption DEF Within
<1> QED
  BY <1>1 DEF Init, QueuesBounded, Coherent

(* ArenaInv holds of every state.                                          *)
LEMMA ArenaInvHolds == Spec => []ArenaInv
<1>1. Init => QueuesBounded /\ Coherent /\ (Sized => ~oom)
  BY ArenaInit
<1>2. SendInv /\ HeapOwned /\ QueuesBounded /\ Coherent /\ (Sized => ~oom) /\ [Next]_vars =>
        QueuesBounded' /\ Coherent' /\ (Sized => ~oom)'
  <2> SUFFICES ASSUME ArenaInv, [Next]_vars
               PROVE  QueuesBounded' /\ Coherent' /\ (Sized => ~oom')
    BY DEF ArenaInv, Sized
  <2> QED
    BY ArenaStep
<1> QED
  BY <1>1, <1>2, SendInvariant, HeapAlwaysOwned, PTL DEF Spec, ArenaInv

(* With room in the arena for full queues and a session of every source no *)
(* allocation fails, so Health stays nominal (OpenCyphal.cpp:127,135-142). *)
THEOREM SizedArenaSuffices == Spec => []SizedHeapNeverOOM
<1>1. ArenaInv => SizedHeapNeverOOM
  BY DEF ArenaInv, Sized, SizedHeapNeverOOM
<1> QED
  BY <1>1, ArenaInvHolds, PTL

-----------------------------------------------------------------------------
(* Every call winds down.                                                  *)

(* Steps the interfaces after i can take.                                  *)
Later(i) == (CAN_REDUNDANCY_FACTOR - 1 - i) * (TxCapacity + 2)

(* An interface that is still to come has its share in it.                 *)
LEMMA LaterType ==
  ASSUME NEW i \in Ifaces
  PROVE  /\ Later(i) \in Nat
         /\ i + 1 < CAN_REDUNDANCY_FACTOR => Later(i) = Later(i + 1) + TxCapacity + 2
<1>1. i \in Nat /\ i < CAN_REDUNDANCY_FACTOR /\ CAN_REDUNDANCY_FACTOR \in Nat /\ TxCapacity \in Nat
  BY OpenCyphalAssumption, CanardTxAssumption, SMT DEF Ifaces
<1>2. PICK n \in Nat : n = CAN_REDUNDANCY_FACTOR - 1 - i
  BY <1>1
<1>3. Later(i) = n * (TxCapacity + 2) /\ Later(i) \in Nat
  BY <1>1, <1>2, SMT DEF Later
<1>4. ASSUME i + 1 < CAN_REDUNDANCY_FACTOR
      PROVE  Later(i) = Later(i + 1) + TxCapacity + 2
  <2>1. Later(i + 1) = (n - 1) * (TxCapacity + 2)
    <3>1. CAN_REDUNDANCY_FACTOR - 1 - (i + 1) = n - 1
      BY <1>1, <1>2
    <3> QED
      BY <3>1 DEF Later
  <2>2. n * (TxCapacity + 2) = (n - 1) * (TxCapacity + 2) + (TxCapacity + 2)
    BY <1>1, SMT
  <2>3. (n - 1) * (TxCapacity + 2) \in Int
    BY <1>1
  <2> QED
    BY <1>1, <1>3, <2>1, <2>2, <2>3
<1> QED
  BY <1>3, <1>4

(* While a call is in progress there is something left of it.              *)
LEMMA StepsLeftType ==
  ASSUME TypeOK, QueuesBounded, pc # "idle"
  PROVE  StepsLeft \in Nat \ {0}
<1>1. CASE pc = "publish"
  <2>1. ifidx \in 0..CAN_REDUNDANCY_FACTOR /\ CAN_REDUNDANCY_FACTOR \in Nat
    BY <1>1, OpenCyphalAssumption DEF TypeOK
  <2> QED
    BY <1>1, <2>1 DEF StepsLeft
<1>2. CASE pc = "rx"
  <2>1. ifidx \in Ifaces
    BY <1>2 DEF TypeOK
  <2>2. StepsLeft = Later(ifidx) + 1
    BY <1>2 DEF StepsLeft, Later
  <2> QED
    BY <2>1, <2>2, LaterType
<1>3. CASE pc = "tx"
  <2>1. ifidx \in Ifaces
    BY <1>3 DEF TypeOK
  <2>2. StepsLeft = Later(ifidx) + Cardinality(txq[ifidx]) + 2
    BY <1>3 DEF StepsLeft, Later
  <2>3. Cardinality(txq[ifidx]) \in Nat
    BY <2>1, FS_CardinalityType DEF QueuesBounded, Within
  <2> QED
    BY <2>1, <2>2, <2>3, LaterType
<1> QED
  BY <1>1, <1>2, <1>3 DEF TypeOK

(* A call that has returned has nothing left.                              *)
LEMMA ReturnWindsDown ==
  ASSUME TypeOK, QueuesBounded, pc # "idle", pc' = "idle"
  PROVE  StepsLeft' < StepsLeft
<1>1. StepsLeft' = 0
  BY DEF StepsLeft
<1> QED
  BY <1>1, StepsLeftType

(* The loop of Publish comes to its end.                                   *)
LEMMA PublishWindsDown ==
  ASSUME TypeOK, QueuesBounded, PublishOnInterface \/ PublishReturn
  PROVE  StepsLeft' < StepsLeft
<1>1. CASE PublishOnInterface
  <2>1. pc = "publish" /\ pc' = "publish" /\ ifidx' = ifidx + 1
    BY <1>1 DEF PublishOnInterface
  <2>2. ifidx \in Nat /\ CAN_REDUNDANCY_FACTOR \in Nat
    BY <2>1, OpenCyphalAssumption DEF TypeOK
  <2> QED
    BY <2>1, <2>2 DEF StepsLeft
<1>2. CASE PublishReturn
  BY <1>2, ReturnWindsDown DEF PublishReturn
<1> QED
  BY <1>1, <1>2

(* The send loop takes a frame from its queue, or ends.                    *)
LEMMA TxWindsDown ==
  ASSUME TypeOK, QueuesBounded, TxHead \/ TxEmpty
  PROVE  StepsLeft' < StepsLeft
<1>1. pc = "tx" /\ ifidx \in Ifaces
  BY DEF TxHead, TxEmpty, TypeOK
<1>2. PICK n \in Nat : n = Later(ifidx)
  BY <1>1, LaterType
<1>3. IsFiniteSet(txq[ifidx]) /\ Cardinality(txq[ifidx]) \in Nat
  BY <1>1, FS_CardinalityType DEF QueuesBounded, Within
<1>4. StepsLeft = n + Cardinality(txq[ifidx]) + 2
  BY <1>1, <1>2 DEF StepsLeft, Later
<1>5. ASSUME pc' = "rx", ifidx' = ifidx
      PROVE  StepsLeft' < StepsLeft
  <2>1. StepsLeft' = n + 1
    BY <1>2, <1>5 DEF StepsLeft, Later
  <2> QED
    BY <1>3, <1>4, <2>1
<1>6. ASSUME NEW x \in txq[ifidx], PopAndFree(x), pc' = pc, ifidx' = ifidx
      PROVE  StepsLeft' < StepsLeft
  <2>1. txq'[ifidx] = txq[ifidx] \ {x}
    BY <1>1, <1>6 DEF PopAndFree, TypeOK
  <2>2. Cardinality(txq[ifidx] \ {x}) = Cardinality(txq[ifidx]) - 1
    BY <1>3, FS_RemoveElement
  <2>3. StepsLeft' = n + Cardinality(txq'[ifidx]) + 2
    BY <1>1, <1>2, <1>6 DEF StepsLeft, Later
  <2> QED
    BY <1>3, <1>4, <2>1, <2>2, <2>3
<1>7. CASE TxEmpty
  BY <1>5, <1>7 DEF TxEmpty
<1>8. CASE TxHead
  <2>1. PICK x \in txq[ifidx] : TxExpire(x) \/ TxSend(x) \/ TxFull(x) \/ TxFail(x)
    BY <1>8 DEF TxHead
  <2>2. CASE TxExpire(x) \/ TxSend(x)
    BY <1>6, <2>2 DEF TxExpire, TxSend
  <2>3. CASE TxFull(x)
    BY <1>5, <2>3 DEF TxFull
  <2>4. CASE TxFail(x)
    BY <1>1, <2>4, ReturnWindsDown DEF TxFail, Return
  <2> QED
    BY <2>1, <2>2, <2>3, <2>4
<1> QED
  BY <1>7, <1>8

(* An answer may be queued, but the queue it is in is not come back to.    *)
LEMMA NextInterfaceWindsDown ==
  ASSUME TypeOK, QueuesBounded, QueuesBounded', pc = "rx", NextInterface
  PROVE  StepsLeft' < StepsLeft
<1>1. CASE ifidx + 1 < CAN_REDUNDANCY_FACTOR
  <2>1. ifidx \in Ifaces /\ pc' = "tx" /\ ifidx' = ifidx + 1
    BY <1>1 DEF NextInterface, TypeOK
  <2>2. ifidx' \in Ifaces
    BY <1>1, <2>1, OpenCyphalAssumption, SMT DEF Ifaces
  <2>3. StepsLeft = Later(ifidx) + 1
    BY DEF StepsLeft, Later
  <2>4. StepsLeft' = Later(ifidx') + Cardinality(txq'[ifidx']) + 2
    BY <2>1 DEF StepsLeft, Later
  <2>5. Within(txq'[ifidx'])
    BY <2>2 DEF QueuesBounded
  <2>6. Cardinality(txq'[ifidx']) \in Nat /\ Cardinality(txq'[ifidx']) <= TxCapacity
    BY <2>5, FS_CardinalityType DEF Within
  <2>7. /\ Later(ifidx) = Later(ifidx') + TxCapacity + 2
        /\ Later(ifidx') \in Nat /\ TxCapacity \in Nat
    BY <1>1, <2>1, <2>2, LaterType, CanardTxAssumption
  <2> QED
    BY <2>3, <2>4, <2>6, <2>7
<1>2. CASE ~(ifidx + 1 < CAN_REDUNDANCY_FACTOR)
  BY <1>2, ReturnWindsDown DEF NextInterface, Return
<1> QED
  BY <1>1, <1>2

(* The receive ends the pass, or the call.                                 *)
LEMMA RxWindsDown ==
  ASSUME TypeOK, QueuesBounded, QueuesBounded',
         RxNothing \/ RxFail \/ RxIgnored \/ RxTransfer
  PROVE  StepsLeft' < StepsLeft
<1>1. CASE RxNothing \/ RxFail
  BY <1>1, ReturnWindsDown DEF RxNothing, RxFail, Return
<1>2. ASSUME NEW kind, Receive(kind)
      PROVE  StepsLeft' < StepsLeft
  BY <1>2, NextInterfaceWindsDown DEF Receive
<1>3. CASE RxIgnored
  BY <1>2, <1>3 DEF RxIgnored
<1>4. CASE RxTransfer
  BY <1>2, <1>4 DEF RxTransfer, RxNoMemory, RxUnanswered, RxAnswered, RxAccepted
<1> QED
  BY <1>1, <1>3, <1>4

(* Every step of a call brings it nearer to its end, by a measure that is  *)
(* bounded from the outset: the loops of HandleTxRxQueues and Publish end  *)
(* (OpenCyphal.cpp:46,77,81), also with answers queued on the way.         *)
THEOREM CallsWindDownHolds == Spec => CallsWindDown
<1>1. ArenaInv /\ ArenaInv' /\ [Next]_vars =>
        [pc # "idle" => \/ StepsLeft' < StepsLeft
                        \/ UNCHANGED <<pc, ifidx, now, ret, pubVars, memVars, wire>>]_vars
  <2>1. SUFFICES ASSUME ArenaInv, ArenaInv', Next, pc # "idle"
                 PROVE  \/ StepsLeft' < StepsLeft
                        \/ UNCHANGED <<pc, ifidx, now, ret, pubVars, memVars, wire>>
    OBVIOUS
  <2>2. TypeOK /\ QueuesBounded /\ QueuesBounded'
    BY <2>1 DEF ArenaInv, SendInv
  <2>3. ~Publish /\ ~HandleTxRxQueues /\ ~Tick
    BY <2>1 DEF Publish, PublishBegin, HandleTxRxQueues, Tick
  <2>4. CASE CallStep
    BY <2>2, <2>4, PublishWindsDown, TxWindsDown, RxWindsDown DEF CallStep
  <2>5. CASE Environment
    BY <2>3, <2>5 DEF Environment, DriverChange, Arrive
  <2> QED
    BY <2>1, <2>3, <2>4, <2>5 DEF Next
<1> QED
  BY <1>1, ArenaInvHolds, PTL DEF Spec, CallsWindDown

-----------------------------------------------------------------------------
(* The send loop always has a frame to go on with.                         *)

(* The order of a coherent queue tells any two frames apart.               *)
LEMMA BeforeOrders ==
  ASSUME NEW q \in SUBSET Item,
         \A x, y \in q : x.xfer = y.xfer => x.rank = y.rank /\ x.deadline = y.deadline,
         NEW x \in q, NEW y \in q, NEW z \in q
  PROVE  /\ x = y \/ Before(x, y) \/ Before(y, x)
         /\ ~(x # y /\ Before(x, y) /\ Before(y, x))
         /\ Before(x, y) /\ Before(y, z) => Before(x, z)
<1>1. ASSUME NEW t \in q
      PROVE  /\ t.rank \in Int /\ t.xfer \in Int /\ t.idx \in Int
             /\ t = [xfer |-> t.xfer, idx |-> t.idx, rank |-> t.rank, deadline |-> t.deadline]
  <2>1. t \in Item
    OBVIOUS
  <2>2. t.rank \in Ranks /\ t.xfer \in Transfers /\ t.idx \in 1..MaxFrames
    BY <2>1 DEF Item
  <2>3. t = [xfer |-> t.xfer, idx |-> t.idx, rank |-> t.rank, deadline |-> t.deadline]
    BY <2>1 DEF Item
  <2> QED
    BY <2>2, <2>3, CanardTxAssumption DEF Transfers
<1>2. x = y \/ Before(x, y) \/ Before(y, x)
  <2>1. SUFFICES ASSUME ~Before(x, y), ~Before(y, x) PROVE x = y
    OBVIOUS
  <2>2. x.rank = y.rank /\ x.xfer = y.xfer /\ x.idx = y.idx
    BY <1>1, <2>1 DEF Before
  <2>3. x.deadline = y.deadline
    BY <2>2
  <2> QED
    BY <1>1, <2>2, <2>3
<1>3. ~(Before(x, y) /\ Before(y, x))
  BY <1>1 DEF Before
<1>4. Before(x, y) /\ Before(y, z) => Before(x, z)
  BY <1>1 DEF Before
<1> QED
  BY <1>2, <1>3, <1>4

(* A coherent queue that is not empty has a head.                          *)
LEMMA HeadExists ==
  ASSUME NEW q \in SUBSET Item, IsFiniteSet(q), q # {},
         \A x, y \in q : x.xfer = y.xfer => x.rank = y.rank /\ x.deadline = y.deadline
  PROVE  \E x \in q : IsHead(q, x)
<1> DEFINE Headless(s) == s # {} /\ ~\E x \in s : IsHead(s, x)
           sizes == {n \in Nat : \E s \in SUBSET q : Headless(s) /\ Cardinality(s) = n}
<1>1. SUFFICES ASSUME Headless(q) PROVE FALSE
  OBVIOUS
<1>2. \A s \in SUBSET q : IsFiniteSet(s) /\ Cardinality(s) \in Nat
  BY FS_Subset, FS_CardinalityType
<1>3. \E n \in sizes : \A m \in sizes : ~(<<m, n>> \in OpToRel(<, Nat))
  <2>1. sizes \subseteq Nat
    OBVIOUS
  <2>2. Cardinality(q) \in sizes
    BY <1>1, <1>2
  <2> HIDE DEF sizes
  <2> QED
    BY <2>1, <2>2, NatLessThanWellFounded, WFMin
<1>4. PICK n \in sizes : \A m \in sizes : ~(<<m, n>> \in OpToRel(<, Nat))
  BY <1>3
<1>5. PICK s \in SUBSET q : Headless(s) /\ Cardinality(s) = n
  OBVIOUS
<1>6. PICK y \in s : TRUE
  BY <1>5
<1>7. ASSUME NEW z \in s \ {y}, IsHead(s \ {y}, z)
      PROVE  FALSE
  <2>1. y \in q /\ z \in q /\ \A t \in s : t \in q
    OBVIOUS
  <2>2. CASE Before(z, y)
    BY <1>5, <1>7, <2>2 DEF IsHead
  <2>3. CASE Before(y, z)
    <3>1. \A t \in s : t = y \/ Before(y, t)
      BY <1>7, <2>1, <2>3, BeforeOrders DEF IsHead
    <3> QED
      BY <1>5, <3>1 DEF IsHead
  <2> QED
    BY <1>7, <2>1, <2>2, <2>3, BeforeOrders
<1>8. s \ {y} # {}
  BY <1>5 DEF IsHead
<1>9. Headless(s \ {y})
  BY <1>7, <1>8
<1>10. Cardinality(s \ {y}) = n - 1 /\ n \in Nat /\ n - 1 \in Nat
  <2>1. IsFiniteSet(s) /\ s \ {y} \in SUBSET q
    BY <1>2
  <2>2. Cardinality(s \ {y}) = Cardinality(s) - 1
    BY <2>1, FS_RemoveElement
  <2>3. Cardinality(s \ {y}) \in Nat
    BY <1>2, <2>1
  <2> QED
    BY <1>5, <2>2, <2>3
<1>11. n - 1 \in sizes
  BY <1>9, <1>10
<1>12. <<n - 1, n>> \in OpToRel(<, Nat)
  BY <1>10 DEF OpToRel
<1> QED
  BY <1>4, <1>11, <1>12

(* canardTxPeek of a queue that is not empty has exactly one answer, so a  *)
(* send loop in progress (OpenCyphal.cpp:81) has a frame to expire, send,  *)
(* or keep: with CallsWindDown, no call ever stops before its end.         *)
THEOREM QueuesHaveHeads ==
  Spec => [](\A i \in Ifaces : txq[i] # {} =>
               \E x \in txq[i] : \A y \in txq[i] : IsHead(txq[i], y) <=> y = x)
<1>1. ArenaInv =>
        \A i \in Ifaces : txq[i] # {} =>
          \E x \in txq[i] : \A y \in txq[i] : IsHead(txq[i], y) <=> y = x
  <2>1. SUFFICES ASSUME ArenaInv, NEW i \in Ifaces, txq[i] # {}
                 PROVE  \E x \in txq[i] : \A y \in txq[i] : IsHead(txq[i], y) <=> y = x
    OBVIOUS
  <2>2. /\ txq[i] \in SUBSET Item /\ IsFiniteSet(txq[i])
        /\ \A x, y \in txq[i] : x.xfer = y.xfer => x.rank = y.rank /\ x.deadline = y.deadline
    BY <2>1 DEF ArenaInv, SendInv, TypeOK, QueuesBounded, Within, Coherent
  <2>3. PICK x \in txq[i] : IsHead(txq[i], x)
    BY <2>1, <2>2, HeadExists
  <2>4. ASSUME NEW y \in txq[i], IsHead(txq[i], y)
        PROVE  y = x
    <3>1. y = x \/ (Before(x, y) /\ Before(y, x))
      BY <2>3, <2>4 DEF IsHead
    <3> QED
      BY <2>2, <3>1, BeforeOrders
  <2> QED
    BY <2>3, <2>4
<1> QED
  BY <1>1, ArenaInvHolds, PTL

=============================================================================
