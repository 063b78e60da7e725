-------------------------- MODULE NodeSetupProofs ---------------------------
(***************************************************************************)
(* Theorems about NodeSetup, for any number of interfaces and of slots,    *)
(* any set of interfaces that exist, and any number of nodes and frames.   *)
(***************************************************************************)
EXTENDS NodeSetup, SequenceTheorems, FiniteSetTheorems, TLAPS

-----------------------------------------------------------------------------
(* The inductive invariant.                                                *)

(* A node has the interfaces it was made of in its first slots, frames in  *)
(* its queues only after StartNode, and a block for each of its frames.    *)
NodeOK(node) ==
  /\ \A k \in Slots : k <= Len(node.from) =>
       /\ node.transceiver_[k] # NoTransceiver
       /\ node.transceiver_[k].name = node.from[k]
       /\ node.tx_queues_[k] # Uninitialized
  /\ ~node.online_ => \A k \in Slots : node.tx_queues_[k] <= 0
  /\ \A k \in Slots : node.allocated[k] >= Frames(node.tx_queues_[k])
  /\ ~node.late => \A k \in Slots : node.allocated[k] = Frames(node.tx_queues_[k])

(* The node in the making has not been started, and the slots beyond the   *)
(* interfaces it was given are vacant: the next one goes to the first.     *)
InTheMaking(node) ==
  /\ ~node.online_
  /\ \A k \in Slots : k > Len(node.from) => node.transceiver_[k] = NoTransceiver

MakingInv ==
  making # "nothing" => Len(nodes) \in Alive /\ InTheMaking(nodes[Len(nodes)])

(* Open sockets and the descriptors of the transceivers are the same, one  *)
(* by one.                                                                 *)
SocketsInv ==
  /\ IsFiniteSet(DOMAIN sockets)
  /\ \A fd \in DOMAIN sockets :
       \E i \in Alive, k \in Slots : nodes[i].transceiver_[k].fd = fd
  /\ \A i \in Alive, k \in Slots : nodes[i].transceiver_[k].fd >= 0 =>
       /\ nodes[i].transceiver_[k].fd \in DOMAIN sockets
       /\ sockets[nodes[i].transceiver_[k].fd] = nodes[i].transceiver_[k].name
  /\ \A i, j \in Alive, k, l \in Slots :
       /\ nodes[i].transceiver_[k].fd >= 0
       /\ nodes[i].transceiver_[k].fd = nodes[j].transceiver_[l].fd
       => i = j /\ k = l

SetupInv ==
  /\ TypeOK
  /\ \A i \in Alive : NodeOK(nodes[i])
  /\ MakingInv
  /\ SocketsInv

-----------------------------------------------------------------------------
(* Facts about the operators the actions share.                            *)

(* A nonempty set of natural numbers has a least element.                  *)
LEMMA MinIsLeast ==
  ASSUME NEW S \in SUBSET Nat, S # {}
  PROVE  Min(S) \in S /\ \A y \in S : Min(S) <= y
<1>1. \E x \in S : \A y \in S : ~(<<y, x>> \in OpToRel(<, Nat))
  BY NatLessThanWellFounded, WFMin
<1>2. PICK x \in S : \A y \in S : ~(<<y, x>> \in OpToRel(<, Nat))
  BY <1>1
<1>3. \A y \in S : x <= y
  <2>1. TAKE y \in S
  <2>2. ~(<<y, x>> \in {ss \in Nat \X Nat : ss[1] < ss[2]})
    BY <1>2 DEF OpToRel
  <2>3. ~(y < x)
    BY <2>2
  <2> QED
    BY <2>3
<1> QED
  BY <1>3 DEF Min

(* There is always a free descriptor, and the lowest one is free.          *)
LEMMA FreeDescriptor ==
  ASSUME NEW D, IsFiniteSet(D)
  PROVE  /\ Min((0..Cardinality(D)) \ D) \in Nat
         /\ Min((0..Cardinality(D)) \ D) \notin D
<1> DEFINE free == (0..Cardinality(D)) \ D
<1>1. Cardinality(D) \in Nat
  BY FS_CardinalityType
<1>2. free # {}
  <2>1. SUFFICES ASSUME free = {} PROVE FALSE
    OBVIOUS
  <2>2. 0..Cardinality(D) \in SUBSET D
    BY <2>1
  <2>3. Cardinality(0..Cardinality(D)) <= Cardinality(D)
    BY <2>2, FS_Subset
  <2>4. Cardinality(0..Cardinality(D)) = Cardinality(D) + 1
    BY <1>1, FS_Interval
  <2> QED
    BY <1>1, <2>3, <2>4
<1>3. free \in SUBSET Nat
  BY <1>1
<1>4. Min(free) \in free
  BY <1>2, <1>3, MinIsLeast
<1> QED
  BY <1>3, <1>4

(* Slots are numbered from 1, and there is a first one.                    *)
LEMMA SlotsType == Slots \subseteq Nat \ {0} /\ 1 \in Slots
BY SetupAssumption, SMT DEF Slots

(* What make_unique<SocketCANTransceiver> gives is no null pointer; its    *)
(* socket, if it has one, is one that was not open, of an interface that   *)
(* exists.                                                                 *)
LEMMA OpenedType ==
  ASSUME NEW open, IsFiniteSet(DOMAIN open), NEW name \in Names
  PROVE  LET t == Opened(open, name)
         IN /\ t \in [name : Names, fd : Nat \cup {-19}]
            /\ t \in Transceivers
            /\ t # NoTransceiver
            /\ t.name = name
            /\ t.fd >= 0 => t.fd \in Nat \ DOMAIN open /\ name \in Names \ Missing
            /\ t.fd < 0 => t.fd = -19
<1> DEFINE fd == Min((0..Cardinality(DOMAIN open)) \ DOMAIN open)
           t == Opened(open, name)
<1>1. fd \in Nat /\ fd \notin DOMAIN open
  BY FreeDescriptor
<1>2. CASE name \in Missing
  <2>1. t = [name |-> name, fd |-> -19]
    BY <1>2 DEF Opened
  <2>2. t.fd = -19 /\ t.name = name
    BY <2>1
  <2>3. t # NoTransceiver
    BY <2>2 DEF NoTransceiver
  <2>4. t \in [name : Names, fd : Nat \cup {-19}]
    BY <2>1
  <2> QED
    BY <2>2, <2>3, <2>4 DEF Transceivers
<1>3. CASE name \notin Missing
  <2> HIDE DEF fd
  <2>1. t = [name |-> name, fd |-> fd]
    BY <1>3 DEF Opened, fd
  <2>2. t.fd = fd /\ t.name = name
    BY <2>1
  <2>3. t # NoTransceiver
    BY <1>1, <2>2 DEF NoTransceiver
  <2>4. t \in [name : Names, fd : Nat \cup {-19}]
    BY <1>1, <2>1
  <2> QED
    BY <1>1, <1>3, <2>2, <2>3, <2>4 DEF Transceivers
<1> QED
  BY <1>2, <1>3

(* A node is never taken for one that was destroyed.                       *)
LEMMA NodeIsNotFree ==
  ASSUME NEW n \in Node
  PROVE  n # Free
<1>1. n.id \in Nat
  BY DEF Node
<1>2. Free.id = -1
  BY DEF Free
<1> QED
  BY <1>1, <1>2

(* The nodes that are alive, and only these, have the fields of a node.    *)
LEMMA AliveType ==
  ASSUME TypeOK
  PROVE  /\ Len(nodes) \in Nat
         /\ DOMAIN nodes = 1..Len(nodes)
         /\ Alive \subseteq 1..Len(nodes)
         /\ \A i \in Alive : nodes[i] \in Node
<1>1. nodes \in Seq(Node \cup {Free})
  BY DEF TypeOK
<1>2. Len(nodes) \in Nat /\ DOMAIN nodes = 1..Len(nodes)
  BY <1>1, LenProperties
<1>3. \A i \in 1..Len(nodes) : nodes[i] \in Node \cup {Free}
  BY <1>1, ElementOfSeq
<1> QED
  BY <1>2, <1>3 DEF Alive

(* Putting a node in the place of another.                                 *)
LEMMA NodeReplaced ==
  ASSUME TypeOK, NEW i \in Alive, NEW n \in Node, nodes' = [nodes EXCEPT ![i] = n]
  PROVE  /\ nodes' \in Seq(Node \cup {Free})
         /\ Len(nodes') = Len(nodes)
         /\ Alive' = Alive
         /\ nodes'[i] = n
         /\ \A j \in Alive : j # i => nodes'[j] = nodes[j]
<1>1. nodes \in Seq(Node \cup {Free}) /\ i \in 1..Len(nodes)
  BY AliveType DEF TypeOK
<1>2. /\ nodes' \in Seq(Node \cup {Free})
      /\ Len(nodes') = Len(nodes)
      /\ \A j \in 1..Len(nodes) : nodes'[j] = IF j = i THEN n ELSE nodes[j]
  BY <1>1, ExceptSeq
<1>3. DOMAIN nodes' = 1..Len(nodes)
  BY <1>2, LenProperties
<1>4. n # Free
  BY NodeIsNotFree
<1>5. \A j : j \in Alive' <=> j \in Alive
  BY <1>2, <1>3, <1>4, AliveType DEF Alive
<1> QED
  BY <1>1, <1>2, <1>5, AliveType

(* A new node.                                                             *)
LEMMA NodeAppended ==
  ASSUME TypeOK, NEW n \in Node, nodes' = Append(nodes, n)
  PROVE  /\ nodes' \in Seq(Node \cup {Free})
         /\ Len(nodes') = Len(nodes) + 1
         /\ Len(nodes') \notin Alive
         /\ Alive' = Alive \cup {Len(nodes')}
         /\ nodes'[Len(nodes')] = n
         /\ \A j \in Alive : nodes'[j] = nodes[j]
<1>1. nodes \in Seq(Node \cup {Free})
  BY DEF TypeOK
<1>2. /\ nodes' \in Seq(Node \cup {Free})
      /\ Len(nodes') = Len(nodes) + 1
      /\ \A j \in 1..Len(nodes) : nodes'[j] = nodes[j]
      /\ nodes'[Len(nodes) + 1] = n
  BY <1>1, AppendProperties
<1>3. DOMAIN nodes' = 1..(Len(nodes) + 1)
  BY <1>2, LenProperties
<1>4. n # Free
  BY NodeIsNotFree
<1>5. Len(nodes') \notin Alive
  BY <1>2, AliveType
<1>6. \A j : j \in Alive' <=> j \in Alive \/ j = Len(nodes')
  BY <1>2, <1>3, <1>4, AliveType DEF Alive
<1> QED
  BY <1>2, <1>5, <1>6, AliveType

(* m is the node n with the transceiver t in its slot k, the first vacant  *)
(* one, and with no frames in the queues of vacant slots.                  *)
PlacedAt(m, n, t, k) ==
  /\ \A l \in Vacant(n) : k <= l
  /\ m.transceiver_ = [n.transceiver_ EXCEPT ![k] = t]
  /\ m.tx_queues_ = [l \in Slots |-> IF l \in Vacant(n) THEN 0 ELSE n.tx_queues_[l]]

(* addTransceiver on a node without a vacant slot leaves it as it is; on   *)
(* another the first vacant slot gets the transceiver, and the queues of   *)
(* the vacant slots are empty.                                             *)
LEMMA addTransceiverEffect ==
  ASSUME NEW n \in Node, NEW t \in Transceivers, NEW m, m = addTransceiver(n, t)
  PROVE  /\ m \in Node
         /\ m.id = n.id /\ m.from = n.from /\ m.allocated = n.allocated
         /\ m.late = n.late /\ m.online_ = n.online_
         /\ Vacant(n) = {} => m = n
         /\ Vacant(n) # {} => \E k \in Vacant(n) : PlacedAt(m, n, t, k)
<1>1. CASE Vacant(n) = {}
  BY <1>1 DEF addTransceiver
<1>2. CASE Vacant(n) # {}
  <2> DEFINE k == Min(Vacant(n))
             queues == [l \in Slots |-> IF l \in Vacant(n) THEN 0 ELSE n.tx_queues_[l]]
  <2>1. Vacant(n) \in SUBSET Slots /\ Vacant(n) \in SUBSET Nat
    BY SlotsType DEF Vacant
  <2>2. k \in Vacant(n) /\ k \in Slots /\ \A l \in Vacant(n) : k <= l
    BY <1>2, <2>1, MinIsLeast
  <2> HIDE DEF k
  <2>3. m = [n EXCEPT !.transceiver_[k] = t, !.tx_queues_ = queues]
    BY <1>2 DEF addTransceiver, k
  <2>4. queues \in [Slots -> {Uninitialized} \cup 0..MaxFrames]
    <3>1. n.tx_queues_ \in [Slots -> {Uninitialized} \cup 0..MaxFrames]
      BY DEF Node
    <3>2. 0 \in 0..MaxFrames
      BY SetupAssumption
    <3> QED
      BY <3>1, <3>2
  <2>5. [n.transceiver_ EXCEPT ![k] = t] \in [Slots -> Transceivers]
    BY <2>2 DEF Node
  <2> HIDE DEF queues
  <2>6. m \in Node
    BY <2>3, <2>4, <2>5 DEF Node
  <2>7. m.transceiver_ = [n.transceiver_ EXCEPT ![k] = t] /\ m.tx_queues_ = queues
    BY <2>3 DEF Node
  <2>8. /\ m.id = n.id /\ m.from = n.from /\ m.allocated = n.allocated
        /\ m.late = n.late /\ m.online_ = n.online_
    BY <2>3 DEF Node
  <2>9. PlacedAt(m, n, t, k)
    BY <2>2, <2>7 DEF PlacedAt, queues
  <2> QED
    BY <1>2, <2>2, <2>6, <2>8, <2>9
<1> QED
  BY <1>1, <1>2

(* The same of the transceivers alone.                                     *)
LEMMA addTransceiverVacant ==
  \A n \in Node, t \in Transceivers : Vacant(n) # {} =>
    \E k \in Vacant(n) :
      addTransceiver(n, t).transceiver_ = [n.transceiver_ EXCEPT ![k] = t]
<1>1. TAKE n \in Node, t \in Transceivers
<1>2. SUFFICES ASSUME Vacant(n) # {}, NEW m, m = addTransceiver(n, t)
               PROVE  \E k \in Vacant(n) : m.transceiver_ = [n.transceiver_ EXCEPT ![k] = t]
  OBVIOUS
<1>3. PICK k \in Vacant(n) : PlacedAt(m, n, t, k)
  BY <1>1, <1>2, addTransceiverEffect
<1> QED
  BY <1>3 DEF PlacedAt

(* The constructors give a node whose first slot is served and whose other *)
(* slots are vacant, without frames.                                       *)
LEMMA ConstructedEffect ==
  ASSUME NEW id \in Nat, NEW random \in BOOLEAN,
         NEW t \in Transceivers, t # NoTransceiver, t.name \in Names
  PROVE  LET n == Constructed(id, t, random)
         IN /\ n \in Node
            /\ n.id = id
            /\ n.transceiver_[1] = t
            /\ \A k \in Slots : k # 1 => n.transceiver_[k] = NoTransceiver
            /\ NodeOK(n)
            /\ InTheMaking(n)
<1> DEFINE n == Constructed(id, t, random)
<1>1. n.id = id /\ n.from = <<t.name>> /\ ~n.online_ /\ ~n.late
  BY DEF Constructed
<1>2. /\ n.transceiver_ = [k \in Slots |-> IF k = 1 THEN t ELSE NoTransceiver]
      /\ n.tx_queues_ = [k \in Slots |-> IF k = 1 THEN 0 ELSE Uninitialized]
      /\ n.allocated = [k \in Slots |-> 0]
  BY DEF Constructed
<1>3. n \in Node
  <2>1. n.from \in Seq(Names)
    BY <1>1
  <2>2. NoTransceiver \in Transceivers
    BY DEF Transceivers
  <2>3. n.transceiver_ \in [Slots -> Transceivers]
    BY <1>2, <2>2
  <2>4. n.tx_queues_ \in [Slots -> {Uninitialized} \cup 0..MaxFrames]
    BY <1>2, SetupAssumption
  <2>5. n.allocated \in [Slots -> Nat]
    BY <1>2
  <2>6. /\ <<"GetInfo request">> \in Seq({"GetInfo request", "latency request", "latency response"})
        /\ <<"heartbeat">> \in Seq({"heartbeat", "latency measurement"})
    OBVIOUS
  <2> QED
    BY <2>1, <2>3, <2>4, <2>5, <2>6 DEF Constructed, Node
<1>4. Len(n.from) = 1 /\ n.from[1] = t.name
  BY <1>1
<1>5. NodeOK(n)
  <2>1. \A k \in Slots : k <= 1 => k = 1
    BY SlotsType
  <2>2. \A k \in Slots : n.tx_queues_[k] <= 0 /\ n.allocated[k] = Frames(n.tx_queues_[k])
    BY <1>2 DEF Frames, Uninitialized
  <2>3. \A k \in Slots : n.allocated[k] >= Frames(n.tx_queues_[k])
    BY <1>2 DEF Frames, Uninitialized
  <2>4. 0 # Uninitialized
    BY DEF Uninitialized
  <2> QED
    BY <1>1, <1>2, <1>4, <2>1, <2>2, <2>3, <2>4 DEF NodeOK
<1>6. \A k \in Slots : k # 1 => n.transceiver_[k] = NoTransceiver
  BY <1>2
<1>7. InTheMaking(n)
  BY <1>1, <1>4, <1>6, SlotsType DEF InTheMaking
<1> QED
  BY <1>1, <1>2, <1>3, <1>5, <1>6, <1>7, SlotsType

-----------------------------------------------------------------------------
(* How the sockets follow the slots.                                       *)

(* Nothing changes for the sockets while no slot does.                     *)
LEMMA SocketsKept ==
  ASSUME SocketsInv, Alive' = Alive,
         \A i \in Alive : nodes'[i].transceiver_ = nodes[i].transceiver_,
         DOMAIN sockets' = DOMAIN sockets,
         \A fd \in DOMAIN sockets : sockets'[fd] = sockets[fd]
  PROVE  SocketsInv'
<1> DEFINE T(i, k) == nodes[i].transceiver_[k]
<1>0. \A i \in Alive, k \in Slots : T(i, k)' = T(i, k)
  OBVIOUS
<1>1. IsFiniteSet(DOMAIN sockets')
  BY DEF SocketsInv
<1>2. \A fd \in DOMAIN sockets' : \E i \in Alive', k \in Slots : T(i, k)'.fd = fd
  <2>1. \A fd \in DOMAIN sockets : \E i \in Alive, k \in Slots : T(i, k).fd = fd
    BY DEF SocketsInv
  <2> HIDE DEF T
  <2> QED
    BY <1>0, <2>1
<1>3. \A i \in Alive', k \in Slots : T(i, k)'.fd >= 0 =>
        T(i, k)'.fd \in DOMAIN sockets' /\ sockets'[T(i, k)'.fd] = T(i, k)'.name
  <2>1. \A i \in Alive, k \in Slots : T(i, k).fd >= 0 =>
          T(i, k).fd \in DOMAIN sockets /\ sockets[T(i, k).fd] = T(i, k).name
    BY DEF SocketsInv
  <2> HIDE DEF T
  <2> QED
    BY <1>0, <2>1
<1>4. \A i, j \in Alive', k, l \in Slots :
        T(i, k)'.fd >= 0 /\ T(i, k)'.fd = T(j, l)'.fd => i = j /\ k = l
  <2>1. \A i, j \in Alive, k, l \in Slots :
          T(i, k).fd >= 0 /\ T(i, k).fd = T(j, l).fd => i = j /\ k = l
    BY DEF SocketsInv
  <2> HIDE DEF T
  <2> QED
    BY <1>0, <2>1
<1> QED
  BY <1>1, <1>2, <1>3, <1>4 DEF SocketsInv

(* A socket that was just opened, or failed to open, in a slot that had    *)
(* none.                                                                   *)
LEMMA SocketAdded ==
  ASSUME SocketsInv, DOMAIN sockets \subseteq Nat,
         NEW t \in [name : Names, fd : Nat \cup {-19}], t.fd \notin DOMAIN sockets,
         sockets' = WithOpen(sockets, t),
         NEW i, NEW k \in Slots, Alive' = Alive \cup {i},
         nodes'[i].transceiver_[k] = t,
         i \in Alive => nodes[i].transceiver_[k] = NoTransceiver,
         \A l \in Slots : l # k => nodes'[i].transceiver_[l] =
           IF i \in Alive THEN nodes[i].transceiver_[l] ELSE NoTransceiver,
         \A j \in Alive : j # i => nodes'[j].transceiver_ = nodes[j].transceiver_
  PROVE  SocketsInv'
<1> DEFINE T(j, l) == nodes[j].transceiver_[l]
           Same(j, l) == j \in Alive /\ <<j, l>> # <<i, k>>
<1>0. NoTransceiver.fd = -1
  BY DEF NoTransceiver
<1>1. \A j, l : Same(j, l) /\ l \in Slots => j \in Alive' /\ T(j, l)' = T(j, l)
  OBVIOUS
<1>2. \A j \in Alive', l \in Slots : T(j, l)'.fd >= 0 =>
        Same(j, l) \/ (j = i /\ l = k /\ T(j, l)' = t)
  BY <1>0
<1>3. \A fd \in DOMAIN sockets : \E j, l : Same(j, l) /\ l \in Slots /\ T(j, l).fd = fd
  <2>1. TAKE fd \in DOMAIN sockets
  <2>2. PICK j \in Alive, l \in Slots : T(j, l).fd = fd
    BY DEF SocketsInv
  <2>3. <<j, l>> # <<i, k>>
    BY <1>0, <2>2
  <2> QED
    BY <2>2, <2>3
<1>4. /\ DOMAIN sockets' = IF t.fd < 0 THEN DOMAIN sockets ELSE DOMAIN sockets \cup {t.fd}
      /\ t.fd >= 0 => sockets'[t.fd] = t.name
      /\ \A fd \in DOMAIN sockets : sockets'[fd] = sockets[fd]
  BY DEF WithOpen
<1>5. IsFiniteSet(DOMAIN sockets')
  BY <1>4, FS_AddElement DEF SocketsInv
<1>6. \A fd \in DOMAIN sockets' : \E j \in Alive', l \in Slots : T(j, l)'.fd = fd
  <2>1. TAKE fd \in DOMAIN sockets'
  <2>2. CASE fd \in DOMAIN sockets
    BY <1>1, <1>3, <2>2
  <2>3. CASE fd = t.fd
    BY <2>3
  <2> QED
    BY <1>4, <2>1, <2>2, <2>3
<1>7. \A j \in Alive', l \in Slots : T(j, l)'.fd >= 0 =>
        T(j, l)'.fd \in DOMAIN sockets' /\ sockets'[T(j, l)'.fd] = T(j, l)'.name
  <2>1. SUFFICES ASSUME NEW j \in Alive', NEW l \in Slots, T(j, l)'.fd >= 0
                 PROVE  T(j, l)'.fd \in DOMAIN sockets' /\ sockets'[T(j, l)'.fd] = T(j, l)'.name
    OBVIOUS
  <2>2. CASE Same(j, l)
    <3>1. T(j, l)' = T(j, l) /\ j \in Alive
      BY <1>1, <2>2
    <3>2. T(j, l).fd \in DOMAIN sockets /\ sockets[T(j, l).fd] = T(j, l).name
      BY <2>1, <3>1 DEF SocketsInv
    <3> QED
      BY <1>4, <3>1, <3>2
  <2>3. CASE T(j, l)' = t
    BY <1>4, <2>1, <2>3
  <2> QED
    BY <1>2, <2>1, <2>2, <2>3
<1>8. ASSUME NEW i1 \in Alive', NEW i2 \in Alive', NEW k1 \in Slots, NEW k2 \in Slots,
             T(i1, k1)'.fd >= 0, T(i1, k1)'.fd = T(i2, k2)'.fd
      PROVE  i1 = i2 /\ k1 = k2
  <2>1. CASE Same(i1, k1) /\ Same(i2, k2)
    <3>1. T(i1, k1)' = T(i1, k1) /\ T(i2, k2)' = T(i2, k2) /\ i1 \in Alive /\ i2 \in Alive
      BY <1>1, <2>1
    <3> QED
      BY <1>8, <3>1 DEF SocketsInv
  <2>2. \A j, l : Same(j, l) /\ l \in Slots /\ T(j, l)'.fd >= 0 => T(j, l)'.fd # t.fd
    <3>1. SUFFICES ASSUME NEW j, NEW l, Same(j, l), l \in Slots, T(j, l)'.fd >= 0
                   PROVE  T(j, l)'.fd # t.fd
      OBVIOUS
    <3>2. T(j, l)' = T(j, l) /\ j \in Alive
      BY <1>1, <3>1
    <3>3. T(j, l).fd \in DOMAIN sockets
      BY <3>1, <3>2 DEF SocketsInv
    <3> QED
      BY <3>2, <3>3
  <2> QED
    BY <1>2, <1>8, <2>1, <2>2
<1> QED
  BY <1>5, <1>6, <1>7, <1>8 DEF SocketsInv

(* A slot that could not be had: the socket is closed again.               *)
LEMMA SocketsJoined ==
  ASSUME TypeOK, SocketsInv, NEW i \in Alive, NEW name \in Names, NEW n \in Node, NEW both,
         both = Joined([node |-> nodes[i], sockets |-> sockets], name),
         nodes' = [nodes EXCEPT ![i] = n],
         n.transceiver_ = both.node.transceiver_,
         sockets' = both.sockets
  PROVE  /\ SocketsInv'
         /\ \A fd \in DOMAIN sockets' : fd \in Nat /\ sockets'[fd] \in Names \ Missing
<1> DEFINE t == Opened(sockets, name)
<1>1. /\ t \in [name : Names, fd : Nat \cup {-19}]
      /\ t \in Transceivers /\ t # NoTransceiver /\ t.name = name
      /\ t.fd >= 0 => t.fd \in Nat \ DOMAIN sockets /\ name \in Names \ Missing
      /\ t.fd < 0 => t.fd = -19
  BY OpenedType DEF SocketsInv
<1>2. \A fd \in DOMAIN sockets : fd \in Nat /\ sockets[fd] \in Names \ Missing
  BY DEF TypeOK
<1>3. t.fd \notin DOMAIN sockets
  BY <1>1, <1>2
<1>4. nodes[i] \in Node
  BY AliveType
<1>5. /\ Alive' = Alive /\ nodes'[i] = n
      /\ \A j \in Alive : j # i => nodes'[j] = nodes[j]
  BY NodeReplaced
<1> HIDE DEF t
<1>6. /\ both.node = addTransceiver(nodes[i], t)
      /\ both.sockets = IF Vacant(nodes[i]) = {} THEN Closed(WithOpen(sockets, t), {t})
                        ELSE WithOpen(sockets, t)
  BY DEF Joined, t
<1>7. CASE Vacant(nodes[i]) = {}
  <2>1. n.transceiver_ = nodes[i].transceiver_
    BY <1>1, <1>4, <1>6, <1>7, addTransceiverEffect
  <2>2. /\ DOMAIN sockets' = DOMAIN WithOpen(sockets, t) \ {t.fd}
        /\ \A fd \in DOMAIN sockets' : sockets'[fd] = WithOpen(sockets, t)[fd]
    BY <1>6, <1>7 DEF Closed
  <2>3. /\ DOMAIN sockets' = DOMAIN sockets
        /\ \A fd \in DOMAIN sockets : sockets'[fd] = sockets[fd]
    BY <1>3, <2>2 DEF WithOpen
  <2>4. SocketsInv'
    BY <1>5, <2>1, <2>3, SocketsKept
  <2> QED
    BY <1>2, <2>3, <2>4
<1>8. CASE Vacant(nodes[i]) # {}
  <2>1. PICK k \in Vacant(nodes[i]) :
          n.transceiver_ = [nodes[i].transceiver_ EXCEPT ![k] = t]
    <3>1. \E k \in Vacant(nodes[i]) :
            addTransceiver(nodes[i], t).transceiver_ = [nodes[i].transceiver_ EXCEPT ![k] = t]
      BY <1>1, <1>4, <1>8, addTransceiverVacant
    <3> QED
      BY <1>6, <3>1
  <2>2. k \in Slots /\ nodes[i].transceiver_[k] = NoTransceiver
    BY DEF Vacant
  <2>3. nodes[i].transceiver_ \in [Slots -> Transceivers]
    BY <1>4 DEF Node
  <2>4. nodes'[i].transceiver_[k] = t
    BY <1>5, <2>1, <2>2, <2>3
  <2>5. \A l \in Slots : l # k => nodes'[i].transceiver_[l] = nodes[i].transceiver_[l]
    BY <1>5, <2>1, <2>2, <2>3
  <2>6. sockets' = WithOpen(sockets, t)
    BY <1>6, <1>8
  <2>7. DOMAIN sockets \subseteq Nat
    BY <1>2
  <2>8. Alive' = Alive \cup {i}
    BY <1>5
  <2>9. SocketsInv'
    BY <1>1, <1>3, <1>5, <2>2, <2>4, <2>5, <2>6, <2>7, <2>8, SocketAdded
  <2> QED
    BY <1>1, <1>2, <2>6, <2>9 DEF WithOpen
<1> QED
  BY <1>7, <1>8

(* A destroyed node takes its sockets with it, and no other.               *)
LEMMA SocketsClosed ==
  ASSUME TypeOK, SocketsInv, NEW i \in Alive,
         Alive' = Alive \ {i}, \A j \in Alive : j # i => nodes'[j] = nodes[j],
         sockets' = Closed(sockets, Range(nodes[i].transceiver_))
  PROVE  SocketsInv'
<1> DEFINE T(j, l) == nodes[j].transceiver_[l]
<1>1. nodes[i].transceiver_ \in [Slots -> Transceivers]
  BY AliveType DEF Node
<1>2. {u.fd : u \in Range(nodes[i].transceiver_)} = {T(i, l).fd : l \in Slots}
  BY <1>1 DEF Range
<1>3. /\ DOMAIN sockets' = DOMAIN sockets \ {T(i, l).fd : l \in Slots}
      /\ \A fd \in DOMAIN sockets' : sockets'[fd] = sockets[fd]
  BY <1>2 DEF Closed
<1>4. \A j \in Alive', l \in Slots : j \in Alive /\ j # i /\ T(j, l)' = T(j, l)
  OBVIOUS
<1>5. IsFiniteSet(DOMAIN sockets')
  BY <1>3, FS_Subset DEF SocketsInv
<1>6. \A fd \in DOMAIN sockets' : \E j \in Alive', l \in Slots : T(j, l)'.fd = fd
  <2>1. TAKE fd \in DOMAIN sockets'
  <2>2. fd \in DOMAIN sockets /\ \A l \in Slots : T(i, l).fd # fd
    BY <1>3
  <2>3. PICK j \in Alive, l \in Slots : T(j, l).fd = fd
    BY <2>2 DEF SocketsInv
  <2>4. j # i
    BY <2>2, <2>3
  <2> QED
    BY <1>4, <2>3, <2>4
<1>7. \A j \in Alive', l \in Slots : T(j, l)'.fd >= 0 =>
        T(j, l)'.fd \in DOMAIN sockets' /\ sockets'[T(j, l)'.fd] = T(j, l)'.name
  <2>1. SUFFICES ASSUME NEW j \in Alive', NEW l \in Slots, T(j, l)'.fd >= 0
                 PROVE  T(j, l)'.fd \in DOMAIN sockets' /\ sockets'[T(j, l)'.fd] = T(j, l)'.name
    OBVIOUS
  <2>2. j \in Alive /\ j # i /\ T(j, l)' = T(j, l)
    BY <1>4
  <2>3. T(j, l).fd \in DOMAIN sockets /\ sockets[T(j, l).fd] = T(j, l).name
    BY <2>1, <2>2 DEF SocketsInv
  <2>4. \A m \in Slots : T(i, m).fd # T(j, l).fd
    BY <2>1, <2>2, SMTT(30) DEF SocketsInv
  <2>5. T(j, l).fd \in DOMAIN sockets'
    BY <1>3, <2>3, <2>4
  <2>6. sockets'[T(j, l).fd] = sockets[T(j, l).fd]
    BY <1>3, <2>5
  <2> QED
    BY <2>2, <2>3, <2>5, <2>6
<1>8. ASSUME NEW i1 \in Alive', NEW i2 \in Alive', NEW k1 \in Slots, NEW k2 \in Slots,
             T(i1, k1)'.fd >= 0, T(i1, k1)'.fd = T(i2, k2)'.fd
      PROVE  i1 = i2 /\ k1 = k2
  <2>1. /\ i1 \in Alive /\ i2 \in Alive
        /\ T(i1, k1)' = T(i1, k1) /\ T(i2, k2)' = T(i2, k2)
    BY <1>4
  <2>2. T(i1, k1).fd >= 0 /\ T(i1, k1).fd = T(i2, k2).fd
    BY <1>8, <2>1
  <2> QED
    BY <2>1, <2>2 DEF SocketsInv
<1> QED
  BY <1>5, <1>6, <1>7, <1>8 DEF SocketsInv

-----------------------------------------------------------------------------
(* The invariant is inductive, one lemma per kind of action.               *)

(* What a node keeps when a transceiver is added: everything but that all  *)
(* its blocks are accounted for, if a vacant slot had frames.              *)
LEMMA addTransceiverOK ==
  ASSUME NEW n \in Node, NodeOK(n), NEW t \in Transceivers, t # NoTransceiver,
         NEW m, m = addTransceiver(n, t)
  PROVE  /\ \A k \in Slots : k <= Len(m.from) =>
              /\ m.transceiver_[k] # NoTransceiver
              /\ m.transceiver_[k].name = m.from[k]
              /\ m.tx_queues_[k] # Uninitialized
         /\ ~m.online_ => \A k \in Slots : m.tx_queues_[k] <= 0
         /\ \A k \in Slots : m.allocated[k] >= Frames(m.tx_queues_[k])
         /\ ~m.late /\ (\A k \in Vacant(n) : n.tx_queues_[k] <= 0)
              => \A k \in Slots : m.allocated[k] = Frames(m.tx_queues_[k])
<1>1. CASE Vacant(n) = {}
  BY <1>1, addTransceiverEffect DEF NodeOK
<1>2. CASE Vacant(n) # {}
  <2>0. PICK k \in Vacant(n) : PlacedAt(m, n, t, k)
    BY <1>2, addTransceiverEffect
  <2>1. /\ m.transceiver_ = [n.transceiver_ EXCEPT ![k] = t]
        /\ m.tx_queues_ = [l \in Slots |-> IF l \in Vacant(n) THEN 0 ELSE n.tx_queues_[l]]
    BY <2>0 DEF PlacedAt
  <2>2. /\ m.from = n.from /\ m.allocated = n.allocated
        /\ m.late = n.late /\ m.online_ = n.online_
    BY addTransceiverEffect
  <2>3. n.transceiver_ \in [Slots -> Transceivers] /\ n.allocated \in [Slots -> Nat]
        /\ n.tx_queues_ \in [Slots -> {Uninitialized} \cup 0..MaxFrames]
    BY DEF Node
  <2>4. \A l \in Slots : /\ l \in Vacant(n) => m.tx_queues_[l] = 0 /\ Frames(m.tx_queues_[l]) = 0
                         /\ l \notin Vacant(n) => /\ m.tx_queues_[l] = n.tx_queues_[l]
                                                  /\ m.transceiver_[l] = n.transceiver_[l]
    BY <2>1, <2>3 DEF Frames, Uninitialized
  <2>5. \A l \in Slots : l <= Len(n.from) => l \notin Vacant(n)
    BY DEF NodeOK, Vacant
  <2>6. \A l \in Slots : l <= Len(m.from) =>
              /\ m.transceiver_[l] # NoTransceiver
              /\ m.transceiver_[l].name = m.from[l]
              /\ m.tx_queues_[l] # Uninitialized
    BY <2>2, <2>4, <2>5 DEF NodeOK
  <2>7. ~m.online_ => \A l \in Slots : m.tx_queues_[l] <= 0
    BY <2>2, <2>4 DEF NodeOK
  <2>8. \A l \in Slots : m.allocated[l] >= Frames(m.tx_queues_[l])
    BY <2>2, <2>3, <2>4 DEF NodeOK
  <2>9. ASSUME ~m.late, \A l \in Vacant(n) : n.tx_queues_[l] <= 0, NEW l \in Slots
        PROVE  m.allocated[l] = Frames(m.tx_queues_[l])
    <3>1. n.allocated[l] = Frames(n.tx_queues_[l])
      BY <2>2, <2>9 DEF NodeOK
    <3>2. CASE l \in Vacant(n)
      <4>1. Frames(n.tx_queues_[l]) = 0
        BY <2>3, <2>9, <3>2 DEF Frames, Uninitialized
      <4> QED
        BY <2>2, <2>4, <3>1, <3>2, <4>1
    <3> QED
      BY <2>2, <2>4, <3>1, <3>2
  <2> QED
    BY <2>6, <2>7, <2>8, <2>9
<1> QED
  BY <1>1, <1>2

(* The first of a sequence that is not empty.                              *)
LEMMA FirstOfSeq ==
  ASSUME NEW S, NEW s \in Seq(S), s # <<>>
  PROVE  s[1] \in S
<1>1. Len(s) \in Nat \ {0}
  BY EmptySeq
<1> QED
  BY <1>1, ElementOfSeq

(* making and unjoined have the values of TypeOK.                          *)
MakingTypeOK ==
  /\ making \in {"nothing", "request node", "response node"}
  /\ unjoined \in Seq(Names)
  /\ making = "nothing" => unjoined = <<>>

(* Initially there is nothing.                                             *)
LEMMA InitSetup == Init => SetupInv
<1> SUFFICES ASSUME Init PROVE SetupInv
  OBVIOUS
<1>1. Alive = {} /\ DOMAIN sockets = {}
  BY DEF Init, Alive
<1>2. used_ids_ \in Seq(Nat)
  BY SetupAssumption DEF Init
<1>3. <<>> \in Seq(Names) /\ <<>> \in Seq(Node \cup {Free})
  BY EmptySeq
<1>4. TypeOK
  BY <1>1, <1>2, <1>3 DEF Init, TypeOK
<1>5. SocketsInv
  BY <1>1, FS_EmptySet DEF SocketsInv
<1> QED
  BY <1>1, <1>4, <1>5 DEF Init, SetupInv, MakingInv

(* A used ID stays used.                                                   *)
LEMMA UsedIds ==
  ASSUME TypeOK, NEW id \in Nat, used_ids_' = Append(used_ids_, id)
  PROVE  /\ used_ids_' \in Seq(Nat)
         /\ id \in Range(used_ids_')
         /\ Range(used_ids_) \subseteq Range(used_ids_')
<1>1. used_ids_ \in Seq(Nat)
  BY DEF TypeOK
<1>2. /\ used_ids_' \in Seq(Nat)
      /\ Len(used_ids_') = Len(used_ids_) + 1
      /\ \A i \in 1..Len(used_ids_) : used_ids_'[i] = used_ids_[i]
      /\ used_ids_'[Len(used_ids_) + 1] = id
  BY <1>1, AppendProperties
<1>3. /\ Len(used_ids_) \in Nat
      /\ DOMAIN used_ids_ = 1..Len(used_ids_)
      /\ DOMAIN used_ids_' = 1..(Len(used_ids_) + 1)
  BY <1>1, <1>2, LenProperties
<1>4. Len(used_ids_) + 1 \in DOMAIN used_ids_'
  BY <1>3
<1>5. id \in Range(used_ids_')
  BY <1>2, <1>4 DEF Range
<1>6. \A x \in Range(used_ids_) : x \in Range(used_ids_')
  BY <1>2, <1>3 DEF Range
<1> QED
  BY <1>2, <1>5, <1>6

(* A new node, of either kind.                                             *)
LEMMA CreateKeeps ==
  ASSUME SetupInv, NEW id \in Nat, NEW random \in BOOLEAN, Create(id, random),
         MakingTypeOK'
  PROVE  SetupInv'
<1> DEFINE name == socket_can_interfaces_[1]
           t == Opened(sockets, name)
           n == Constructed(id, t, random)
           new == Len(nodes')
<1>1. TypeOK /\ SocketsInv /\ \A i \in Alive : NodeOK(nodes[i])
  BY DEF SetupInv
<1>2. name \in Names
  <2>1. socket_can_interfaces_ \in Seq(Names) /\ socket_can_interfaces_ # <<>>
    BY <1>1 DEF TypeOK, Create
  <2> QED
    BY <2>1, FirstOfSeq
<1> HIDE DEF name
<1>3. /\ t \in [name : Names, fd : Nat \cup {-19}]
      /\ t \in Transceivers /\ t # NoTransceiver /\ t.name = name
      /\ t.fd >= 0 => t.fd \in Nat \ DOMAIN sockets /\ name \in Names \ Missing
      /\ t.fd < 0 => t.fd = -19
  BY <1>1, <1>2, OpenedType DEF SocketsInv
<1> HIDE DEF t
<1>4. /\ n \in Node /\ n.id = id
      /\ n.transceiver_[1] = t
      /\ \A k \in Slots : k # 1 => n.transceiver_[k] = NoTransceiver
      /\ NodeOK(n) /\ InTheMaking(n)
  BY <1>2, <1>3, ConstructedEffect
<1>5. /\ nodes' = Append(nodes, n)
      /\ sockets' = WithOpen(sockets, t)
      /\ used_ids_' = Append(used_ids_, id)
      /\ socket_can_interfaces_' = socket_can_interfaces_
  BY DEF Create, t, name
<1> HIDE DEF n
<1>6. /\ nodes' \in Seq(Node \cup {Free})
      /\ new \notin Alive
      /\ Alive' = Alive \cup {new}
      /\ nodes'[new] = n
      /\ \A j \in Alive : nodes'[j] = nodes[j]
  BY <1>1, <1>4, <1>5, NodeAppended
<1> HIDE DEF new
<1>7. \A fd \in DOMAIN sockets : fd \in Nat /\ sockets[fd] \in Names \ Missing
  BY <1>1 DEF TypeOK
<1>8. TypeOK'
  <2>1. /\ used_ids_' \in Seq(Nat)
        /\ id \in Range(used_ids_')
        /\ Range(used_ids_) \subseteq Range(used_ids_')
    BY <1>1, <1>5, UsedIds
  <2>2. \A i \in Alive' : nodes'[i].id \in Range(used_ids_')
    BY <1>1, <1>4, <1>6, <2>1 DEF TypeOK
  <2>3. \A fd \in DOMAIN sockets' : fd \in Nat /\ sockets'[fd] \in Names \ Missing
    BY <1>3, <1>5, <1>7 DEF WithOpen
  <2> QED
    BY <1>1, <1>5, <1>6, <2>1, <2>2, <2>3 DEF TypeOK, MakingTypeOK
<1>9. \A i \in Alive' : NodeOK(nodes'[i])
  BY <1>1, <1>4, <1>6
<1>10. MakingInv'
  BY <1>4, <1>6 DEF MakingInv, new
<1>11. SocketsInv'
  <2>1. DOMAIN sockets \subseteq Nat /\ t.fd \notin DOMAIN sockets
    BY <1>3, <1>7
  <2>2. 1 \in Slots
    BY SlotsType
  <2>3. nodes'[new].transceiver_[1] = t
    BY <1>4, <1>6
  <2>4. \A l \in Slots : l # 1 => nodes'[new].transceiver_[l] =
          IF new \in Alive THEN nodes[new].transceiver_[l] ELSE NoTransceiver
    BY <1>4, <1>6
  <2>5. new \in Alive => nodes[new].transceiver_[1] = NoTransceiver
    BY <1>6
  <2>6. \A j \in Alive : j # new => nodes'[j].transceiver_ = nodes[j].transceiver_
    BY <1>6
  <2>7. t \in [name : Names, fd : Nat \cup {-19}]
    BY <1>3
  <2>8. SocketsInv /\ sockets' = WithOpen(sockets, t) /\ Alive' = Alive \cup {new}
    BY <1>1, <1>5, <1>6
  <2> QED
    BY <2>1, <2>2, <2>3, <2>4, <2>5, <2>6, <2>7, <2>8, SocketAdded
<1> QED
  BY <1>8, <1>9, <1>10, <1>11 DEF SetupInv

(* A node gets a transceiver, by the factory or by the application.  The   *)
(* node n that is put in its place has the slots and queues of             *)
(* addTransceiver.                                                         *)
LEMMA JoinedKeeps ==
  ASSUME SetupInv, NEW i \in Alive, NEW name \in Names, NEW n \in Node, NodeOK(n), NEW both,
         both = Joined([node |-> nodes[i], sockets |-> sockets], name),
         nodes' = [nodes EXCEPT ![i] = n],
         n.transceiver_ = both.node.transceiver_, n.id = nodes[i].id,
         sockets' = both.sockets,
         used_ids_' = used_ids_, socket_can_interfaces_' = socket_can_interfaces_,
         making' = making, MakingTypeOK',
         making # "nothing" => i = Len(nodes) /\ InTheMaking(n)
  PROVE  SetupInv'
<1>1. TypeOK /\ SocketsInv /\ \A j \in Alive : NodeOK(nodes[j])
  BY DEF SetupInv
<1>2. /\ nodes' \in Seq(Node \cup {Free})
      /\ Len(nodes') = Len(nodes)
      /\ Alive' = Alive
      /\ nodes'[i] = n
      /\ \A j \in Alive : j # i => nodes'[j] = nodes[j]
  BY <1>1, NodeReplaced
<1>3. /\ SocketsInv'
      /\ \A fd \in DOMAIN sockets' : fd \in Nat /\ sockets'[fd] \in Names \ Missing
  BY <1>1, SocketsJoined
<1>4. TypeOK'
  <2>1. \A j \in Alive' : nodes'[j].id \in Range(used_ids_')
    BY <1>1, <1>2 DEF TypeOK
  <2> QED
    BY <1>1, <1>2, <1>3, <2>1 DEF TypeOK, MakingTypeOK
<1>5. \A j \in Alive' : NodeOK(nodes'[j])
  BY <1>1, <1>2
<1>6. MakingInv'
  BY <1>2 DEF MakingInv
<1> QED
  BY <1>3, <1>4, <1>5, <1>6 DEF SetupInv

(* A node is changed in other ways; its slots stay as they are.            *)
LEMMA ChangedKeeps ==
  ASSUME SetupInv, NEW i \in Alive, NEW n \in Node, NodeOK(n),
         nodes' = [nodes EXCEPT ![i] = n],
         n.transceiver_ = nodes[i].transceiver_, n.id = nodes[i].id,
         UNCHANGED <<sockets, used_ids_, socket_can_interfaces_>>,
         MakingTypeOK', making' = "nothing"
  PROVE  SetupInv'
<1>1. TypeOK /\ SocketsInv /\ \A j \in Alive : NodeOK(nodes[j])
  BY DEF SetupInv
<1>2. /\ nodes' \in Seq(Node \cup {Free})
      /\ Alive' = Alive
      /\ nodes'[i] = n
      /\ \A j \in Alive : j # i => nodes'[j] = nodes[j]
  BY <1>1, NodeReplaced
<1>3. SocketsInv'
  <2>1. \A j \in Alive : nodes'[j].transceiver_ = nodes[j].transceiver_
    BY <1>2
  <2> QED
    BY <1>1, <1>2, <2>1, SocketsKept
<1>4. TypeOK'
  <2>1. \A j \in Alive' : nodes'[j].id \in Range(used_ids_')
    BY <1>1, <1>2 DEF TypeOK
  <2> QED
    BY <1>1, <1>2, <2>1 DEF TypeOK, MakingTypeOK
<1>5. \A j \in Alive' : NodeOK(nodes'[j])
  BY <1>1, <1>2
<1>6. MakingInv'
  BY DEF MakingInv
<1> QED
  BY <1>3, <1>4, <1>5, <1>6 DEF SetupInv

(* A node that was given one more interface.                               *)
Given(m, name) == [m EXCEPT !.from = Append(@, name)]

(* The next interface of a node in the making goes to the slot that        *)
(* follows those of the interfaces before it, if there is one.             *)
LEMMA NextSlot ==
  ASSUME NEW o \in Node, NodeOK(o), InTheMaking(o),
         NEW name \in Names, NEW t \in Transceivers, t # NoTransceiver, t.name = name,
         NEW m, m = addTransceiver(o, t),
         NEW n, n = Given(m, name)
  PROVE  /\ n \in Node /\ NodeOK(n) /\ InTheMaking(n)
         /\ n.id = o.id /\ n.transceiver_ = m.transceiver_
<1> DEFINE len == Len(o.from)
<1>1. o.from \in Seq(Names) /\ len \in Nat
  <2>1. o.from \in Seq(Names)
    BY DEF Node
  <2> QED
    BY <2>1, LenProperties
<1>2. m \in Node /\ m.id = o.id /\ m.from = o.from /\ m.late = o.late /\ m.online_ = o.online_
  BY addTransceiverEffect
<1>3. /\ Append(o.from, name) \in Seq(Names)
      /\ Len(Append(o.from, name)) = len + 1
      /\ \A i \in 1..len : Append(o.from, name)[i] = o.from[i]
      /\ Append(o.from, name)[len + 1] = name
  BY <1>1, AppendProperties
<1>4. n \in Node
  <2> DEFINE from == Append(o.from, name)
  <2>1. n = [m EXCEPT !.from = from] /\ from \in Seq(Names)
    BY <1>2, <1>3 DEF Given
  <2> HIDE DEF from
  <2> QED
    BY <1>2, <2>1 DEF Node
<1>5. /\ n.from = Append(o.from, name) /\ n.transceiver_ = m.transceiver_
      /\ n.tx_queues_ = m.tx_queues_ /\ n.allocated = m.allocated
      /\ n.late = m.late /\ n.online_ = m.online_ /\ n.id = m.id
  BY <1>2 DEF Node, Given
<1> HIDE DEF len
<1>6. \A k \in Slots : (k \in Vacant(o)) = (k > len)
  BY <1>1, SlotsType DEF NodeOK, InTheMaking, Vacant, len
<1>7. /\ \A k \in Slots : k <= len =>
           /\ m.transceiver_[k] # NoTransceiver
           /\ m.transceiver_[k].name = o.from[k]
           /\ m.tx_queues_[k] # Uninitialized
      /\ ~m.online_ => \A k \in Slots : m.tx_queues_[k] <= 0
      /\ \A k \in Slots : m.allocated[k] >= Frames(m.tx_queues_[k])
      /\ ~m.late /\ (\A k \in Vacant(o) : o.tx_queues_[k] <= 0)
           => \A k \in Slots : m.allocated[k] = Frames(m.tx_queues_[k])
  <2>1. len = Len(m.from)
    BY <1>2 DEF len
  <2> QED
    BY <1>2, <2>1, addTransceiverOK
<1>8. \A k \in Vacant(o) : o.tx_queues_[k] <= 0
  BY DEF NodeOK, InTheMaking, Vacant
<1>9. /\ \A k \in Slots : k = len + 1 =>
           m.transceiver_[k] = t /\ m.tx_queues_[k] = 0
      /\ \A k \in Slots : k > len + 1 => m.transceiver_[k] = NoTransceiver
  <2>1. CASE Vacant(o) = {}
    <3>1. \A k \in Slots : ~(k > len)
      BY <1>6, <2>1
    <3>2. \A k \in Slots : k \in Nat
      BY SlotsType
    <3> QED
      BY <1>1, <3>1, <3>2
  <2>2. CASE Vacant(o) # {}
    <3>0. PICK k \in Vacant(o) : PlacedAt(m, o, t, k)
      BY <2>2, addTransceiverEffect
    <3>1. /\ \A l \in Vacant(o) : k <= l
          /\ m.transceiver_ = [o.transceiver_ EXCEPT ![k] = t]
          /\ m.tx_queues_ = [l \in Slots |-> IF l \in Vacant(o) THEN 0 ELSE o.tx_queues_[l]]
      BY <3>0 DEF PlacedAt
    <3>2. k \in Slots /\ k > len
      BY <1>6 DEF Vacant
    <3>3. len + 1 \in Slots
      BY <1>1, <3>2, SetupAssumption DEF Slots
    <3>4. len + 1 \in Vacant(o)
      BY <1>1, <1>6, <3>3
    <3>5. k = len + 1
      BY <1>1, <3>1, <3>2, <3>4, SlotsType
    <3>6. o.transceiver_ \in [Slots -> Transceivers]
      BY DEF Node
    <3>7. m.transceiver_[k] = t /\ m.tx_queues_[k] = 0
      BY <3>1, <3>2, <3>6
    <3>8. \A l \in Slots : l > len => o.transceiver_[l] = NoTransceiver
      BY DEF InTheMaking, len
    <3>9. \A l \in Slots : l > len + 1 => m.transceiver_[l] = NoTransceiver
      BY <1>1, <3>1, <3>5, <3>6, <3>8, SlotsType
    <3> QED
      BY <3>5, <3>7, <3>9
  <2> QED
    BY <2>1, <2>2
<1>10. \A k \in Slots : k <= len + 1 =>
         /\ n.transceiver_[k] # NoTransceiver
         /\ n.transceiver_[k].name = n.from[k]
         /\ n.tx_queues_[k] # Uninitialized
  <2>1. SUFFICES ASSUME NEW k \in Slots, k <= len + 1
                 PROVE  /\ n.transceiver_[k] # NoTransceiver
                        /\ n.transceiver_[k].name = n.from[k]
                        /\ n.tx_queues_[k] # Uninitialized
    OBVIOUS
  <2>2. CASE k = len + 1
    <3>1. 0 # Uninitialized
      BY DEF Uninitialized
    <3>2. m.transceiver_[k] = t /\ m.tx_queues_[k] = 0 /\ n.from[k] = name
      BY <1>3, <1>5, <1>9, <2>2
    <3>3. n.transceiver_[k] = t /\ n.tx_queues_[k] = 0
      BY <1>5, <3>2
    <3> QED
      BY <3>1, <3>2, <3>3
  <2>3. CASE k # len + 1
    <3>1. k <= len /\ k \in 1..len
      BY <1>1, <2>1, <2>3, SlotsType
    <3>2. n.from[k] = o.from[k]
      BY <1>3, <1>5, <3>1
    <3>3. n.transceiver_[k] = m.transceiver_[k] /\ n.tx_queues_[k] = m.tx_queues_[k]
      BY <1>5
    <3> QED
      BY <1>7, <3>1, <3>2, <3>3
  <2> QED
    BY <2>2, <2>3
<1>11. Len(n.from) = len + 1
  BY <1>3, <1>5
<1>12. ~m.online_
  BY <1>2 DEF InTheMaking
<1>13. NodeOK(n)
  <2>1. \A k \in Slots : k <= Len(n.from) =>
          /\ n.transceiver_[k] # NoTransceiver
          /\ n.transceiver_[k].name = n.from[k]
          /\ n.tx_queues_[k] # Uninitialized
    BY <1>10, <1>11
  <2>2. ~n.online_ => \A k \in Slots : n.tx_queues_[k] <= 0
    BY <1>5, <1>7
  <2>3. \A k \in Slots : n.allocated[k] >= Frames(n.tx_queues_[k])
    BY <1>5, <1>7
  <2>4. ~n.late => \A k \in Slots : n.allocated[k] = Frames(n.tx_queues_[k])
    BY <1>5, <1>7, <1>8
  <2> QED
    BY <2>1, <2>2, <2>3, <2>4 DEF NodeOK
<1>14. InTheMaking(n)
  BY <1>5, <1>9, <1>11, <1>12 DEF InTheMaking
<1> QED
  BY <1>2, <1>4, <1>5, <1>13, <1>14

(* One round of the loop of CreateLatencyNode.                             *)
LEMMA JoinNextKeeps ==
  ASSUME SetupInv, JoinNext
  PROVE  SetupInv'
<1> DEFINE i == Len(nodes)
           name == Head(unjoined)
           both == Joined([node |-> nodes[i], sockets |-> sockets], name)
           t == Opened(sockets, name)
           n == [both.node EXCEPT !.from = Append(@, name)]
<1>1. TypeOK /\ SocketsInv /\ MakingInv /\ \A j \in Alive : NodeOK(nodes[j])
  BY DEF SetupInv
<1>2. unjoined \in Seq(Names) /\ unjoined # <<>>
  BY <1>1 DEF TypeOK, JoinNext
<1>3. name \in Names /\ Tail(unjoined) \in Seq(Names)
  BY <1>2, HeadTailProperties
<1>4. making # "nothing"
  BY <1>1, <1>2 DEF TypeOK
<1>5. i \in Alive /\ InTheMaking(nodes[i]) /\ NodeOK(nodes[i]) /\ nodes[i] \in Node
  BY <1>1, <1>4, AliveType DEF MakingInv
<1>6. /\ nodes' = [nodes EXCEPT ![i] = n]
      /\ sockets' = both.sockets
      /\ unjoined' = Tail(unjoined)
      /\ used_ids_' = used_ids_ /\ socket_can_interfaces_' = socket_can_interfaces_
      /\ making' = making
  BY DEF JoinNext
<1>7. MakingTypeOK'
  BY <1>1, <1>3, <1>4, <1>6 DEF TypeOK, MakingTypeOK
<1>8. t \in Transceivers /\ t # NoTransceiver /\ t.name = name
  BY <1>1, <1>3, OpenedType DEF SocketsInv
<1> HIDE DEF i, t, name
<1>9. both.node = addTransceiver(nodes[i], t)
  BY DEF Joined, t
<1> HIDE DEF both
<1>10. /\ n \in Node /\ NodeOK(n) /\ InTheMaking(n)
       /\ n.id = nodes[i].id /\ n.transceiver_ = both.node.transceiver_
  <2> DEFINE o == nodes[i]
             m == both.node
  <2>1. o \in Node /\ NodeOK(o) /\ InTheMaking(o)
    BY <1>5
  <2>2. m = addTransceiver(o, t) /\ n = Given(m, name)
    BY <1>9 DEF Given
  <2> HIDE DEF o, m, n
  <2>3. /\ n \in Node /\ NodeOK(n) /\ InTheMaking(n)
        /\ n.id = o.id /\ n.transceiver_ = m.transceiver_
    BY <1>3, <1>8, <2>1, <2>2, NextSlot
  <2> QED
    BY <2>3 DEF o, m
<1>11. both = Joined([node |-> nodes[i], sockets |-> sockets], name)
  BY DEF both
<1>12. making # "nothing" => i = Len(nodes)
  BY DEF i
<1> HIDE DEF n
<1> QED
  BY <1>3, <1>5, <1>6, <1>7, <1>10, <1>11, <1>12, JoinedKeeps

(* The callers of CreateLatencyNode add a subscription, and a task.        *)
LEMMA LatencyKindKeeps ==
  ASSUME SetupInv, CreateLatencyRequestNode \/ CreateLatencyResponseNode
  PROVE  SetupInv'
<1> DEFINE i == Len(nodes)
           o == nodes[i]
<1>1. TypeOK /\ MakingInv /\ \A j \in Alive : NodeOK(nodes[j])
  BY DEF SetupInv
<1>2. making # "nothing" /\ unjoined = <<>> /\ making' = "nothing" /\ unjoined' = unjoined
      /\ UNCHANGED <<sockets, used_ids_, socket_can_interfaces_>>
  BY DEF CreateLatencyRequestNode, CreateLatencyResponseNode
<1>3. i \in Alive /\ o \in Node /\ NodeOK(o)
  BY <1>1, <1>2, AliveType DEF MakingInv
<1>4. MakingTypeOK'
  BY <1>1, <1>2 DEF TypeOK, MakingTypeOK
<1>5. o.subscribers_ \in Seq({"GetInfo request", "latency request", "latency response"})
      /\ o.schedule_ \in Seq({"heartbeat", "latency measurement"})
  BY <1>3 DEF Node
<1>6. CASE CreateLatencyRequestNode
  <2> DEFINE subscribers == Append(o.subscribers_, "latency response")
             schedule == Append(o.schedule_, "latency measurement")
             n == [o EXCEPT !.subscribers_ = subscribers, !.schedule_ = schedule]
  <2>1. /\ subscribers \in Seq({"GetInfo request", "latency request", "latency response"})
        /\ schedule \in Seq({"heartbeat", "latency measurement"})
    BY <1>5, AppendProperties
  <2>2. nodes' = [nodes EXCEPT ![i] = n]
    BY <1>3, <1>6 DEF CreateLatencyRequestNode, Node
  <2> HIDE DEF subscribers, schedule, o
  <2>3. n \in Node
    BY <1>3, <2>1 DEF Node
  <2>4. /\ n.id = o.id /\ n.from = o.from /\ n.transceiver_ = o.transceiver_
        /\ n.tx_queues_ = o.tx_queues_ /\ n.allocated = o.allocated
        /\ n.late = o.late /\ n.online_ = o.online_
    BY <1>3 DEF Node
  <2>5. NodeOK(n)
    BY <1>3, <2>4 DEF NodeOK
  <2>6. n.transceiver_ = nodes[i].transceiver_ /\ n.id = nodes[i].id
    BY <2>4 DEF o
  <2> HIDE DEF n, i
  <2> QED
    BY <1>2, <1>3, <1>4, <2>2, <2>3, <2>5, <2>6, ChangedKeeps
<1>7. CASE CreateLatencyResponseNode
  <2> DEFINE subscribers == Append(o.subscribers_, "latency request")
             n == [o EXCEPT !.subscribers_ = subscribers]
  <2>1. subscribers \in Seq({"GetInfo request", "latency request", "latency response"})
    BY <1>5, AppendProperties
  <2>2. nodes' = [nodes EXCEPT ![i] = n]
    BY <1>3, <1>7 DEF CreateLatencyResponseNode, Node
  <2> HIDE DEF subscribers, o
  <2>3. n \in Node
    BY <1>3, <2>1 DEF Node
  <2>4. /\ n.id = o.id /\ n.from = o.from /\ n.transceiver_ = o.transceiver_
        /\ n.tx_queues_ = o.tx_queues_ /\ n.allocated = o.allocated
        /\ n.late = o.late /\ n.online_ = o.online_
    BY <1>3 DEF Node
  <2>5. NodeOK(n)
    BY <1>3, <2>4 DEF NodeOK
  <2>6. n.transceiver_ = nodes[i].transceiver_ /\ n.id = nodes[i].id
    BY <2>4 DEF o
  <2> HIDE DEF n, i
  <2> QED
    BY <1>2, <1>3, <1>4, <2>2, <2>3, <2>5, <2>6, ChangedKeeps
<1> QED
  BY <1>6, <1>7

(* The application adds a transceiver.                                     *)
LEMMA AttachKeeps ==
  ASSUME SetupInv, Idle, NEW i \in Alive, NEW name \in Names, Attach(i, name)
  PROVE  SetupInv'
<1> DEFINE both == Joined([node |-> nodes[i], sockets |-> sockets], name)
           t == Opened(sockets, name)
           o == nodes[i]
           m == both.node
           replaced == {k \in Vacant(o) : o.tx_queues_[k] > 0}
           n == [m EXCEPT !.late = @ \/ replaced # {}]
<1>1. TypeOK /\ SocketsInv /\ NodeOK(o) /\ o \in Node
  BY AliveType DEF SetupInv
<1>2. /\ nodes' = [nodes EXCEPT ![i] = n]
      /\ sockets' = both.sockets
      /\ UNCHANGED <<used_ids_, socket_can_interfaces_, making, unjoined>>
      /\ making = "nothing"
  BY DEF Attach, Idle
<1>3. MakingTypeOK'
  BY <1>1, <1>2 DEF TypeOK, MakingTypeOK
<1>4. t \in Transceivers /\ t # NoTransceiver
  BY <1>1, OpenedType DEF SocketsInv
<1> HIDE DEF t
<1>5. m = addTransceiver(o, t)
  BY DEF Joined, t
<1> HIDE DEF both, o, m
<1>6. m \in Node /\ m.id = o.id
  BY <1>1, <1>4, <1>5, addTransceiverEffect
<1>7. /\ \A k \in Slots : k <= Len(m.from) =>
           /\ m.transceiver_[k] # NoTransceiver
           /\ m.transceiver_[k].name = m.from[k]
           /\ m.tx_queues_[k] # Uninitialized
      /\ ~m.online_ => \A k \in Slots : m.tx_queues_[k] <= 0
      /\ \A k \in Slots : m.allocated[k] >= Frames(m.tx_queues_[k])
      /\ ~m.late /\ (\A k \in Vacant(o) : o.tx_queues_[k] <= 0)
           => \A k \in Slots : m.allocated[k] = Frames(m.tx_queues_[k])
  BY <1>1, <1>4, <1>5, addTransceiverOK
<1>8. replaced = {} => \A k \in Vacant(o) : o.tx_queues_[k] <= 0
  <2>1. o.tx_queues_ \in [Slots -> {Uninitialized} \cup 0..MaxFrames]
    BY <1>1 DEF Node
  <2>2. \A k \in Vacant(o) : o.tx_queues_[k] \in Int
    BY <2>1, SetupAssumption DEF Vacant, Uninitialized
  <2> QED
    BY <2>2
<1> HIDE DEF replaced
<1>9. n \in Node
  BY <1>6 DEF Node
<1>10. /\ n.id = m.id /\ n.from = m.from /\ n.transceiver_ = m.transceiver_
       /\ n.tx_queues_ = m.tx_queues_ /\ n.allocated = m.allocated
       /\ n.online_ = m.online_
       /\ n.late = (m.late \/ replaced # {})
  BY <1>6 DEF Node
<1> HIDE DEF n
<1>11. NodeOK(n)
  BY <1>7, <1>8, <1>10 DEF NodeOK
<1>12. /\ both = Joined([node |-> nodes[i], sockets |-> sockets], name)
       /\ n.transceiver_ = both.node.transceiver_ /\ n.id = nodes[i].id
  BY <1>6, <1>10 DEF both, o, m
<1> QED
  BY <1>2, <1>3, <1>9, <1>11, <1>12, JoinedKeeps

(* StartNode, a publication, and the sending of a frame change no slot.    *)
LEMMA RunningKeeps ==
  ASSUME SetupInv, Idle, NEW i \in Alive,
         StartNode(i) \/ Publish(i) \/ \E k \in Slots : Send(i, k)
  PROVE  SetupInv'
<1> DEFINE o == nodes[i]
<1>1. TypeOK /\ NodeOK(o) /\ o \in Node
  BY AliveType DEF SetupInv
<1>2. UNCHANGED <<used_ids_, socket_can_interfaces_>> /\ making' = "nothing" /\ MakingTypeOK'
  BY <1>1 DEF Idle, TypeOK, MakingTypeOK
<1>3. /\ o.tx_queues_ \in [Slots -> {Uninitialized} \cup 0..MaxFrames]
      /\ o.allocated \in [Slots -> Nat]
  BY <1>1 DEF Node
<1>4. CASE StartNode(i)
  <2> DEFINE n == [o EXCEPT !.online_ = TRUE]
  <2>1. nodes' = [nodes EXCEPT ![i] = n] /\ sockets' = sockets
    BY <1>4 DEF StartNode
  <2> HIDE DEF o
  <2>2. n \in Node
    BY <1>1 DEF Node
  <2>3. /\ n.id = o.id /\ n.from = o.from /\ n.transceiver_ = o.transceiver_
        /\ n.tx_queues_ = o.tx_queues_ /\ n.allocated = o.allocated
        /\ n.late = o.late /\ n.online_
    BY <1>1 DEF Node
  <2>4. NodeOK(n)
    BY <1>1, <2>3 DEF NodeOK
  <2>5. n.transceiver_ = nodes[i].transceiver_ /\ n.id = nodes[i].id
    BY <2>3 DEF o
  <2> HIDE DEF n
  <2> QED
    BY <1>2, <2>1, <2>2, <2>4, <2>5, ChangedKeeps
<1>5. CASE Publish(i)
  <2> DEFINE queues == [k \in Slots |-> o.tx_queues_[k] + 1]
             blocks == [k \in Slots |-> o.allocated[k] + 1]
             n == [o EXCEPT !.tx_queues_ = queues, !.allocated = blocks]
  <2>1. /\ nodes' = [nodes EXCEPT ![i] = n] /\ sockets' = sockets
        /\ o.online_ /\ \A k \in Slots : o.tx_queues_[k] \in 0..(MaxFrames - 1)
    BY <1>1, <1>5 DEF Publish, Node
  <2> HIDE DEF o
  <2>2. queues \in [Slots -> 0..MaxFrames] /\ blocks \in [Slots -> Nat]
    <3>1. \A k \in Slots : o.tx_queues_[k] + 1 \in 0..MaxFrames
      BY <2>1, SetupAssumption, SMTT(30)
    <3>2. \A k \in Slots : o.allocated[k] + 1 \in Nat
      BY <1>3
    <3> QED
      BY <3>1, <3>2
  <2>3. \A k \in Slots : /\ queues[k] # Uninitialized
                         /\ Frames(queues[k]) = Frames(o.tx_queues_[k]) + 1
                         /\ blocks[k] = o.allocated[k] + 1
    <3>1. TAKE k \in Slots
    <3>2. o.tx_queues_[k] \in Nat /\ o.tx_queues_[k] # Uninitialized
      BY <2>1, SetupAssumption DEF Uninitialized
    <3>3. queues[k] = o.tx_queues_[k] + 1 /\ blocks[k] = o.allocated[k] + 1
      OBVIOUS
    <3>4. queues[k] # Uninitialized
      BY <3>2, <3>3 DEF Uninitialized
    <3> QED
      BY <3>2, <3>3, <3>4 DEF Frames
  <2> HIDE DEF queues, blocks
  <2>4. n \in Node
    BY <1>1, <2>2 DEF Node
  <2>5. /\ n.id = o.id /\ n.from = o.from /\ n.transceiver_ = o.transceiver_
        /\ n.tx_queues_ = queues /\ n.allocated = blocks
        /\ n.late = o.late /\ n.online_ = o.online_
    BY <1>1 DEF Node
  <2> HIDE DEF n
  <2>6. \A k \in Slots : /\ Frames(o.tx_queues_[k]) \in Int
                         /\ o.allocated[k] \in Nat
    <3>1. TAKE k \in Slots
    <3>2. o.tx_queues_[k] \in Nat
      BY <2>1, SetupAssumption
    <3> QED
      BY <1>3, <3>2 DEF Frames
  <2>7. \A k \in Slots : n.allocated[k] >= Frames(n.tx_queues_[k])
    <3>1. \A k \in Slots : o.allocated[k] >= Frames(o.tx_queues_[k])
      BY <1>1 DEF NodeOK
    <3>2. \A k \in Slots : blocks[k] >= Frames(queues[k])
      BY <2>3, <2>6, <3>1
    <3> QED
      BY <2>5, <3>2
  <2>8. ~n.late => \A k \in Slots : n.allocated[k] = Frames(n.tx_queues_[k])
    BY <1>1, <2>3, <2>5 DEF NodeOK
  <2>9. NodeOK(n)
    BY <1>1, <2>1, <2>3, <2>5, <2>7, <2>8 DEF NodeOK
  <2>10. n.transceiver_ = nodes[i].transceiver_ /\ n.id = nodes[i].id
    BY <2>5 DEF o
  <2> QED
    BY <1>2, <2>1, <2>4, <2>9, <2>10, ChangedKeeps
<1>6. ASSUME NEW k \in Slots, Send(i, k)
      PROVE  SetupInv'
  <2> DEFINE queues == [o.tx_queues_ EXCEPT ![k] = @ - 1]
             blocks == [o.allocated EXCEPT ![k] = @ - 1]
             n == [o EXCEPT !.tx_queues_ = queues, !.allocated = blocks]
  <2>1. nodes' = [nodes EXCEPT ![i] = n] /\ sockets' = sockets /\ o.tx_queues_[k] > 0
    BY <1>1, <1>6 DEF Send, Node
  <2> HIDE DEF o
  <2>2. o.tx_queues_[k] \in 1..MaxFrames
    BY <1>3, <2>1, SetupAssumption DEF Uninitialized
  <2>3. Frames(o.tx_queues_[k]) = o.tx_queues_[k]
    BY <2>2, SetupAssumption DEF Frames, Uninitialized
  <2>4. o.allocated[k] \in Nat /\ o.allocated[k] >= 1
    BY <1>1, <1>3, <2>2, <2>3, SetupAssumption DEF NodeOK
  <2>5. /\ queues[k] = o.tx_queues_[k] - 1 /\ queues[k] \in 0..MaxFrames
        /\ blocks[k] = o.allocated[k] - 1 /\ blocks[k] \in Nat
        /\ \A l \in Slots : l # k => queues[l] = o.tx_queues_[l] /\ blocks[l] = o.allocated[l]
    <3>1. queues[k] = o.tx_queues_[k] - 1 /\ blocks[k] = o.allocated[k] - 1
      BY <1>3
    <3>2. \A l \in Slots : l # k => queues[l] = o.tx_queues_[l] /\ blocks[l] = o.allocated[l]
      BY <1>3
    <3>3. o.tx_queues_[k] - 1 \in 0..MaxFrames
      BY <2>2, SetupAssumption
    <3>4. o.allocated[k] - 1 \in Nat
      BY <2>4
    <3> QED
      BY <3>1, <3>2, <3>3, <3>4
  <2>6. /\ queues \in [Slots -> {Uninitialized} \cup 0..MaxFrames]
        /\ blocks \in [Slots -> Nat]
    BY <1>3, <2>5
  <2>7. Frames(queues[k]) = queues[k] /\ queues[k] # Uninitialized
    BY <2>5, SetupAssumption DEF Frames, Uninitialized
  <2> HIDE DEF queues, blocks
  <2>8. n \in Node
    BY <1>1, <2>6 DEF Node
  <2>9. /\ n.id = o.id /\ n.from = o.from /\ n.transceiver_ = o.transceiver_
        /\ n.tx_queues_ = queues /\ n.allocated = blocks
        /\ n.late = o.late /\ n.online_ = o.online_
    BY <1>1 DEF Node
  <2> HIDE DEF n
  <2>10. n.online_
    BY <1>1, <2>2, <2>9, SetupAssumption DEF NodeOK
  <2>11. \A l \in Slots : l <= Len(n.from) =>
           /\ n.transceiver_[l] # NoTransceiver
           /\ n.transceiver_[l].name = n.from[l]
           /\ n.tx_queues_[l] # Uninitialized
    BY <1>1, <2>5, <2>7, <2>9 DEF NodeOK
  <2>12. \A l \in Slots : n.allocated[l] >= Frames(n.tx_queues_[l])
    <3>1. TAKE l \in Slots
    <3>2. CASE l # k
      <4>1. o.allocated[l] >= Frames(o.tx_queues_[l])
        BY <1>1 DEF NodeOK
      <4>2. n.allocated[l] = o.allocated[l] /\ n.tx_queues_[l] = o.tx_queues_[l]
        BY <2>5, <2>9, <3>2
      <4> QED
        BY <4>1, <4>2
    <3>3. CASE l = k
      <4>1. o.allocated[k] >= o.tx_queues_[k]
        BY <1>1, <2>3 DEF NodeOK
      <4>2. o.allocated[k] - 1 >= o.tx_queues_[k] - 1
        BY <2>2, <2>4, <4>1, SetupAssumption, SMTT(30)
      <4>3. blocks[k] >= Frames(queues[k])
        BY <2>5, <2>7, <4>2
      <4> QED
        BY <2>9, <3>3, <4>3
    <3> QED
      BY <3>2, <3>3
  <2>13. ASSUME ~n.late, NEW l \in Slots
         PROVE  n.allocated[l] = Frames(n.tx_queues_[l])
    <3>1. o.allocated[l] = Frames(o.tx_queues_[l])
      BY <1>1, <2>9, <2>13 DEF NodeOK
    <3> QED
      BY <2>3, <2>5, <2>7, <2>9, <3>1
  <2>14. NodeOK(n)
    BY <2>10, <2>11, <2>12, <2>13 DEF NodeOK
  <2>15. n.transceiver_ = nodes[i].transceiver_ /\ n.id = nodes[i].id
    BY <2>9 DEF o
  <2> QED
    BY <1>2, <2>1, <2>8, <2>14, <2>15, ChangedKeeps
<1> QED
  BY <1>4, <1>5, <1>6

(* A node is destroyed.                                                    *)
LEMMA DestroyKeeps ==
  ASSUME SetupInv, Idle, NEW i \in Alive, Destroy(i)
  PROVE  SetupInv'
<1>1. TypeOK /\ SocketsInv /\ \A j \in Alive : NodeOK(nodes[j])
  BY DEF SetupInv
<1>2. /\ nodes' = [nodes EXCEPT ![i] = Free]
      /\ sockets' = Closed(sockets, Range(nodes[i].transceiver_))
      /\ UNCHANGED <<used_ids_, socket_can_interfaces_>>
      /\ making' = "nothing" /\ MakingTypeOK'
  BY <1>1 DEF Destroy, Idle, TypeOK, MakingTypeOK
<1>3. nodes \in Seq(Node \cup {Free}) /\ i \in 1..Len(nodes)
  BY <1>1, AliveType DEF TypeOK
<1>4. /\ nodes' \in Seq(Node \cup {Free})
      /\ Len(nodes') = Len(nodes)
      /\ \A j \in 1..Len(nodes) : nodes'[j] = IF j = i THEN Free ELSE nodes[j]
  BY <1>2, <1>3, ExceptSeq
<1>5. DOMAIN nodes' = 1..Len(nodes)
  BY <1>4, LenProperties
<1>6. \A j : j \in Alive' <=> j \in Alive /\ j # i
  BY <1>1, <1>3, <1>4, <1>5, AliveType DEF Alive
<1>7. Alive' = Alive \ {i} /\ \A j \in Alive : j # i => nodes'[j] = nodes[j]
  BY <1>1, <1>4, <1>6, AliveType
<1>8. SocketsInv'
  BY <1>1, <1>2, <1>7, SocketsClosed
<1>9. TypeOK'
  <2>1. \A fd \in DOMAIN sockets' : fd \in Nat /\ sockets'[fd] \in Names \ Missing
    BY <1>1, <1>2 DEF TypeOK, Closed
  <2>2. \A j \in Alive' : nodes'[j].id \in Range(used_ids_')
    BY <1>1, <1>2, <1>7 DEF TypeOK
  <2> QED
    BY <1>1, <1>2, <1>4, <2>1, <2>2 DEF TypeOK, MakingTypeOK
<1>10. \A j \in Alive' : NodeOK(nodes'[j])
  BY <1>1, <1>7
<1>11. MakingInv'
  BY <1>2 DEF MakingInv
<1> QED
  BY <1>8, <1>9, <1>10, <1>11 DEF SetupInv

(* A further interface, or none of the actions, leaves nodes and sockets.  *)
LEMMA RestKeeps ==
  ASSUME SetupInv, AddSocketCanInterface \/ UNCHANGED vars
  PROVE  SetupInv'
<1>1. UNCHANGED <<used_ids_, sockets, nodes, making, unjoined>>
  BY DEF AddSocketCanInterface, vars
<1>2. socket_can_interfaces_' \in Seq(Names)
  <2>1. socket_can_interfaces_ \in Seq(Names)
    BY DEF SetupInv, TypeOK
  <2>2. CASE UNCHANGED vars
    BY <2>1, <2>2 DEF vars
  <2>3. CASE AddSocketCanInterface
    <3>1. PICK name \in Names :
            socket_can_interfaces_' = Append(socket_can_interfaces_, name)
      BY <2>3 DEF AddSocketCanInterface
    <3> QED
      BY <2>1, <3>1, AppendProperties
  <2> QED
    BY <2>2, <2>3
<1>3. Alive' = Alive
  BY <1>1 DEF Alive
<1>4. TypeOK'
  BY <1>1, <1>2, <1>3 DEF SetupInv, TypeOK
<1>5. SocketsInv'
  BY <1>1, <1>3, SocketsKept DEF SetupInv
<1>6. MakingInv'
  BY <1>1, <1>3 DEF SetupInv, MakingInv
<1> QED
  BY <1>1, <1>3, <1>4, <1>5, <1>6 DEF SetupInv

(* Every step keeps the invariant.                                         *)
LEMMA NextSetup == SetupInv /\ [Next]_vars => SetupInv'
<1> SUFFICES ASSUME SetupInv, [Next]_vars PROVE SetupInv'
  OBVIOUS
<1>0. TypeOK
  BY DEF SetupInv
<1>1. CASE CreateNodeOf
  <2>1. PICK id \in Ids : Create(id, FALSE)
    BY <1>1 DEF CreateNodeOf
  <2>2. MakingTypeOK' /\ id \in Nat
    BY <1>0, <1>1, SetupAssumption DEF CreateNodeOf, TypeOK, MakingTypeOK
  <2> QED
    BY <2>1, <2>2, CreateKeeps
<1>2. CASE CreateNode
  <2>1. RandomId \in Nat
    BY SetupAssumption DEF RandomId
  <2>2. MakingTypeOK' /\ Create(RandomId, TRUE)
    BY <1>0, <1>2 DEF CreateNode, TypeOK, MakingTypeOK
  <2> QED
    BY <2>1, <2>2, CreateKeeps
<1>3. CASE CreateLatencyNode
  <2>1. PICK id \in Ids : Create(id, FALSE)
    BY <1>3 DEF CreateLatencyNode
  <2>2. socket_can_interfaces_ \in Seq(Names) /\ socket_can_interfaces_ # <<>>
    BY <1>0, <2>1 DEF TypeOK, Create
  <2>3. Tail(socket_can_interfaces_) \in Seq(Names)
    BY <2>2, HeadTailProperties
  <2>4. MakingTypeOK'
    BY <1>3, <2>3 DEF CreateLatencyNode, MakingTypeOK
  <2>5. id \in Nat
    BY SetupAssumption
  <2> QED
    BY <2>1, <2>4, <2>5, CreateKeeps
<1>4. CASE JoinNext
  BY <1>4, JoinNextKeeps
<1>5. CASE CreateLatencyRequestNode \/ CreateLatencyResponseNode
  BY <1>5, LatencyKindKeeps
<1>6. CASE Use
  <2>1. Idle
    BY <1>6 DEF Use
  <2>2. PICK i \in Alive :
          \/ \E name \in Names : Attach(i, name)
          \/ StartNode(i) \/ Publish(i) \/ Destroy(i)
          \/ \E k \in Slots : Send(i, k)
    BY <1>6 DEF Use
  <2> QED
    BY <2>1, <2>2, AttachKeeps, RunningKeeps, DestroyKeeps
<1>7. CASE AddSocketCanInterface \/ UNCHANGED vars
  BY <1>7, RestKeeps
<1> QED
  BY <1>1, <1>2, <1>3, <1>4, <1>5, <1>6, <1>7 DEF Next

(* SetupInv holds of every state.                                          *)
LEMMA SetupInvHolds == Spec => []SetupInv
BY InitSetup, NextSetup, PTL DEF Spec

-----------------------------------------------------------------------------
(* The theorems.                                                           *)

(* The factory and the nodes always have the types of NodeFactory.h,       *)
(* OpenCyphal.h and Node.h; an open socket is bound to an interface that   *)
(* exists, and the ID of a node is noted as used (NodeFactory.cpp:48,116). *)
THEOREM SetupTypeCorrect == Spec => []TypeOK
BY SetupInvHolds, PTL DEF SetupInv

(* The loop of addTransceiver goes on with the pointer it has moved from   *)
(* (OpenCyphal.cpp:66-73), and yet a node made of enough interfaces has    *)
(* each in its slot, with a queue, whatever is added or destroyed later.   *)
THEOREM EverySlotServedHolds == Spec => []EverySlotServed
<1>1. SetupInv => EverySlotServed
  <2>1. SUFFICES ASSUME SetupInv, NEW i \in Alive, Len(nodes[i].from) >= Factor,
                        NEW k \in Slots
                 PROVE  /\ nodes[i].transceiver_[k].name = nodes[i].from[k]
                        /\ nodes[i].tx_queues_[k] # Uninitialized
    BY DEF EverySlotServed
  <2>2. nodes[i].from \in Seq(Names)
    <3>1. TypeOK
      BY <2>1 DEF SetupInv
    <3>2. nodes[i] \in Node
      BY <2>1, <3>1, AliveType
    <3> QED
      BY <3>2 DEF Node
  <2>3. Len(nodes[i].from) \in Nat
    BY <2>2, LenProperties
  <2>4. k <= Len(nodes[i].from)
    BY <2>1, <2>3, SetupAssumption DEF Slots
  <2>5. NodeOK(nodes[i])
    BY <2>1, SMTT(30) DEF SetupInv
  <2> QED
    BY <2>4, <2>5 DEF NodeOK
<1> QED
  BY <1>1, SetupInvHolds, PTL

(* No socket is leaked, shared, or closed under another node, also when    *)
(* interfaces are missing or find no slot (SocketCANTransceiver.cpp:11-28).*)
THEOREM SocketsOwnedHolds == Spec => []SocketsOwned
<1> DEFINE T(o) == nodes[o[1]].transceiver_[o[2]]
           owners(fd) == {o \in Alive \X Slots : T(o).fd = fd}
<1>1. SetupInv => SocketsOwned
  <2>1. SUFFICES ASSUME SetupInv,
                        NEW fd \in DOMAIN sockets \cup
                          UNION {{nodes[i].transceiver_[k].fd : k \in Slots} : i \in Alive},
                        fd >= 0
                 PROVE  /\ Cardinality(owners(fd)) = 1
                        /\ fd \in DOMAIN sockets
                        /\ \A o \in owners(fd) : T(o).name = sockets[fd]
    BY DEF SocketsOwned
  <2>2. SocketsInv
    BY <2>1 DEF SetupInv
  <2>3. PICK i \in Alive, k \in Slots : nodes[i].transceiver_[k].fd = fd
    <3>1. CASE fd \in DOMAIN sockets
      BY <2>2, <3>1 DEF SocketsInv
    <3>2. CASE fd \notin DOMAIN sockets
      BY <3>2
    <3> QED
      BY <3>1, <3>2
  <2>4. fd \in DOMAIN sockets
    BY <2>1, <2>2, <2>3 DEF SocketsInv
  <2>5. owners(fd) = {<<i, k>>}
    <3>1. <<i, k>> \in owners(fd)
      BY <2>3
    <3>2. ASSUME NEW o \in owners(fd) PROVE o = <<i, k>>
      <4>1. o[1] \in Alive /\ o[2] \in Slots /\ o = <<o[1], o[2]>> /\ T(o).fd = fd
        OBVIOUS
      <4>2. o[1] = i /\ o[2] = k
        BY <2>1, <2>2, <2>3, <4>1 DEF SocketsInv
      <4> QED
        BY <4>1, <4>2
    <3> QED
      BY <3>1, <3>2
  <2>6. Cardinality(owners(fd)) = 1
    BY <2>5, FS_Singleton
  <2>7. \A o \in owners(fd) : T(o).name = sockets[fd]
    <3>1. nodes[i].transceiver_[k].name = sockets[fd]
      BY <2>1, <2>2, <2>3 DEF SocketsInv
    <3> QED
      BY <2>5, <3>1
  <2> QED
    BY <2>4, <2>6, <2>7, SMTT(30)
<1> QED
  BY <1>1, SetupInvHolds, PTL

(* addTransceiver replaces the queues of vacant slots; while a node is     *)
(* made these are empty, so blocks leak only by a transceiver added to a   *)
(* node that was running with a vacant slot (OpenCyphal.cpp:70).           *)
THEOREM FramesAccountedHolds == Spec => []FramesAccounted
<1>1. SetupInv => FramesAccounted
  BY DEF SetupInv, FramesAccounted, NodeOK
<1> QED
  BY <1>1, SetupInvHolds, PTL

=============================================================================
