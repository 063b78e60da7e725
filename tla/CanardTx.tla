------------------------------ MODULE CanardTx ------------------------------
(***************************************************************************)
(* The transmission queue of libcanard, as src/OpenCyphal/OpenCyphal.cpp   *)
(* uses it.  libcanard is a git submodule: it is modelled from its use.    *)
(*                                                                         *)
(* A queue is an AVL tree of CAN frames sorted by CAN identifier, with     *)
(* frames of equal identifier kept in the order they were pushed; it is a  *)
(* set of items here, and the order is a relation on items.  An item is    *)
(* named by the transfer it belongs to (transfers are numbered in the      *)
(* order they are pushed) and by its place in that transfer; the CAN       *)
(* identifier is kept only as its rank, the smallest rank winning.         *)
(***************************************************************************)
EXTENDS Integers, FiniteSets

CONSTANTS TxCapacity,    \* canardTxInit(100, ...): frames a queue may hold
          Ranks,         \* places of the CAN identifiers in the priority order
          MaxTransfers,  \* bound: transfers a behaviour may push
          MaxFrames      \* bound: frames of the longest transfer

ASSUME CanardTxAssumption == /\ TxCapacity \in Nat
                             /\ Ranks \subseteq Int
                             /\ MaxTransfers \in Nat
                             /\ MaxFrames \in Nat \ {0}

Transfers == 1..MaxTransfers

(* CanardTxQueueItem: one frame waiting in a queue *)
Item == [xfer : Transfers, idx : 1..MaxFrames, rank : Ranks, deadline : Nat]

(* the frames canardTxPush makes of transfer k *)
FramesOf(k, n, rank, deadline) ==
  { [xfer |-> k, idx |-> j, rank |-> rank, deadline |-> deadline] : j \in 1..n }

(* the AVL order: CAN identifier first, then order of insertion *)
Before(x, y) == \/ x.rank < y.rank
                \/ /\ x.rank = y.rank
                   /\ \/ x.xfer < y.xfer
                      \/ x.xfer = y.xfer /\ x.idx < y.idx

(* canardTxPeek *)
IsHead(q, x) == /\ x \in q
                /\ \A y \in q : y = x \/ Before(x, y)

(* canardTxPush refuses a transfer that would not fit as a whole *)
Fits(q, frames) == Cardinality(q) + Cardinality(frames) <= TxCapacity

(* fault: deadlines are ignored *)
LiveAtAlways(x, time) == TRUE

(* the test of HandleTxRxQueues: the frame is not yet timed out *)
LiveAt(x, time) == x.deadline = 0 \/ x.deadline > time

=============================================================================
