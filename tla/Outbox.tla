------------------------------- MODULE Outbox -------------------------------
(***************************************************************************)
(* What the sending side of OpenCyphal promises, with no queue discipline, *)
(* no memory and no calls.  Every interface is offered every transfer, in  *)
(* the order of publication, and takes it as a whole or not at all.  It    *)
(* sends the most urgent frame it holds, each frame once, and forgets a    *)
(* frame the moment its deadline passes.                                   *)
(***************************************************************************)
EXTENDS CanardTx, Sequences

CONSTANTS Ifaces,      \* the interfaces
          Deadlines    \* deadlines a transfer may have

VARIABLES now,      \* the time
          offered,  \* per interface, how many transfers it was offered
          pending,  \* per interface, the live frames it holds
          sent      \* per interface, the frames sent, in order

vars == <<now, offered, pending, sent>>

LiveFrames(frames, time) == { x \in frames : LiveAt(x, time) }

Init == /\ now = 1
        /\ offered = [i \in Ifaces |-> 0]
        /\ pending = [i \in Ifaces |-> {}]
        /\ sent = [i \in Ifaces |-> <<>>]

(* the next transfer is offered to interface i, and taken or refused *)
Offer(i) ==
  /\ offered'[i] = offered[i] + 1
  /\ sent'[i] = sent[i]
  /\ \/ pending'[i] = pending[i]
     \/ \E n \in 1..MaxFrames, rank \in Ranks, deadline \in Deadlines :
          pending'[i] = pending[i] \cup
            LiveFrames(FramesOf(offered[i] + 1, n, rank, deadline), now)

Transmit(i) ==
  \E x \in pending[i] : /\ IsHead(pending[i], x)
                        /\ pending'[i] = pending[i] \ {x}
                        /\ sent'[i] = Append(sent[i], x)
                        /\ offered'[i] = offered[i]

Rest(i) == /\ offered'[i] = offered[i]
           /\ pending'[i] = pending[i]
           /\ sent'[i] = sent[i]

(* the interfaces are independent: each makes a step of its own, or none *)
Serve == /\ \A i \in Ifaces : Rest(i) \/ Transmit(i) \/ Offer(i)
         /\ now' = now

Advance == /\ now' = now + 1
           /\ pending' = [i \in Ifaces |-> LiveFrames(pending[i], now')]
           /\ UNCHANGED <<offered, sent>>

Next == Serve \/ Advance

Spec == Init /\ [][Next]_vars

=============================================================================
