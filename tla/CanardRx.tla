------------------------------ MODULE CanardRx ------------------------------
(***************************************************************************)
(* The receive session of libcanard (version 3, rxSessionUpdate) for       *)
(* transfers of one frame that may arrive on redundant interfaces, as      *)
(* src/OpenCyphal/OpenCyphal.cpp:117-119 feeds it: a frame is stamped with *)
(* the sample of the clock at which it is read.  libcanard is a git        *)
(* submodule: it is modelled from its use.                                 *)
(***************************************************************************)
EXTENDS Integers

CONSTANTS TidMod,     \* 2^5: a transfer ID has five bits in a CAN frame
          TidTimeout  \* CANARD_DEFAULT_TRANSFER_ID_TIMEOUT_USEC

ASSUME CanardRxAssumption == /\ TidMod \in Nat \ {0, 1, 2}
                             /\ TidTimeout \in Nat

Tids == 0..(TidMod - 1)

(* no frame of this source has been read yet *)
NoSession == [tid |-> -1, ts |-> -1, iface |-> -1]

(* fault: the timeout is over one microsecond early *)
TimedOutEarly(s, ts) == ts - s.ts >= TidTimeout

TimedOut(s, ts) == ts - s.ts > TidTimeout

(* fault: only the expected transfer ID is taken, gaps wait for the timeout *)
NewOnInterfaceStrict(s, tid, iface) == s.iface = iface /\ s.tid = tid

(* On the interface of the session every transfer ID is taken but the one  *)
(* before the expected one, which is a repetition.                         *)
NewOnInterface(s, tid, iface) == s.iface = iface /\ (s.tid - tid) % TidMod # 1

(* fault: a new transfer ID is taken from any interface *)
AcceptsAnyInterface(s, tid, ts, iface) ==
  s = NoSession \/ TimedOut(s, ts) \/ NewOnInterface(s, tid, s.iface)

(* The frame completes a transfer: it opens the session, or restarts it    *)
(* after the timeout on whichever interface it comes, or is new on the     *)
(* interface the session is tied to.  Any other frame is dropped.          *)
Accepts(s, tid, ts, iface) ==
  s = NoSession \/ TimedOut(s, ts) \/ NewOnInterface(s, tid, iface)

(* fault: the session keeps the time of the transfer that opened it *)
SessionAfterStale(s, tid, ts, iface) ==
  [tid |-> (tid + 1) % TidMod, ts |-> IF s = NoSession THEN ts ELSE s.ts, iface |-> iface]

(* fault: the next transfer ID is not brought back into its five bits *)
SessionAfterWide(s, tid, ts, iface) == [tid |-> tid + 1, ts |-> ts, iface |-> iface]

(* the session once the transfer is complete: it expects the next ID *)
SessionAfter(s, tid, ts, iface) == [tid |-> (tid + 1) % TidMod, ts |-> ts, iface |-> iface]

=============================================================================
