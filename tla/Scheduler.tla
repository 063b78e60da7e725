----------------------------- MODULE Scheduler ------------------------------
(***************************************************************************)
(* The scheduler of a Node (src/OpenCyphal/Node.cpp), the tasks it runs    *)
(* (THeartbeat, TByteArray, TLatencyMeasurement) and the transfer-ID       *)
(* counters of the messages they publish, under the loop of App/main.cpp:  *)
(* sample the clock, then CheckScheduler with that sample.  The clock runs *)
(* on while the tasks of one check are run; it leaps where the C++ library *)
(* takes the wall clock for its high_resolution_clock, as libstdc++ does   *)
(* (Clock.cpp:15).  What becomes of a published message is the subject of  *)
(* OpenCyphal.                                                             *)
(***************************************************************************)
EXTENDS Integers

CONSTANTS
  NumTasks,  \* length of schedule_
  Kind,      \* class of each task
  Interval,  \* Interval() of each task
  MEGA,      \* Macros.h: microseconds of a second
  Garbage,   \* what the memory of an uninitialised next_run_ may hold
  IdMod,     \* 2^8: a transfer_id member is a uint8_t
  WireMod,   \* 2^5: a transfer ID has five bits in a CAN frame
  Leaps,     \* what the clock may be set by
  MaxLag,    \* the longest time between two samples of the clock
  MaxLeaps,  \* bound: how often the clock is set
  MaxTime    \* bound: last value of the clock

Tasks == 1..NumTasks

ASSUME SchedulerAssumption ==
  /\ NumTasks \in Nat \ {0}
  /\ Kind \in [Tasks -> {"heartbeat", "byte_array", "latency"}]
  /\ MEGA \in Nat \ {0}
  /\ Interval \in [Tasks -> Nat \ {0}]
  /\ \A t \in Tasks : Kind[t] = "heartbeat" => Interval[t] >= MEGA
  /\ \A t, u \in Tasks : Kind[t] = "latency" /\ Kind[u] = "latency" => t = u
  /\ Garbage \subseteq Nat
  /\ WireMod \in Nat \ {0}
  /\ IdMod \in Nat \ {0}
  /\ IdMod % WireMod = 0
  /\ Leaps \subseteq Int
  /\ MaxLag \in Nat \ {0}
  /\ MaxLeaps \in Nat
  /\ MaxTime \in Nat

VARIABLES
  clock,           \* high_resolution_clock
  monotonic_time,  \* the sample the loop works with
  pc,              \* "off" before StartNode, "loop", or "check" in CheckScheduler
  cur,             \* the task the range-for of CheckScheduler is at
  online,          \* online_, which no constructor sets
  next_run,        \* next_run_ of each task, which no constructor sets
  transfer_id,     \* the transfer-ID counter of each task's message
  latency,         \* latency_: when the request of each transfer ID was sent
  leaps,           \* history: how often the clock has been set
  last             \* history: the last publication of each task

vars == <<clock, monotonic_time, pc, cur, online, next_run, transfer_id, latency, leaps, last>>

Never == [time |-> -1, deadline |-> -1, id |-> -1]

Init ==
  /\ clock = 0
  /\ monotonic_time = 0
  /\ pc = "off"
  /\ cur = 1
  /\ online \in BOOLEAN
  /\ next_run \in [Tasks -> Garbage]
  /\ transfer_id = [t \in Tasks |-> 0]
  /\ latency \in [0..(WireMod - 1) -> Garbage]
  /\ leaps = 0
  /\ last = [t \in Tasks |-> Never]

-----------------------------------------------------------------------------
(* Metadata(): PMessageByteArray counts before it copies the counter, the  *)
(* others afterwards.  canardTxPush keeps five bits.                       *)
MetadataId(t) ==
  IF Kind[t] = "byte_array" THEN (transfer_id[t] + 1) % IdMod ELSE transfer_id[t]

WireId(t) == MetadataId(t) % WireMod

(* the deadline Execute gives to Publish *)
TxDeadline(t, time) ==
  IF Kind[t] = "heartbeat" THEN time + MEGA ELSE time + Interval[t] - 1

(* fault: the slot is that of the next request *)
StampNextSlot(t) ==
  latency' = IF Kind[t] = "latency"
             THEN [latency EXCEPT ![(WireId(t) + 1) % WireMod] = clock] ELSE latency

(* TLatencyMeasurement notes the time, by the clock and not by the sample *)
Stamp(t) ==
  latency' = IF Kind[t] = "latency" THEN [latency EXCEPT ![WireId(t)] = clock] ELSE latency

(* fault: Metadata() and SerializedMessage() both count *)
ExecuteCountsTwice(t, time) ==
  /\ Stamp(t)
  /\ transfer_id' = [transfer_id EXCEPT ![t] = (@ + 2) % IdMod]
  /\ last' = [last EXCEPT ![t] =
                [time |-> time, deadline |-> TxDeadline(t, time), id |-> WireId(t)]]

(* Execute of the task, and the Publish it ends in *)
Execute(t, time) ==
  /\ Stamp(t)
  /\ transfer_id' = [transfer_id EXCEPT ![t] = (@ + 1) % IdMod]
  /\ last' = [last EXCEPT ![t] =
                [time |-> time, deadline |-> TxDeadline(t, time), id |-> WireId(t)]]

(* fault: missed runs are caught up with *)
UpdateNextRunCatchUp(t, time) == next_run' = [next_run EXCEPT ![t] = @ + Interval[t]]

(* fault: the interval is counted from the clock, not from the sample *)
UpdateNextRunByClock(t, time) == next_run' = [next_run EXCEPT ![t] = clock + Interval[t]]

UpdateNextRun(t, time) == next_run' = [next_run EXCEPT ![t] = time + Interval[t]]

-----------------------------------------------------------------------------
StartNode ==
  /\ pc = "off"
  /\ pc' = "loop"
  /\ online' = TRUE
  /\ monotonic_time' = clock
  /\ UNCHANGED <<clock, cur, next_run, transfer_id, latency, leaps, last>>

(* the loop samples the clock and calls CheckScheduler *)
CheckScheduler ==
  /\ pc = "loop"
  /\ pc' = "check"
  /\ cur' = 1
  /\ monotonic_time' = clock
  /\ UNCHANGED <<clock, online, next_run, transfer_id, latency, leaps, last>>

(* fault: a task is due only after its time *)
DueAfter(t) == online /\ monotonic_time > next_run[t]

Due(t) == online /\ monotonic_time >= next_run[t]

(* fault: the last task is never visited *)
NextTaskShort == IF cur + 1 < NumTasks THEN cur' = cur + 1 /\ pc' = pc
                                       ELSE cur' = 1 /\ pc' = "loop"

(* fault: the loop runs one task too far *)
NextTaskPast == IF cur <= NumTasks THEN cur' = cur + 1 /\ pc' = pc
                                   ELSE cur' = 1 /\ pc' = "loop"

NextTask == IF cur < NumTasks THEN cur' = cur + 1 /\ pc' = pc
                              ELSE cur' = 1 /\ pc' = "loop"

RunTask ==
  /\ pc = "check"
  /\ Due(cur)
  /\ UpdateNextRun(cur, monotonic_time)
  /\ Execute(cur, monotonic_time)
  /\ NextTask
  /\ UNCHANGED <<clock, monotonic_time, online, leaps>>

SkipTask ==
  /\ pc = "check"
  /\ ~Due(cur)
  /\ NextTask
  /\ UNCHANGED <<clock, monotonic_time, online, next_run, transfer_id, latency, leaps, last>>

(* time passes between and inside the calls; the loop keeps up with it *)
Tick ==
  /\ clock < MaxTime
  /\ pc # "off" => clock - monotonic_time < MaxLag
  /\ clock' = clock + 1
  /\ UNCHANGED <<monotonic_time, pc, cur, online, next_run, transfer_id, latency, leaps, last>>

(* the wall clock is set *)
Leap ==
  /\ leaps < MaxLeaps
  /\ \E d \in Leaps : /\ clock + d \in 0..MaxTime
                      /\ clock' = clock + d
  /\ leaps' = leaps + 1
  /\ UNCHANGED <<monotonic_time, pc, cur, online, next_run, transfer_id, latency, last>>

LoopStep == StartNode \/ CheckScheduler \/ RunTask \/ SkipTask

Next == LoopStep \/ Tick \/ Leap

Spec == Init /\ [][Next]_vars

(* The loop of main never blocks: it always takes its next step.           *)
FairSpec == Spec /\ WF_vars(LoopStep)

-----------------------------------------------------------------------------
TypeOK ==
  /\ clock \in Nat
  /\ monotonic_time \in Nat
  /\ pc \in {"off", "loop", "check"}
  /\ cur \in Tasks
  /\ online \in BOOLEAN
  /\ next_run \in [Tasks -> Nat]
  /\ transfer_id \in [Tasks -> 0..(IdMod - 1)]
  /\ latency \in [0..(WireMod - 1) -> Nat]
  /\ leaps \in Nat
  /\ last \in [Tasks -> [time : Nat, deadline : Int, id : 0..(WireMod - 1)] \cup {Never}]

Steady == leaps = 0

Visited(t) == pc = "check" => t < cur

(* What the timing of the tasks rests on.  Once a task has run, next_run_  *)
(* is its interval after the run, whatever the clock does; the sample of a *)
(* check is before the next_run_ of the tasks that it has visited.  On a   *)
(* steady clock the others are late by less than one turn of the loop.     *)
TimingInv ==
  /\ pc # "off" => online
  /\ Steady => /\ monotonic_time <= clock
               /\ pc # "off" => clock <= monotonic_time + MaxLag
  /\ \A t \in Tasks :
       last[t] # Never =>
         /\ pc # "off"
         /\ next_run[t] = last[t].time + Interval[t]
         /\ last[t].deadline = TxDeadline(t, last[t].time)
         /\ Visited(t) => monotonic_time < next_run[t]
         /\ Steady => monotonic_time < next_run[t] + MaxLag

Runs(t) == last'[t] # last[t]

(* A task that has run runs again no sooner than its interval, however     *)
(* long the loop stalled or the clock leaps; and on a steady clock later   *)
(* by less than one turn of the loop.                                      *)
Period ==
  [][\A t \in Tasks :
       Runs(t) /\ last[t] # Never =>
         /\ last'[t].time >= last[t].time + Interval[t]
         /\ Steady => last'[t].time < last[t].time + Interval[t] + MaxLag]_vars

(* When a task publishes, its previous publication has expired: of every   *)
(* task at most one transfer can still be sent.  The deadlines of the      *)
(* tasks and the test of HandleTxRxQueues (OpenCyphal.cpp:84) meet in one  *)
(* microsecond.  It speaks of that moment: a clock that is set back later  *)
(* may find the previous publication before its deadline once more.        *)
OneLivePublication ==
  [][\A t \in Tasks :
       Runs(t) /\ last[t] # Never => last[t].deadline <= last'[t].time]_vars

(* Receivers drop a transfer whose ID does not advance: successive         *)
(* publications of a task carry successive IDs modulo 32, also where the   *)
(* eight-bit counter wraps.                                                *)
SuccessiveIds ==
  [][\A t \in Tasks :
       Runs(t) /\ last[t] # Never => last'[t].id = (last[t].id + 1) % WireMod]_vars

(* The response to the last request finds the time of that request in      *)
(* latency_, if the clock is steady: the slot of its transfer ID holds a   *)
(* time between the sample the request was made with and now, off that     *)
(* sample by no more than a turn of the loop, whatever latency_ held       *)
(* before (LatencyMeasurementNode.h:41).                                   *)
StampOfLastRequest ==
  \A t \in Tasks :
    Steady /\ Kind[t] = "latency" /\ last[t] # Never =>
      latency[last[t].id] \in last[t].time..clock \cap 0..(last[t].time + MaxLag)

(* A check that comes to its end has left no task due at its sample, also  *)
(* when the clock leaps meanwhile: none is visited too early, and none     *)
(* stays due because another was run.                                      *)
CheckServesAll ==
  [][pc = "check" /\ pc' = "loop" =>
       \A t \in Tasks : monotonic_time < next_run'[t]]_vars

(* A task whose time has come is run.                                      *)
DueTaskRuns ==
  \A t \in Tasks : (pc # "off" /\ clock >= next_run[t]) ~> (monotonic_time < next_run[t])

-----------------------------------------------------------------------------
(* The task that measures latency; a node has one at most.                 *)
Requesters == {t \in Tasks : Kind[t] = "latency" /\ last[t] # Never}

NoTid == -1

LastTid == IF Requesters = {} THEN NoTid ELSE last[CHOOSE t \in Requesters : TRUE].id

(* The stamp is later than the sample it is made after by a turn of the    *)
(* loop at most: that much is lost of the interval.                        *)
Spacing ==
  IF \E t \in Tasks : Kind[t] = "latency" /\ Interval[t] > MaxLag
  THEN Interval[CHOOSE t \in Tasks : Kind[t] = "latency"] - MaxLag
  ELSE 0

Requests == INSTANCE Requests WITH TidMod <- WireMod, tid <- LastTid

(* As long as the clock is not set the requests of a node are as the       *)
(* exchange of requests and responses needs them                           *)
(* (LatencyMeasurementNode.cpp:38): their IDs follow one another and no    *)
(* two stamps are too close.                                               *)
SteadyStepsAreRequests == [][Steady' => Requests!Next]_(Requests!vars)

(* If it is never set, these are all the steps. *)
ImplementsRequests == Requests!Spec

-----------------------------------------------------------------------------
(* What the headers say                                                    *)

(* Node.h:65: a task that was scheduled is run at the next CheckScheduler. *)
ScheduledTaskRunsNextCheck ==
  [][\A t \in Tasks : SkipTask /\ cur = t => last[t] # Never]_vars

=============================================================================
