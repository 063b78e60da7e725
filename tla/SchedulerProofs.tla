-------------------------- MODULE SchedulerProofs ---------------------------
(***************************************************************************)
(* Proofs about Scheduler, for any number and mix of tasks, any intervals, *)
(* any contents of the uninitialised next_run_ and any lag of the loop.    *)
(* TimingInv is inductive together with TypeOK; Period and                 *)
(* OneLivePublication follow from it.  PassedInv says what a check has     *)
(* visited, IdInv ties the counters to the last IDs, StampOfLastRequest    *)
(* the stamps to the clock; the last three make the requests of a node     *)
(* those of Requests until its clock is set.  LinkInv ties them to the     *)
(* history of Latency: the node, its tasks and its loop are the requester  *)
(* that Latency takes it for.                                              *)
(***************************************************************************)
EXTENDS Measurement, TLAPS

(* the counters stay within their width *)
LEMMA Remainder ==
  ASSUME NEW a \in Nat, NEW b \in Nat \ {0}
  PROVE  a % b \in 0..(b - 1)
  OBVIOUS

(* a wire identifier has five bits *)
LEMMA WireIdType ==
  ASSUME TypeOK, NEW t \in Tasks
  PROVE  WireId(t) \in 0..(WireMod - 1)
<1>1. MetadataId(t) \in Nat
  <2>1. transfer_id[t] \in Nat /\ transfer_id[t] + 1 \in Nat
    BY SchedulerAssumption DEF TypeOK
  <2>2. (transfer_id[t] + 1) % IdMod \in 0..(IdMod - 1)
    BY <2>1, Remainder, SchedulerAssumption
  <2> QED
    BY <2>1, <2>2, SchedulerAssumption DEF MetadataId
<1> QED
  BY <1>1, Remainder, SchedulerAssumption DEF WireId

(* what a run of a task leaves behind, in one place for all later proofs *)
LEMMA RunTaskEffect ==
  ASSUME TypeOK, RunTask
  PROVE  /\ last' = [last EXCEPT ![cur] = [time |-> monotonic_time,
                       deadline |-> TxDeadline(cur, monotonic_time), id |-> WireId(cur)]]
         /\ next_run' = [next_run EXCEPT ![cur] = monotonic_time + Interval[cur]]
         /\ transfer_id' = [transfer_id EXCEPT ![cur] = (@ + 1) % IdMod]
         /\ latency' \in {latency, [latency EXCEPT ![WireId(cur)] = clock]}
         /\ UNCHANGED <<clock, monotonic_time, online, leaps>>
  BY DEF RunTask, Execute, UpdateNextRun, Stamp

(* the deadline of a publication is a time *)
LEMMA TxDeadlineType ==
  ASSUME NEW t \in Tasks, NEW time \in Nat
  PROVE  TxDeadline(t, time) \in Int
  BY SchedulerAssumption DEF TxDeadline

(* the cursor stays within schedule_ *)
LEMMA NextTaskType ==
  ASSUME cur \in Tasks, pc = "check", NextTask
  PROVE  cur' \in Tasks /\ pc' \in {"loop", "check"}
  BY SchedulerAssumption DEF NextTask, Tasks

-----------------------------------------------------------------------------
(* running a task preserves the types *)
LEMMA RunTaskTypeOK ==
  ASSUME TypeOK, RunTask
  PROVE  TypeOK'
<1> DEFINE record == [time |-> monotonic_time,
                      deadline |-> TxDeadline(cur, monotonic_time), id |-> WireId(cur)]
<1>1. cur \in Tasks /\ monotonic_time \in Nat /\ clock \in Nat
  BY DEF TypeOK
<1>2. cur' \in Tasks /\ pc' \in {"off", "loop", "check"}
  BY <1>1, NextTaskType DEF RunTask
<1>3. clock' \in Nat /\ monotonic_time' \in Nat /\ online' \in BOOLEAN /\ leaps' \in Nat
  BY RunTaskEffect DEF TypeOK
<1>4. next_run' \in [Tasks -> Nat]
  <2>1. monotonic_time + Interval[cur] \in Nat
    BY <1>1, SchedulerAssumption
  <2> QED
    BY <2>1, RunTaskEffect, SMTT(30) DEF TypeOK
<1>5. transfer_id' \in [Tasks -> 0..(IdMod - 1)]
  <2>1. (transfer_id[cur] + 1) % IdMod \in 0..(IdMod - 1)
    <3>1. transfer_id[cur] + 1 \in Nat
      BY <1>1, SchedulerAssumption DEF TypeOK
    <3> QED
      BY <3>1, Remainder, SchedulerAssumption
  <2> QED
    BY <2>1, RunTaskEffect DEF TypeOK
<1>6. latency' \in [0..(WireMod - 1) -> Nat]
  BY <1>1, RunTaskEffect, WireIdType DEF TypeOK
<1>7. last' \in [Tasks -> [time : Nat, deadline : Int, id : 0..(WireMod - 1)] \cup {Never}]
  <2>1. record \in [time : Nat, deadline : Int, id : 0..(WireMod - 1)]
    BY <1>1, TxDeadlineType, WireIdType
  <2>2. last' = [last EXCEPT ![cur] = record]
    BY RunTaskEffect
  <2> QED
    BY <2>1, <2>2 DEF TypeOK
<1> QED
  BY <1>2, <1>3, <1>4, <1>5, <1>6, <1>7 DEF TypeOK

(* every step preserves the types *)
LEMMA TypeStep ==
  ASSUME TypeOK, [Next]_vars
  PROVE  TypeOK'
<1>1. CASE StartNode
  BY <1>1 DEF StartNode, TypeOK
<1>2. CASE CheckScheduler
  <2>1. cur' \in Tasks
    BY <1>2, SchedulerAssumption DEF CheckScheduler, Tasks
  <2> QED
    BY <1>2, <2>1 DEF CheckScheduler, TypeOK
<1>3. CASE RunTask
  BY <1>3, RunTaskTypeOK
<1>4. CASE SkipTask
  <2>1. cur' \in Tasks /\ pc' \in {"loop", "check"}
    BY <1>4, NextTaskType DEF SkipTask, TypeOK
  <2> QED
    BY <1>4, <2>1 DEF SkipTask, TypeOK
<1>5. CASE Tick
  BY <1>5 DEF Tick, TypeOK
<1>6. CASE Leap
  <2>1. clock' \in Nat
    BY <1>6, SchedulerAssumption DEF Leap
  <2> QED
    BY <1>6, <2>1 DEF Leap, TypeOK
<1>7. CASE UNCHANGED vars
  BY <1>7 DEF vars, TypeOK
<1> QED
  BY <1>1, <1>2, <1>3, <1>4, <1>5, <1>6, <1>7 DEF Next, LoopStep

(* the values of the first state have their types *)
LEMMA TypeInit == Init => TypeOK
<1> SUFFICES ASSUME Init PROVE TypeOK
  OBVIOUS
<1>1. 1 \in Tasks /\ 0 \in 0..(IdMod - 1)
  BY SchedulerAssumption DEF Tasks
<1>2. next_run \in [Tasks -> Nat]
  BY SchedulerAssumption DEF Init
<1>3. latency \in [0..(WireMod - 1) -> Nat]
  BY SchedulerAssumption DEF Init
<1> QED
  BY <1>1, <1>2, <1>3 DEF Init, TypeOK

(* Type correctness: the counters keep to eight bits, the transfer IDs of  *)
(* Metadata() and the slots of latency_ to five, and CheckScheduler stays  *)
(* within schedule_ (Node.cpp:76-85).                                      *)
THEOREM SchedulerTypeCorrect == Spec => []TypeOK
<1> QED
  BY TypeInit, TypeStep, PTL DEF Spec

-----------------------------------------------------------------------------
(* a publication is never taken for none *)
LEMMA PublicationIsNotNever ==
  ASSUME NEW time \in Nat, NEW deadline, NEW id
  PROVE  [time |-> time, deadline |-> deadline, id |-> id] # Never
<1> SUFFICES ASSUME [time |-> time, deadline |-> deadline, id |-> id] = Never
             PROVE  FALSE
  OBVIOUS
<1>1. [time |-> time, deadline |-> deadline, id |-> id].time = Never.time
  OBVIOUS
<1> QED
  BY <1>1 DEF Never

(* running a task re-establishes the timing of that task, and the cursor   *)
(* moves past it *)
LEMMA RunTaskTiming ==
  ASSUME TypeOK, TimingInv, RunTask
  PROVE  TimingInv'
<1>1. /\ cur \in 1..NumTasks /\ NumTasks \in Nat
      /\ monotonic_time \in Nat /\ MaxLag \in Nat
      /\ pc = "check" /\ online
      /\ UNCHANGED <<clock, monotonic_time, online, leaps>>
  BY SchedulerAssumption DEF TypeOK, RunTask, Due, Tasks
<1>2. \/ cur < NumTasks /\ pc' = "check" /\ cur' = cur + 1
      \/ cur = NumTasks /\ pc' = "loop" /\ cur' = 1
  BY <1>1 DEF RunTask, NextTask
<1>3. ASSUME NEW t \in Tasks, last'[t] # Never
      PROVE  /\ next_run'[t] = last'[t].time + Interval[t]
             /\ last'[t].deadline = TxDeadline(t, last'[t].time)
             /\ (pc' = "check" => t < cur') => monotonic_time' < next_run'[t]
             /\ Steady' => monotonic_time' < next_run'[t] + MaxLag
  <2>1. t \in 1..NumTasks /\ Interval[t] \in Nat \ {0} /\ next_run[t] \in Nat
    BY SchedulerAssumption DEF Tasks, TypeOK
  <2>2. CASE t = cur
    <3>1. next_run'[t] = monotonic_time + Interval[t]
      BY <2>2, RunTaskEffect DEF TypeOK
    <3>2. /\ last'[t].time = monotonic_time
          /\ last'[t].deadline = TxDeadline(t, monotonic_time)
      BY <2>2, RunTaskEffect, SMTT(30) DEF TypeOK
    <3> QED
      BY <1>1, <1>2, <2>1, <2>2, <3>1, <3>2
  <2>3. CASE t # cur
    <3>1. next_run'[t] = next_run[t] /\ last'[t] = last[t]
      BY <2>3, RunTaskEffect DEF TypeOK
    <3>2. /\ next_run[t] = last[t].time + Interval[t]
          /\ last[t].deadline = TxDeadline(t, last[t].time)
          /\ t < cur => monotonic_time < next_run[t]
          /\ Steady => monotonic_time < next_run[t] + MaxLag
      BY <1>1, <1>3, <3>1 DEF TimingInv, Visited, Steady
    <3> QED
      BY <1>1, <1>2, <2>1, <2>3, <3>1, <3>2 DEF Steady
  <2> QED
    BY <2>2, <2>3
<1> QED
  BY <1>1, <1>2, <1>3 DEF TimingInv, Visited, Steady

(* passing over a task means that its time has not come *)
LEMMA SkipTaskTiming ==
  ASSUME TypeOK, TimingInv, SkipTask
  PROVE  TimingInv'
<1>1. /\ cur \in 1..NumTasks /\ NumTasks \in Nat
      /\ monotonic_time \in Nat /\ MaxLag \in Nat
      /\ pc = "check" /\ online
      /\ UNCHANGED <<clock, monotonic_time, online, next_run, leaps, last>>
  BY SchedulerAssumption DEF TypeOK, TimingInv, SkipTask, Tasks
<1>2. \/ cur < NumTasks /\ pc' = "check" /\ cur' = cur + 1
      \/ cur = NumTasks /\ pc' = "loop" /\ cur' = 1
  BY <1>1 DEF SkipTask, NextTask
<1>3. monotonic_time < next_run[cur]
  BY <1>1 DEF SkipTask, Due, TypeOK
<1>4. ASSUME NEW t \in Tasks, last[t] # Never
      PROVE  (pc' = "check" => t < cur') => monotonic_time < next_run[t]
  <2>1. t \in 1..NumTasks /\ next_run[t] \in Nat
    BY DEF Tasks, TypeOK
  <2>2. t < cur => monotonic_time < next_run[t]
    BY <1>1, <1>4 DEF TimingInv, Visited, Steady
  <2> QED
    BY <1>1, <1>2, <1>3, <2>1, <2>2
<1> QED
  BY <1>1, <1>2, <1>4 DEF TimingInv, Visited, Steady

(* every step preserves TimingInv *)
LEMMA TimingStep ==
  ASSUME TypeOK, TimingInv, [Next]_vars
  PROVE  TimingInv'
<1>1. CASE StartNode
  <2>1. /\ pc = "off" /\ pc' = "loop" /\ online' /\ monotonic_time' = clock
        /\ UNCHANGED <<clock, last, next_run, leaps>>
    BY <1>1 DEF StartNode
  <2>2. \A t \in Tasks : last'[t] = Never
    BY <2>1 DEF TimingInv
  <2> QED
    BY <2>1, <2>2, SchedulerAssumption DEF TimingInv, Steady, TypeOK
<1>2. CASE CheckScheduler
  <2>1. /\ pc = "loop" /\ pc' = "check" /\ cur' = 1 /\ monotonic_time' = clock
        /\ UNCHANGED <<clock, online, next_run, leaps, last>>
    BY <1>2 DEF CheckScheduler
  <2>2. clock \in Nat /\ monotonic_time \in Nat /\ MaxLag \in Nat
    BY SchedulerAssumption DEF TypeOK
  <2>3. ASSUME NEW t \in Tasks, last[t] # Never
        PROVE  (Steady => clock < next_run[t] + MaxLag) /\ ~(t < 1)
    <3>1. next_run[t] \in Nat /\ t \in 1..NumTasks /\ NumTasks \in Nat
      BY SchedulerAssumption DEF TypeOK, Tasks
    <3>2. /\ monotonic_time < next_run[t]
          /\ Steady => clock <= monotonic_time + MaxLag
      BY <2>1, <2>3 DEF TimingInv, Visited, Steady
    <3> QED
      BY <2>2, <3>1, <3>2
  <2> QED
    BY <2>1, <2>2, <2>3 DEF TimingInv, Visited, Steady
<1>3. CASE RunTask
  BY <1>3, RunTaskTiming
<1>4. CASE SkipTask
  BY <1>4, SkipTaskTiming
<1>5. CASE Tick
  BY <1>5, SchedulerAssumption DEF Tick, TimingInv, Visited, Steady, TypeOK
<1>6. CASE Leap
  <2>1. ~Steady' /\ UNCHANGED <<monotonic_time, pc, cur, online, next_run, last>>
    BY <1>6 DEF Leap, Steady, TypeOK
  <2> QED
    BY <2>1 DEF TimingInv, Visited, Steady
<1>7. CASE UNCHANGED vars
  BY <1>7 DEF vars, TimingInv, Visited, Steady
<1> QED
  BY <1>1, <1>2, <1>3, <1>4, <1>5, <1>6, <1>7 DEF Next, LoopStep

(* TimingInv holds before anything has run *)
LEMMA TimingInit == Init => TimingInv
  BY SchedulerAssumption DEF Init, TimingInv, Tasks

(* Once a task has run, next_run_ is its interval after that run, and the  *)
(* samples of the clock up to its next visit lie before it or, on a steady *)
(* clock, beyond it by less than one turn of the loop (Task.cpp:13-15,     *)
(* Node.cpp:79-80).                                                        *)
THEOREM TimingHolds == Spec => []TimingInv
<1> QED
  BY TypeInit, TypeStep, TimingInit, TimingStep, PTL DEF Spec

-----------------------------------------------------------------------------
(* only RunTask publishes, and only for the task the cursor is at *)
LEMMA OnlyRunTaskRuns ==
  ASSUME TypeOK, [Next]_vars, NEW t \in Tasks, Runs(t)
  PROVE  RunTask /\ t = cur /\ last'[t].time = monotonic_time
<1>1. RunTask
  BY DEF Next, LoopStep, StartNode, CheckScheduler, SkipTask, Tick, Leap, Runs, vars
<1>2. t = cur
  BY <1>1, RunTaskEffect DEF Runs, TypeOK
<1>3. last'[t].time = monotonic_time
  BY <1>1, <1>2, RunTaskEffect DEF TypeOK
<1> QED
  BY <1>1, <1>2, <1>3

(* the two publications of a task that runs again *)
LEMMA TwoRuns ==
  ASSUME TypeOK, TimingInv, [Next]_vars,
         NEW t \in Tasks, Runs(t), last[t] # Never
  PROVE  /\ last[t].time \in Nat /\ last'[t].time \in Nat
         /\ last'[t].time >= last[t].time + Interval[t]
         /\ Steady => last'[t].time < last[t].time + Interval[t] + MaxLag
         /\ last[t].deadline = TxDeadline(t, last[t].time)
<1>1. RunTask /\ t = cur /\ last'[t].time = monotonic_time
  BY OnlyRunTaskRuns
<1>2. monotonic_time >= next_run[t] /\ pc = "check"
  BY <1>1 DEF RunTask, Due
<1>3. t \in 1..NumTasks /\ NumTasks \in Nat
  BY SchedulerAssumption DEF Tasks
<1>4. /\ next_run[t] = last[t].time + Interval[t]
      /\ last[t].deadline = TxDeadline(t, last[t].time)
      /\ Steady => monotonic_time < next_run[t] + MaxLag
  BY <1>1, <1>2, <1>3 DEF TimingInv
<1>5. last[t].time \in Nat /\ monotonic_time \in Nat
  BY DEF TypeOK
<1> QED
  BY <1>1, <1>2, <1>4, <1>5

(* A task runs again no sooner than its interval after its last run, even  *)
(* if the clock leaps, and on a steady clock less than one turn of the     *)
(* loop later (Node.cpp:79-81).                                            *)
THEOREM PeriodHolds == Spec => Period
<1>1. TypeOK /\ TimingInv /\ [Next]_vars =>
        [\A t \in Tasks :
           Runs(t) /\ last[t] # Never =>
             /\ last'[t].time >= last[t].time + Interval[t]
             /\ Steady => last'[t].time < last[t].time + Interval[t] + MaxLag]_vars
  BY TwoRuns
<1> QED
  BY <1>1, SchedulerTypeCorrect, TimingHolds, PTL DEF Spec, Period

(* The publication a task makes finds the one before it expired: a task    *)
(* has at most one transfer in the queues that can still be sent           *)
(* (THeartbeat.cpp:14, TByteArray.cpp:24 against OpenCyphal.cpp:84).       *)
THEOREM OneLivePublicationHolds == Spec => OneLivePublication
<1>1. ASSUME TypeOK, TimingInv, [Next]_vars,
             NEW t \in Tasks, Runs(t), last[t] # Never
      PROVE  last[t].deadline <= last'[t].time
  <2>1. Interval[t] \in Nat /\ MEGA \in Nat
    BY SchedulerAssumption
  <2>2. TxDeadline(t, last[t].time) <= last[t].time + Interval[t]
    <3>1. last[t].time \in Nat
      BY <1>1, TwoRuns
    <3> QED
      BY <2>1, <3>1, SchedulerAssumption DEF TxDeadline
  <2>3. TxDeadline(t, last[t].time) \in Int
    BY <1>1, TwoRuns, TxDeadlineType
  <2> QED
    BY <1>1, <2>1, <2>2, <2>3, TwoRuns
<1>2. TypeOK /\ TimingInv /\ [Next]_vars =>
        [\A t \in Tasks :
           Runs(t) /\ last[t] # Never => last[t].deadline <= last'[t].time]_vars
  BY <1>1
<1> QED
  BY <1>2, SchedulerTypeCorrect, TimingHolds, PTL DEF Spec, OneLivePublication

-----------------------------------------------------------------------------
(* the quotient and the remainder of a division *)
LEMMA Division ==
  ASSUME NEW a \in Nat, NEW m \in Nat \ {0}
  PROVE  /\ a \div m \in Int
         /\ a % m \in 0..(m - 1)
         /\ a % m = a - m * (a \div m)
<1>1. a \div m \in Int /\ a % m \in 0..(m - 1)
  OBVIOUS
<1>2. a % m = a - m * (a \div m)
  OBVIOUS
<1> QED
  BY <1>1, <1>2

(* what determines a remainder *)
LEMMA RemainderUnique ==
  ASSUME NEW m \in Nat \ {0}, NEW q \in Int, NEW r \in 0..(m - 1)
  PROVE  (m * q + r) % m = r
  OBVIOUS

(* numbers of equal remainder have successors of equal remainder *)
LEMMA SuccessorRemainder ==
  ASSUME NEW a \in Nat, NEW b \in Nat, NEW m \in Nat \ {0},
         NEW r, r = a % m, NEW s, s = b % m, r = s
  PROVE  (a + 1) % m = (b + 1) % m
<1> DEFINE q == a \div m
           p == b \div m
<1>1. q \in Int /\ p \in Int /\ r \in 0..(m - 1) /\ r = a - m * q /\ r = b - m * p
  BY Division
<1> HIDE DEF q, p
<1>2. CASE r + 1 < m
  <2>1. /\ a + 1 = m * q + (r + 1)
        /\ b + 1 = m * p + (r + 1)
        /\ r + 1 \in 0..(m - 1)
    BY <1>1, <1>2
  <2>2. (a + 1) % m = r + 1
    BY <1>1, <2>1, RemainderUnique
  <2>3. (b + 1) % m = r + 1
    BY <1>1, <2>1, RemainderUnique
  <2> QED
    BY <2>2, <2>3
<1>3. CASE r + 1 = m
  <2>1. a + 1 = m * q + m /\ b + 1 = m * p + m
    BY <1>1, <1>3
  <2>2. a + 1 = m * (q + 1) + 0 /\ b + 1 = m * (p + 1) + 0
    BY <1>1, <2>1
  <2>3. (a + 1) % m = 0
    BY <1>1, <2>2, RemainderUnique
  <2>4. (b + 1) % m = 0
    BY <1>1, <2>2, RemainderUnique
  <2> QED
    BY <2>3, <2>4
<1> QED
  BY <1>1, <1>2, <1>3

(* a wrap at a multiple of m is not seen modulo m *)
LEMMA RemainderOfRemainder ==
  ASSUME NEW a \in Nat, NEW k \in Nat \ {0}, NEW m \in Nat \ {0}, k % m = 0
  PROVE  (a % k) % m = a % m
<1> DEFINE q == a \div k
           p == k \div m
           b == a % k
           u == b \div m
           r == b % m
           w == p * q + u
<1>1. q \in Int /\ p \in Int /\ b \in 0..(k - 1) /\ b = a - k * q /\ 0 = k - m * p
  BY Division
<1>2. u \in Int /\ r \in 0..(m - 1) /\ r = b - m * u
  BY <1>1, Division
<1> HIDE DEF q, p, b, u, r
<1>3. a = m * (p * q + u) + r
  BY <1>1, <1>2
<1>4. w \in Int /\ a = m * w + r
  BY <1>1, <1>2, <1>3
<1> HIDE DEF w
<1>5. (m * w + r) % m = r
  BY <1>2, <1>4, RemainderUnique
<1>6. a % m = r
  BY <1>4, <1>5
<1> QED
  BY <1>6 DEF r, b

(* counting in IdMod and sending modulo WireMod is counting modulo WireMod *)
LEMMA CountOnWire ==
  ASSUME NEW c \in Nat
  PROVE  ((c + 1) % IdMod) % WireMod = ((c % WireMod) + 1) % WireMod
<1> DEFINE r == c % WireMod
<1>1. IdMod \in Nat \ {0} /\ WireMod \in Nat \ {0} /\ IdMod % WireMod = 0 /\ c + 1 \in Nat
  BY SchedulerAssumption
<1>2. ((c + 1) % IdMod) % WireMod = (c + 1) % WireMod
  BY <1>1, RemainderOfRemainder
<1>3. r \in 0..(WireMod - 1) /\ r \in Nat
  BY <1>1, Division
<1>4. r % WireMod = r
  <2>1. (WireMod * 0 + r) % WireMod = r
    BY <1>1, <1>3, RemainderUnique
  <2>2. WireMod * 0 + r = r
    BY <1>1, <1>3
  <2> QED
    BY <2>1, <2>2
<1>5. (c + 1) % WireMod = (r + 1) % WireMod
  <2>1. r = c % WireMod
    OBVIOUS
  <2> HIDE DEF r
  <2>2. c \in Nat /\ r \in Nat /\ WireMod \in Nat \ {0} /\ r = c % WireMod /\ r % WireMod = r
    BY <1>1, <1>3, <1>4, <2>1
  <2> QED
    BY ONLY <2>2, SuccessorRemainder
<1> QED
  BY <1>2, <1>5

-----------------------------------------------------------------------------
(* The next publication of a task will carry the ID after the last one:    *)
(* whether Metadata() counts before or after it copies, and also where the *)
(* eight-bit counter wraps.                                                *)
IdInv ==
  \A t \in Tasks : last[t] # Never => WireId(t) = (last[t].id + 1) % WireMod

(* counting moves the wire identifier on by one *)
LEMMA WireIdCounts ==
  ASSUME TypeOK, NEW t \in Tasks, transfer_id'[t] = (transfer_id[t] + 1) % IdMod
  PROVE  WireId(t)' = (WireId(t) + 1) % WireMod
<1> DEFINE c == transfer_id[t]
           d == (c + 1) % IdMod
<1>1. c \in Nat /\ c + 1 \in Nat /\ IdMod \in Nat \ {0}
  BY SchedulerAssumption, SMTT(30) DEF TypeOK
<1>2. d \in Nat
  <2>1. (c + 1) % IdMod \in 0..(IdMod - 1)
    BY <1>1, Remainder
  <2> QED
    BY <1>1, <2>1
<1>3. CASE Kind[t] = "byte_array"
  <2>1. WireId(t) = d % WireMod /\ WireId(t)' = ((d + 1) % IdMod) % WireMod
    BY <1>3 DEF WireId, MetadataId
  <2> HIDE DEF d
  <2>2. ((d + 1) % IdMod) % WireMod = ((d % WireMod) + 1) % WireMod
    BY <1>2, CountOnWire
  <2> QED
    BY <2>1, <2>2
<1>4. CASE Kind[t] # "byte_array"
  <2>1. WireId(t) = c % WireMod /\ WireId(t)' = ((c + 1) % IdMod) % WireMod
    BY <1>4 DEF WireId, MetadataId
  <2> HIDE DEF c
  <2>2. ((c + 1) % IdMod) % WireMod = ((c % WireMod) + 1) % WireMod
    BY <1>1, CountOnWire
  <2> QED
    BY <2>1, <2>2
<1> QED
  BY <1>3, <1>4

(* what a step does to the counter and the last publication of a task *)
LEMMA CounterStep ==
  ASSUME TypeOK, [Next]_vars, NEW t \in Tasks
  PROVE  \/ transfer_id'[t] = transfer_id[t] /\ last'[t] = last[t]
         \/ /\ transfer_id'[t] = (transfer_id[t] + 1) % IdMod
            /\ last'[t].id = WireId(t)
<1>1. CASE RunTask
  <2>1. CASE t = cur
    BY <1>1, <2>1, RunTaskEffect, SMTT(30) DEF TypeOK
  <2>2. CASE t # cur
    BY <1>1, <2>2, RunTaskEffect DEF TypeOK
  <2> QED
    BY <2>1, <2>2
<1>2. CASE ~RunTask
  BY <1>2 DEF Next, LoopStep, StartNode, CheckScheduler, SkipTask, Tick, Leap, vars
<1> QED
  BY <1>1, <1>2

(* every step preserves IdInv *)
LEMMA IdStep ==
  ASSUME TypeOK, IdInv, [Next]_vars
  PROVE  IdInv'
<1> SUFFICES ASSUME NEW t \in Tasks, last'[t] # Never
             PROVE  WireId(t)' = (last'[t].id + 1) % WireMod
  BY DEF IdInv
<1>1. CASE transfer_id'[t] = transfer_id[t] /\ last'[t] = last[t]
  BY <1>1 DEF IdInv, WireId, MetadataId
<1>2. CASE /\ transfer_id'[t] = (transfer_id[t] + 1) % IdMod
           /\ last'[t].id = WireId(t)
  BY <1>2, WireIdCounts
<1> QED
  BY <1>1, <1>2, CounterStep

(* Successive publications of a task carry successive transfer IDs modulo  *)
(* 32 (IPMessage.h, PMessageByteArray.cpp:23-27): receivers never take one *)
(* for a repetition of the one before.                                     *)
THEOREM SuccessiveIdsHold == Spec => SuccessiveIds
<1>1. Init => IdInv
  BY DEF Init, IdInv
<1>2. Spec => []IdInv
  BY <1>1, IdStep, SchedulerTypeCorrect, PTL DEF Spec
<1>3. TypeOK /\ IdInv /\ [Next]_vars =>
        [\A t \in Tasks :
           Runs(t) /\ last[t] # Never => last'[t].id = (last[t].id + 1) % WireMod]_vars
  <2> SUFFICES ASSUME TypeOK, IdInv, [Next]_vars,
                      NEW t \in Tasks, Runs(t), last[t] # Never
               PROVE  last'[t].id = (last[t].id + 1) % WireMod
    OBVIOUS
  <2> QED
    BY CounterStep DEF IdInv, Runs
<1> QED
  BY <1>2, <1>3, SchedulerTypeCorrect, PTL DEF Spec, SuccessiveIds

-----------------------------------------------------------------------------
(* the step of a task that stamps, or does not *)
LEMMA RunTaskStamps ==
  ASSUME TypeOK, TimingInv, StampOfLastRequest, RunTask
  PROVE  StampOfLastRequest'
<1>1. cur \in Tasks /\ clock \in Nat /\ monotonic_time \in Nat
  BY DEF TypeOK
<1>2. WireId(cur) \in 0..(WireMod - 1)
  BY <1>1, WireIdType DEF TypeOK
<1>3. UNCHANGED <<clock, leaps>> /\ Steady' = Steady
  BY RunTaskEffect DEF Steady
<1>4. CASE Kind[cur] = "latency"
  <2>1. latency' = [latency EXCEPT ![WireId(cur)] = clock]
    BY <1>4 DEF RunTask, Execute, Stamp
  <2>2. latency'[WireId(cur)] = clock
    BY <1>2, <2>1 DEF TypeOK
  <2>3. ASSUME NEW t \in Tasks, Steady, Kind[t] = "latency"
        PROVE  latency'[last'[t].id] \in
                 last'[t].time..clock \cap 0..(last'[t].time + MaxLag)
    <3>1. t = cur
      BY <1>1, <1>4, <2>3, SchedulerAssumption
    <3>2. last'[t].id = WireId(cur) /\ last'[t].time = monotonic_time
      BY <3>1, RunTaskEffect DEF TypeOK
    <3>3. monotonic_time <= clock /\ clock <= monotonic_time + MaxLag
      BY <2>3 DEF TimingInv, RunTask
    <3> QED
      BY <1>1, <2>2, <3>2, <3>3, SchedulerAssumption
  <2> QED
    BY <1>3, <2>3 DEF StampOfLastRequest
<1>5. CASE Kind[cur] # "latency"
  <2>1. latency' = latency
    BY <1>5 DEF RunTask, Execute, Stamp
  <2>2. \A t \in Tasks : Kind[t] = "latency" => last'[t] = last[t]
    BY <1>5, RunTaskEffect DEF TypeOK
  <2> QED
    BY <1>3, <2>1, <2>2 DEF StampOfLastRequest
<1> QED
  BY <1>4, <1>5

(* every step preserves the invariant of the stamps *)
LEMMA StampStep ==
  ASSUME TypeOK, TimingInv, StampOfLastRequest, [Next]_vars
  PROVE  StampOfLastRequest'
<1>1. CASE RunTask
  BY <1>1, RunTaskStamps
<1>2. CASE Leap
  <2>1. ~Steady'
    BY <1>2 DEF Leap, Steady, TypeOK
  <2> QED
    BY <2>1 DEF StampOfLastRequest
<1>3. CASE Tick
  <2>1. clock' = clock + 1 /\ clock \in Nat /\ UNCHANGED <<latency, leaps, last>>
    BY <1>3 DEF Tick, TypeOK
  <2>2. ASSUME NEW t \in Tasks, last[t] # Never,
               latency[last[t].id] \in last[t].time..clock \cap 0..(last[t].time + MaxLag)
        PROVE  latency[last[t].id] \in last[t].time..(clock + 1) \cap 0..(last[t].time + MaxLag)
    <3>1. last[t].time \in Int
      BY <2>2 DEF TypeOK, Never
    <3> QED
      BY <2>1, <2>2, <3>1
  <2> QED
    BY <2>1, <2>2 DEF StampOfLastRequest, Steady
<1>4. CASE UNCHANGED <<clock, latency, leaps, last>>
  BY <1>4 DEF StampOfLastRequest, Steady
<1> QED
  BY <1>1, <1>2, <1>3, <1>4
  DEF Next, LoopStep, StartNode, CheckScheduler, SkipTask, vars

(* On a steady clock the slot of the last request's transfer ID holds the  *)
(* time of that request, not older than its sample and not later than it   *)
(* by more than a turn of the loop, whatever the other tasks do and        *)
(* wherever the IDs wrap (TLatencyMeasurement.cpp:19-21).                  *)
THEOREM StampHolds == Spec => []StampOfLastRequest
<1>1. Init => StampOfLastRequest
  BY SchedulerAssumption DEF Init, StampOfLastRequest
<1> QED
  BY <1>1, StampStep, SchedulerTypeCorrect, TimingHolds, PTL DEF Spec

-----------------------------------------------------------------------------
(* The tasks that a check has passed are not due at its sample.            *)
PassedInv == pc = "check" => \A t \in Tasks : t < cur => monotonic_time < next_run[t]

(* the cursor moves over a task that is not due any more *)
LEMMA PassTask ==
  ASSUME TypeOK, PassedInv, pc = "check", NextTask, UNCHANGED monotonic_time,
         \A t \in Tasks : t # cur => next_run'[t] = next_run[t],
         monotonic_time < next_run'[cur]
  PROVE  /\ PassedInv'
         /\ pc' = "loop" => \A t \in Tasks : monotonic_time < next_run'[t]
<1>1. cur \in 1..NumTasks /\ NumTasks \in Nat
  BY SchedulerAssumption DEF TypeOK, Tasks
<1>2. \/ cur < NumTasks /\ pc' = "check" /\ cur' = cur + 1
      \/ cur = NumTasks /\ pc' = "loop"
  BY <1>1 DEF NextTask
<1>3. ASSUME NEW t \in Tasks, t <= cur
      PROVE  monotonic_time < next_run'[t]
  <2>1. CASE t = cur
    BY <2>1
  <2>2. CASE t # cur
    <3>1. t < cur
      BY <1>1, <1>3, <2>2 DEF Tasks
    <3> QED
      BY <2>2, <3>1 DEF PassedInv
  <2> QED
    BY <2>1, <2>2
<1>4. CASE cur < NumTasks /\ pc' = "check" /\ cur' = cur + 1
  <2>1. \A t \in Tasks : t < cur + 1 => t <= cur
    BY <1>1 DEF Tasks
  <2> QED
    BY <1>3, <1>4, <2>1 DEF PassedInv
<1>5. CASE cur = NumTasks /\ pc' = "loop"
  <2>1. \A t \in Tasks : t <= cur
    BY <1>1, <1>5 DEF Tasks
  <2> QED
    BY <1>3, <1>5, <2>1 DEF PassedInv
<1> QED
  BY <1>2, <1>4, <1>5

(* every step preserves PassedInv, and one that ends a check leaves none due *)
LEMMA PassedStep ==
  ASSUME TypeOK, TimingInv, PassedInv, [Next]_vars
  PROVE  /\ PassedInv'
         /\ pc = "check" /\ pc' = "loop" => \A t \in Tasks : monotonic_time < next_run'[t]
<1>1. CASE RunTask
  <2>1. pc = "check" /\ NextTask /\ UNCHANGED monotonic_time
    BY <1>1 DEF RunTask
  <2>2. next_run' = [next_run EXCEPT ![cur] = monotonic_time + Interval[cur]]
    BY <1>1, RunTaskEffect
  <2>3. cur \in Tasks /\ Interval[cur] \in Nat \ {0} /\ monotonic_time \in Nat
    BY SchedulerAssumption DEF TypeOK
  <2>4. next_run'[cur] = monotonic_time + Interval[cur]
        /\ \A t \in Tasks : t # cur => next_run'[t] = next_run[t]
    BY <2>2, <2>3 DEF TypeOK
  <2>5. monotonic_time < next_run'[cur]
    BY <2>3, <2>4
  <2> QED
    BY <2>1, <2>4, <2>5, PassTask
<1>2. CASE SkipTask
  <2>1. pc = "check" /\ NextTask /\ UNCHANGED <<monotonic_time, next_run>> /\ ~Due(cur)
    BY <1>2 DEF SkipTask
  <2>2. next_run[cur] \in Nat /\ monotonic_time \in Nat /\ online
    BY <2>1 DEF TypeOK, TimingInv
  <2>3. monotonic_time < next_run[cur]
    BY <2>1, <2>2 DEF Due
  <2> QED
    BY <2>1, <2>3, PassTask
<1>3. CASE StartNode
  BY <1>3 DEF StartNode, PassedInv
<1>4. CASE CheckScheduler
  BY <1>4 DEF CheckScheduler, PassedInv, Tasks
<1>5. CASE UNCHANGED <<pc, cur, monotonic_time, next_run>>
  BY <1>5 DEF PassedInv
<1> QED
  BY <1>1, <1>2, <1>3, <1>4, <1>5 DEF Next, LoopStep, Tick, Leap, vars

(* Every check of the scheduler, up to the last task and whatever the      *)
(* clock does meanwhile, leaves no task due at its sample                  *)
(* (Node.cpp:76-85).                                                       *)
THEOREM CheckServesAllHolds == Spec => CheckServesAll
<1>1. Init => PassedInv
  BY DEF Init, PassedInv
<1>2. Spec => []PassedInv
  BY <1>1, PassedStep, SchedulerTypeCorrect, TimingHolds, PTL DEF Spec
<1>3. TypeOK /\ TimingInv /\ PassedInv /\ [Next]_vars =>
        [pc = "check" /\ pc' = "loop" =>
           \A t \in Tasks : monotonic_time < next_run'[t]]_vars
  BY PassedStep
<1> QED
  BY <1>2, <1>3, SchedulerTypeCorrect, TimingHolds, PTL DEF Spec, CheckServesAll

-----------------------------------------------------------------------------
(* the task that measures latency has run *)
Requested(t) == t \in Tasks /\ Kind[t] = "latency" /\ last[t] # Never

(* the last request of a node is that of its only latency task *)
LEMMA RequesterIsOne ==
  ASSUME NEW t, Requested(t)
  PROVE  Requesters = {t} /\ LastTid = last[t].id
<1>1. Requesters = {t}
  BY SchedulerAssumption DEF Requested, Requesters
<1>2. (CHOOSE u \in Requesters : TRUE) = t
  BY <1>1
<1> QED
  BY <1>1, <1>2 DEF LastTid

(* without one there is none *)
LEMMA NoRequester ==
  ASSUME ~\E t \in Tasks : Requested(t)
  PROVE  LastTid = NoTid
  BY DEF Requested, Requesters, LastTid

(* the spacing of a node that has a latency task *)
LEMMA SpacingOf ==
  ASSUME NEW t \in Tasks, Kind[t] = "latency"
  PROVE  /\ Spacing \in Nat
         /\ Spacing = 0 \/ Spacing = Interval[t] - MaxLag
<1>1. (CHOOSE u \in Tasks : Kind[u] = "latency") = t
  BY SchedulerAssumption
<1>2. Interval[t] \in Nat /\ MaxLag \in Nat
  BY SchedulerAssumption
<1>3. CASE \E u \in Tasks : Kind[u] = "latency" /\ Interval[u] > MaxLag
  <2>1. Interval[t] > MaxLag
    BY <1>3, SchedulerAssumption
  <2>2. Spacing = Interval[t] - MaxLag
    BY <1>1, <1>3 DEF Spacing
  <2> QED
    BY <1>2, <2>1, <2>2
<1>4. CASE ~\E u \in Tasks : Kind[u] = "latency" /\ Interval[u] > MaxLag
  BY <1>4 DEF Spacing
<1> QED
  BY <1>3, <1>4

(* a task that is no latency task makes no request *)
LEMMA OtherTaskRequestsNothing ==
  ASSUME TypeOK, RunTask, Kind[cur] # "latency"
  PROVE  UNCHANGED <<clock, latency, LastTid>>
<1>1. latency' = latency /\ clock' = clock
  BY DEF RunTask, Execute, Stamp
<1>2. \A t \in Tasks : Kind[t] = "latency" => last'[t] = last[t]
  BY RunTaskEffect DEF TypeOK
<1>3. Requesters' = Requesters
  BY <1>2 DEF Requesters
<1>4. LastTid' = LastTid
  <2>1. CASE Requesters = {}
    BY <1>3, <2>1 DEF LastTid
  <2>2. CASE Requesters # {}
    <3>1. PICK t : t \in Requesters
      BY <2>2
    <3>2. Requested(t)
      BY <3>1 DEF Requesters, Requested
    <3>3. Requested(t)'
      BY <1>2, <3>2 DEF Requested
    <3>4. LastTid = last[t].id
      BY <3>2, RequesterIsOne
    <3>5. Requesters = {t}
      BY <3>2, RequesterIsOne
    <3>6. (CHOOSE u \in Requesters' : TRUE) = t
      BY <1>3, <3>5
    <3>7. LastTid' = last'[t].id
      BY <1>3, <3>5, <3>6 DEF LastTid
    <3> QED
      BY <1>2, <3>2, <3>4, <3>7 DEF Requested
  <2> QED
    BY <2>1, <2>2
<1> QED
  BY <1>1, <1>4

(* a run of the latency task is a request: its ID follows the last one, and *)
(* the clock is on by the spacing *)
LEMMA LatencyTaskRequests ==
  ASSUME TypeOK, TimingInv, StampOfLastRequest, IdInv, Steady, RunTask,
         Kind[cur] = "latency"
  PROVE  Requests!Request
<1> DEFINE id == WireId(cur)
<1>1. /\ cur \in Tasks /\ clock \in Nat /\ monotonic_time \in Nat
      /\ pc = "check" /\ UNCHANGED clock /\ MaxLag \in Nat
      /\ latency' = [latency EXCEPT ![id] = clock]
  BY SchedulerAssumption DEF TypeOK, RunTask, Execute, Stamp
<1>2. id \in Requests!Tids
  BY <1>1, WireIdType DEF Requests!Tids
<1>3. LastTid' = id
  <2>1. last'[cur] = [time |-> monotonic_time,
                      deadline |-> TxDeadline(cur, monotonic_time), id |-> id]
    BY <1>1, RunTaskEffect DEF TypeOK
  <2>2. last'[cur] # Never /\ last'[cur].id = id
    BY <1>1, <2>1, PublicationIsNotNever
  <2>3. Requesters' = {cur}
    BY <1>1, <2>2, SchedulerAssumption DEF Requesters
  <2>4. (CHOOSE u \in Requesters' : TRUE) = cur
    BY <2>3
  <2> QED
    BY <2>2, <2>3, <2>4 DEF LastTid
<1>4. ASSUME LastTid # NoTid
      PROVE  /\ clock >= latency[LastTid] + Spacing
             /\ id = (LastTid + 1) % WireMod
  <2>1. PICK t \in Tasks : Requested(t)
    BY <1>4, NoRequester
  <2>2. t = cur
    BY <1>1, <2>1, SchedulerAssumption DEF Requested
  <2>3. LastTid = last[cur].id /\ last[cur] # Never
    BY <2>1, <2>2, RequesterIsOne DEF Requested
  <2>4. id = (LastTid + 1) % WireMod
    BY <1>1, <2>3 DEF IdInv
  <2>5. /\ latency[LastTid] \in last[cur].time..clock
        /\ latency[LastTid] \in 0..(last[cur].time + MaxLag)
    BY <1>1, <2>3 DEF StampOfLastRequest
  <2>6. /\ monotonic_time >= next_run[cur] /\ monotonic_time <= clock
        /\ next_run[cur] = last[cur].time + Interval[cur]
    BY <1>1, <2>3 DEF RunTask, Due, TimingInv
  <2>7. Spacing \in Nat /\ (Spacing = 0 \/ Spacing = Interval[cur] - MaxLag)
    BY <1>1, SpacingOf
  <2>8. last[cur].time \in Nat /\ Interval[cur] \in Nat
    BY <1>1, <2>3, SchedulerAssumption DEF TypeOK
  <2>9. clock >= latency[LastTid] + Spacing
    <3> DEFINE stamp == latency[LastTid]
               time == last[cur].time
    <3>1. stamp \in time..clock /\ stamp \in 0..(time + MaxLag) /\ time \in Nat
      BY <2>5, <2>8
    <3>2. clock >= time + Interval[cur]
      BY <1>1, <2>6, <2>8
    <3> HIDE DEF stamp, time
    <3>3. clock >= stamp + Spacing
      BY <1>1, <2>7, <2>8, <3>1, <3>2
    <3> QED
      BY <3>3 DEF stamp
  <2> QED
    BY <2>4, <2>9
<1> HIDE DEF id
<1> QED
  BY <1>1, <1>2, <1>3, <1>4, Zenon DEF Requests!Request

(* As long as the clock was not set, every step is one of Requests, or     *)
(* none.                                                                   *)
LEMMA RequestsStep ==
  ASSUME TypeOK, TimingInv, StampOfLastRequest, IdInv, Steady', [Next]_vars
  PROVE  [Requests!Next]_(Requests!vars)
<1>0. Steady
  BY DEF Steady, TypeOK, Next, LoopStep, StartNode, CheckScheduler, RunTask, SkipTask,
         Tick, Leap, vars
<1>1. CASE RunTask
  <2>1. CASE Kind[cur] = "latency"
    BY <1>0, <1>1, <2>1, LatencyTaskRequests DEF Requests!Next
  <2>2. CASE Kind[cur] # "latency"
    BY <1>1, <2>2, OtherTaskRequestsNothing DEF Requests!vars
  <2> QED
    BY <2>1, <2>2
<1>2. CASE Tick
  <2>1. UNCHANGED <<latency, LastTid>> /\ clock' = clock + 1
    BY <1>2 DEF Tick, LastTid, Requesters
  <2> QED
    BY <2>1 DEF Requests!Next, Requests!Tick
<1>3. CASE Leap
  BY <1>3 DEF Leap, Steady, TypeOK
<1>4. CASE UNCHANGED <<clock, latency, last>>
  BY <1>4 DEF Requests!vars, LastTid, Requesters
<1> QED
  BY <1>1, <1>2, <1>3, <1>4
  DEF Next, LoopStep, StartNode, CheckScheduler, SkipTask, vars

(* IDs stay in order, as an invariant of the specification.                *)
LEMMA IdsHold == Spec => []IdInv
<1>1. Init => IdInv
  BY DEF Init, IdInv
<1> QED
  BY <1>1, IdStep, SchedulerTypeCorrect, PTL DEF Spec

(* As long as its clock is not set, a node makes its requests as the       *)
(* exchange of Latency takes them: their transfer IDs follow one another,  *)
(* every stamp is in the slot of its ID, and two are apart by the interval *)
(* less a turn of the loop (Node.cpp:79-81, TLatencyMeasurement.cpp:19-21).*)
THEOREM SteadyStepsHold == Spec => SteadyStepsAreRequests
<1>1. TypeOK /\ TimingInv /\ StampOfLastRequest /\ IdInv /\ [Next]_vars
        => [Steady' => Requests!Next]_(Requests!vars)
  BY RequestsStep
<1> QED
  BY <1>1, IdsHold, SchedulerTypeCorrect, TimingHolds, StampHolds, PTL
  DEF Spec, SteadyStepsAreRequests

(* a clock that may not be set stays steady *)
LEMMA SteadyHolds == MaxLeaps = 0 => (Spec => []Steady)
<1> SUFFICES ASSUME MaxLeaps = 0 PROVE Spec => []Steady
  OBVIOUS
<1>1. Init => Steady
  BY DEF Init, Steady
<1>2. Steady /\ [Next]_vars => Steady'
  BY DEF Steady, Next, LoopStep, StartNode, CheckScheduler, RunTask, SkipTask,
         Tick, Leap, vars
<1> QED
  BY <1>1, <1>2, PTL DEF Spec

(* If its clock is never set, the scheduler implements Requests.           *)
THEOREM SchedulerImplementsRequests == MaxLeaps = 0 => (Spec => ImplementsRequests)
<1> SUFFICES ASSUME MaxLeaps = 0 PROVE Spec => ImplementsRequests
  OBVIOUS
<1>1. Spec => []Steady
  BY SteadyHolds
<1>2. Spec => SteadyStepsAreRequests
  BY SteadyStepsHold
<1>3. Init => Requests!Init
  <2> SUFFICES ASSUME Init PROVE Requests!Init
    OBVIOUS
  <2>1. LastTid = NoTid
    BY NoRequester DEF Init, Requested
  <2>2. latency \in [0..(WireMod - 1) -> Nat]
    BY SchedulerAssumption DEF Init
  <2> QED
    BY <2>1, <2>2 DEF Init, Requests!Init, Requests!Tids
<1> QED
  BY <1>1, <1>2, <1>3, PTL
  DEF Spec, SteadyStepsAreRequests, ImplementsRequests, Requests!Spec

-----------------------------------------------------------------------------
(* Requests and responses under the loop.                                  *)

(* How the counters and stamps of the scheduler keep to the history of the *)
(* requests, and the requester's session to the samples of its loop.       *)
LinkInv ==
  /\ sent \in Seq(Nat)
  /\ heard.ts \in Int /\ heard.ts <= monotonic_time
  /\ \A t \in Tasks : Kind[t] = "latency" =>
       /\ WireId(t) = Exchanging!Tid(Len(sent) + 1)
       /\ last[t] = Never <=> sent = <<>>
       /\ sent # <<>> => latency[last[t].id] = sent[Len(sent)]

(* every step of the composition is one of the scheduler, or none *)
LEMMA MeasuringStepSchedules ==
  ASSUME [MeasuringNext]_MeasuringVars
  PROVE  [Next]_vars
  BY DEF MeasuringNext, MeasuringVars, RunAnyTask, RunNoTask, HandleResponse, Elsewhere,
         Next, LoopStep

(* the remainder after that of n is that of n + 1 *)
LEMMA NextRemainder ==
  ASSUME NEW n \in Nat, NEW m \in Nat \ {0}, NEW r, r = n % m
  PROVE  (r + 1) % m = (n + 1) % m
<1>1. r \in 0..(m - 1) /\ r \in Nat
  BY Remainder
<1>2. r = r % m
  <2>1. (m * 0 + r) % m = r
    BY <1>1, RemainderUnique, SMTT(30)
  <2>2. m * 0 + r = r
    BY <1>1
  <2> QED
    BY <2>1, <2>2
<1> QED
  BY <1>1, <1>2, SuccessorRemainder

(* the transfer ID after that of request n is that of request n + 1 *)
LEMMA TidOfNext ==
  ASSUME NEW n \in Nat \ {0}
  PROVE  (Exchanging!Tid(n) + 1) % WireMod = Exchanging!Tid(n + 1)
<1>1. WireMod \in Nat \ {0}
  BY SchedulerAssumption
<1>2. n - 1 \in Nat /\ (n - 1) + 1 = (n + 1) - 1
  OBVIOUS
<1>3. (((n - 1) % WireMod) + 1) % WireMod = ((n - 1) + 1) % WireMod
  BY <1>1, <1>2, NextRemainder
<1> QED
  BY <1>2, <1>3 DEF Exchanging!Tid

(* what the requests are tied by when there has been none *)
LEMMA LinkInit == MeasuringInit => LinkInv
<1> SUFFICES ASSUME MeasuringInit PROVE LinkInv
  OBVIOUS
<1>1. /\ sent = <<>> /\ heard = Exchanging!NoSession /\ monotonic_time = 0
      /\ \A t \in Tasks : last[t] = Never /\ transfer_id[t] = 0
  BY DEF MeasuringInit, Init, Exchanging!Init
<1>2. heard.ts = -1
  BY <1>1 DEF Exchanging!NoSession
<1>3. ASSUME NEW t \in Tasks, Kind[t] = "latency"
      PROVE  WireId(t) = Exchanging!Tid(Len(sent) + 1)
  <2>1. WireId(t) = 0 % WireMod
    BY <1>1, <1>3 DEF WireId, MetadataId
  <2>2. Len(sent) + 1 = 1 /\ 1 - 1 = 0
    BY <1>1
  <2> QED
    BY <2>1, <2>2 DEF Exchanging!Tid
<1> QED
  BY <1>1, <1>2, <1>3 DEF LinkInv

(* A run of the latency task is a request of Latency.                      *)
LEMMA LatencyTaskIsRequest ==
  ASSUME TypeOK, TimingInv, StampOfLastRequest, IdInv, Steady, LinkInv,
         RunTask, Kind[cur] = "latency", PublishRequest
  PROVE  Exchanging!Request
<1> DEFINE n == Len(sent) + 1
<1>1. /\ cur \in Tasks /\ sent \in Seq(Nat)
      /\ WireId(cur) = Exchanging!Tid(n)
      /\ latency' = [latency EXCEPT ![WireId(cur)] = clock]
      /\ clock' = clock
  BY DEF TypeOK, LinkInv, RunTask, Execute, Stamp
<1>2. ASSUME sent # <<>>
      PROVE  clock >= sent[Len(sent)] + Spacing
  <2>1. /\ Requested(cur)
        /\ latency[last[cur].id] = sent[Len(sent)]
    BY <1>1, <1>2 DEF LinkInv, Requested
  <2>2. LastTid = last[cur].id /\ last[cur].id \in Nat
    BY <2>1, RequesterIsOne DEF Requested, TypeOK
  <2>3. Requests!Request /\ LastTid # NoTid
    BY <2>2, LatencyTaskRequests DEF NoTid
  <2>4. clock >= latency[LastTid] + Spacing
    BY <2>3 DEF Requests!Request
  <2> QED
    BY <2>1, <2>2, <2>4
<1>3. /\ sent' = Append(sent, clock)
      /\ requests' = [i \in Exchanging!Ifaces |->
                        Append(requests[i], [req |-> n, at |-> clock])]
      /\ UNCHANGED <<responses, served, heard, accepted, measured>>
  BY DEF PublishRequest
<1> QED
  BY <1>1, <1>2, <1>3 DEF Exchanging!Request

(* A request moves the counter, the stamp and the history on together.     *)
LEMMA RequestLinks ==
  ASSUME TypeOK, LinkInv, RunTask, Kind[cur] = "latency", PublishRequest
  PROVE  LinkInv'
<1> DEFINE n == Len(sent) + 1
<1>1. /\ cur \in Tasks /\ sent \in Seq(Nat) /\ clock \in Nat /\ n \in Nat \ {0}
      /\ heard' = heard /\ monotonic_time' = monotonic_time
      /\ sent' = Append(sent, clock)
  BY DEF TypeOK, LinkInv, RunTask, PublishRequest
<1>2. /\ sent' \in Seq(Nat) /\ Len(sent') = n /\ sent'[n] = clock /\ sent' # <<>>
  BY <1>1
<1>3. ASSUME NEW t \in Tasks, Kind[t] = "latency"
      PROVE  /\ WireId(t)' = Exchanging!Tid(n + 1)
             /\ last'[t] # Never
             /\ latency'[last'[t].id] = sent'[n]
  <2>1. t = cur
    BY <1>1, <1>3, SchedulerAssumption
  <2>2. /\ last'[t].id = WireId(t) /\ last'[t] # Never
        /\ transfer_id'[t] = (transfer_id[t] + 1) % IdMod
        /\ latency' = [latency EXCEPT ![WireId(t)] = clock]
    <3>1. last'[cur] = [time |-> monotonic_time,
                        deadline |-> TxDeadline(cur, monotonic_time), id |-> WireId(cur)]
      BY <1>1, RunTaskEffect DEF TypeOK
    <3>2. last'[cur] # Never /\ last'[cur].id = WireId(cur)
      BY <3>1, PublicationIsNotNever DEF TypeOK
    <3>3. transfer_id'[cur] = (transfer_id[cur] + 1) % IdMod
      BY <1>1, RunTaskEffect DEF TypeOK
    <3>4. latency' = [latency EXCEPT ![WireId(cur)] = clock]
      BY DEF RunTask, Execute, Stamp
    <3> QED
      BY <2>1, <3>2, <3>3, <3>4
  <2>3. WireId(t) \in 0..(WireMod - 1) /\ WireId(t) = Exchanging!Tid(n)
    BY <1>3, WireIdType DEF LinkInv
  <2>4. latency'[WireId(t)] = clock
    BY <2>2, <2>3 DEF TypeOK
  <2>5. WireId(t)' = (WireId(t) + 1) % WireMod
    BY <2>2, WireIdCounts
  <2>6. (Exchanging!Tid(n) + 1) % WireMod = Exchanging!Tid(n + 1)
    BY <1>1, TidOfNext
  <2> QED
    BY <1>2, <2>2, <2>3, <2>4, <2>5, <2>6
<1> HIDE DEF n
<1> QED
  BY <1>1, <1>2, <1>3 DEF LinkInv

(* A run of another task touches none of it.                               *)
LEMMA OtherTaskLinks ==
  ASSUME TypeOK, LinkInv, RunTask, Kind[cur] # "latency", UNCHANGED exchange
  PROVE  LinkInv' /\ UNCHANGED Exchanging!vars
<1>1. latency' = latency /\ clock' = clock /\ monotonic_time' = monotonic_time
  BY DEF RunTask, Execute, Stamp
<1>2. UNCHANGED <<sent, requests, responses, served, heard, accepted, measured>>
  BY DEF exchange
<1>3. ASSUME NEW t \in Tasks, Kind[t] = "latency"
      PROVE  last'[t] = last[t] /\ transfer_id'[t] = transfer_id[t]
  BY <1>3, RunTaskEffect DEF TypeOK
<1>4. LinkInv'
  BY <1>1, <1>2, <1>3 DEF LinkInv, WireId, MetadataId
<1> QED
  BY <1>1, <1>2, <1>4 DEF Exchanging!vars

(* Outside the checks the samples only grow.                               *)
LEMMA RunNoTaskLinks ==
  ASSUME TypeOK, TimingInv, Steady, Steady', LinkInv, RunNoTask
  PROVE  LinkInv' /\ [Exchanging!Next]_(Exchanging!vars)
<1>1. UNCHANGED <<sent, requests, responses, served, heard, accepted, measured>>
  BY DEF RunNoTask, exchange
<1>2. /\ UNCHANGED <<transfer_id, latency, last>>
      /\ monotonic_time' \in {monotonic_time, clock}
      /\ clock' = clock \/ Tick
  BY DEF RunNoTask, StartNode, CheckScheduler, SkipTask, Tick, Leap, Steady, TypeOK
<1>3. monotonic_time <= monotonic_time'
  BY <1>2 DEF TimingInv, TypeOK
<1>4. monotonic_time \in Nat /\ monotonic_time' \in Nat
  BY <1>2 DEF TypeOK
<1>5. LinkInv'
  BY <1>1, <1>2, <1>3, <1>4 DEF LinkInv, WireId, MetadataId
<1>6. CASE clock' = clock
  BY <1>1, <1>2, <1>5, <1>6 DEF Exchanging!vars
<1>7. CASE Tick
  <2>1. Exchanging!Tick
    BY <1>1, <1>2, <1>7 DEF Tick, Exchanging!Tick
  <2> QED
    BY <1>5, <2>1 DEF Exchanging!Next
<1> QED
  BY <1>2, <1>6, <1>7

(* The requester reads with the sample of a turn that is not over.         *)
LEMMA HandleResponseLinks ==
  ASSUME TypeOK, TimingInv, Steady, LinkInv, HandleResponse
  PROVE  LinkInv' /\ Exchanging!Next
<1>1. PICK i \in Exchanging!Ifaces : Exchanging!ReadResponse(i, monotonic_time)
  BY DEF HandleResponse
<1>2. pc = "loop" /\ UNCHANGED vars
  BY DEF HandleResponse
<1>3. monotonic_time \in Nat /\ clock \in Nat
  BY DEF TypeOK
<1>4. monotonic_time <= clock /\ clock <= monotonic_time + MaxLag
  BY <1>2 DEF TimingInv
<1>5. monotonic_time \in Exchanging!Samples(heard)
  BY <1>3, <1>4 DEF Exchanging!Samples, LinkInv
<1>6. Exchanging!Next
  BY <1>1, <1>5 DEF Exchanging!Next, Exchanging!ReceiveResponse
<1>7. sent' = sent /\ (heard' = heard \/ heard'.ts = monotonic_time)
  BY <1>1 DEF Exchanging!ReadResponse, Exchanging!SessionAfter
<1>8. UNCHANGED <<transfer_id, latency, last, monotonic_time>>
  BY <1>2 DEF vars
<1>9. LinkInv'
  BY <1>3, <1>7, <1>8 DEF LinkInv, WireId, MetadataId
<1> QED
  BY <1>6, <1>9

(* What happens elsewhere does not concern the requester.                  *)
LEMMA ElsewhereLinks ==
  ASSUME LinkInv, Elsewhere
  PROVE  LinkInv' /\ Exchanging!Next
<1>1. Exchanging!Next
  BY DEF Elsewhere, Exchanging!Next
<1>2. UNCHANGED <<sent, heard>>
  BY DEF Elsewhere, Exchanging!ReceiveRequest, Exchanging!ReadRequest,
         Exchanging!LoseRequest, Exchanging!LoseResponse
<1>3. UNCHANGED <<transfer_id, latency, last, monotonic_time>>
  BY DEF Elsewhere, vars
<1>4. LinkInv'
  BY <1>2, <1>3 DEF LinkInv, WireId, MetadataId
<1> QED
  BY <1>1, <1>4

(* Every step of the composition on a steady clock is one of Latency, or   *)
(* none.                                                                   *)
LEMMA MeasuringStep ==
  ASSUME TypeOK, TimingInv, StampOfLastRequest, IdInv, Steady, Steady', LinkInv,
         [MeasuringNext]_MeasuringVars
  PROVE  LinkInv' /\ [Exchanging!Next]_(Exchanging!vars)
<1>1. CASE RunAnyTask
  <2>1. CASE Kind[cur] = "latency"
    <3>1. RunTask /\ PublishRequest
      BY <1>1, <2>1 DEF RunAnyTask
    <3>2. Exchanging!Request
      BY <2>1, <3>1, LatencyTaskIsRequest
    <3> QED
      BY <2>1, <3>1, <3>2, RequestLinks DEF Exchanging!Next
  <2>2. CASE Kind[cur] # "latency"
    BY <1>1, <2>2, OtherTaskLinks DEF RunAnyTask
  <2> QED
    BY <2>1, <2>2
<1>2. CASE RunNoTask
  BY <1>2, RunNoTaskLinks
<1>3. CASE HandleResponse
  BY <1>3, HandleResponseLinks
<1>4. CASE Elsewhere
  BY <1>4, ElsewhereLinks
<1>5. CASE UNCHANGED MeasuringVars
  <2>1. UNCHANGED <<sent, requests, responses, served, heard, accepted, measured,
                    clock, monotonic_time, transfer_id, latency, last>>
    BY <1>5 DEF MeasuringVars, exchange, vars
  <2> QED
    BY <2>1 DEF LinkInv, WireId, MetadataId, Exchanging!vars
<1> QED
  BY <1>1, <1>2, <1>3, <1>4, <1>5 DEF MeasuringNext

(* The scheduler's latency task and the loop that reads the responses make *)
(* the requester of Latency, for any other tasks beside it: without the    *)
(* spacing, the transfer IDs, the slots of latency_ or the age of a sample *)
(* being asked for, they are what Latency assumes (Node.cpp:76-85,         *)
(* TLatencyMeasurement.cpp:19-21, App/main.cpp:61-73).                     *)
THEOREM SchedulerMeasures == MaxLeaps = 0 => (MeasuringSpec => ImplementsLatency)
<1> SUFFICES ASSUME MaxLeaps = 0 PROVE MeasuringSpec => ImplementsLatency
  OBVIOUS
<1>1. MeasuringSpec => Spec
  <2>1. MeasuringInit => Init
    BY DEF MeasuringInit
  <2>2. [MeasuringNext]_MeasuringVars => [Next]_vars
    BY MeasuringStepSchedules
  <2> QED
    BY <2>1, <2>2, PTL DEF MeasuringSpec, Spec
<1>2. Spec => []Steady
  BY SteadyHolds
<1>3. MeasuringInit => LinkInv /\ Exchanging!Init
  BY LinkInit DEF MeasuringInit
<1>4. /\ TypeOK /\ TimingInv /\ StampOfLastRequest /\ IdInv /\ Steady /\ Steady' /\ LinkInv
      /\ [MeasuringNext]_MeasuringVars
      => LinkInv' /\ [Exchanging!Next]_(Exchanging!vars)
  BY MeasuringStep
<1> QED
  BY <1>1, <1>2, <1>3, <1>4, SchedulerTypeCorrect, TimingHolds, StampHolds, IdsHold, PTL
  DEF MeasuringSpec, ImplementsLatency, Exchanging!Spec

=============================================================================
