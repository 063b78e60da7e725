# Cyphal onboard sounding rockets: TLA+ models and proofs

This directory holds the formal models of the Cyphal node in `src/src`: a C++
wrapper around libcanard with redundant CAN interfaces, a polling scheduler and
a set of periodic tasks. Source locations below are relative to `src/src`.

## 1. The system

### Components, their state, their operations

| component | state | operations | modelled in |
|---|---|---|---|
| Redundant transport, `OpenCyphal/OpenCyphal.cpp` | per interface a libcanard transmission queue and a transceiver; one O1Heap arena; the receive sessions of libcanard; the list of transfer receivers | `Publish` on all or one interface, `HandleTxRxQueues`, `Subscribe`, `addTransceiver`, `Health` | `OpenCyphal`, `CanardTx`; set-up in `NodeSetup` |
| Node, `OpenCyphal/Node.cpp` | `schedule_`, `online_`, `started_at_`, subscribers | `CheckScheduler`, `Schedule`, `StartNode`, `Publish`, answer to GetInfo requests | `Scheduler`; the answer in `OpenCyphal`; construction in `NodeSetup` |
| Tasks, `THeartbeat`, `TByteArray`, `TLatencyMeasurement` | `next_run_`, interval, the data to send | `Execute`, `UpdateNextRun` | `Scheduler`, `ByteArray` |
| Published messages, `PMessageHeartbeat`, `PMessageByteArray`, `PUavcanPrimitiveEmpty` | an eight-bit transfer-ID counter, a serialization buffer | `Metadata`, `SerializeMessage`, `SerializedMessage` | `Scheduler`, `ByteArray` |
| Latency measurement, `TestUtilities/LatencyMeasurementNode.cpp` | `latency_[32]` | stamp of a request, answer to a request, measurement at a response | `Latency`, `CanardRx`; stamps also in `Scheduler`, answers in `OpenCyphal` |
| Clock, `OpenCyphal/Clock.cpp` | the clock of the platform | `GetMonotonicMicroseconds` | `Scheduler` |
| SocketCAN adapter, `SocketCAN/` | a non-blocking socket | `socketcanPush`, `socketcanPop`, open, filter | outcomes in `OpenCyphal`, open and close in `NodeSetup` |
| Node factory, `TestUtilities/NodeFactory.cpp` | used node IDs, interface names | `CreateNode`, `CreateLatency...Node` | `NodeSetup` |
| Generated DSDL code, `Lib/cyphal_public_regulated_data_types_compiled/` | none; 249 types, each a C struct | `X_serialize_`, `X_deserialize_`, `X_initialize_` | `Dsdl` and the schemas, `Codec` |
| Subscriptions, `SMessage` and its classes | kind, port, extent, timeout, never changed | none | which node has which in `NodeSetup` |
| Main loop, `App/main.cpp` (and the tests' `HandleLoop`) | the sample `monotonic_time` | sample, `CheckScheduler` of each node, `HandleTxRxQueues` of each node | `Scheduler`, `OpenCyphal` |

### How they interact

Everything runs in one thread. The main loop samples the clock once per turn and
hands the sample to every node. `CheckScheduler` runs the tasks that are due; a
task publishes a message, and `OpenCyphal::Publish` pushes the transfer on the
queue of every interface, taking one arena block per frame. `HandleTxRxQueues`
visits the interfaces in order: it sends from the queue until the queue is empty
or the socket is full, then receives at most one frame. A complete transfer is
handed, from inside that call, to the receivers, whose answer goes to the queue
of the same interface. Three things happen concurrently with the thread: the
kernel's socket buffers fill and drain, other nodes send, and the clock runs.

### What is hard about it

* `HandleTxRxQueues` has four ways out of the middle of its loop. What an exit
  leaves undone on this and on the later interfaces is decided by sockets, in an
  order no test fixes.
* A frame can be refused and tried again in later calls while deadlines pass and
  more urgent transfers arrive.
* All interfaces and all receive sessions compete for one small arena.
* Deadlines, periods, transfer-ID timeouts and stamps are compared across turns
  of a loop that may lag; several comparisons meet in the same microsecond.
* Transfer IDs live in eight bits in the messages and in five on the bus, come
  round after 32 transfers, and are all that tells a duplicate from a new
  transfer, or one stamp in `latency_` from another.
* A payload may be padded, cut short, of another version or another type, and
  members lie at any bit offset.
* A node is put together in several calls, each of which may fail.

The `hazards` of `PROJECT.json` list these at their lines.

### What makes each component correct

* Transport: memory is paired; no frame is sent twice, late, or without its
  predecessor; a full or failing socket loses nothing; every call returns; every
  interface is served; a sized arena never runs out.
* Node and tasks: a due task runs; its period is kept; publications of a task do
  not overlap; IDs advance by one modulo 32.
* Latency: a response is measured against the request it answers.
* Generated code: what is written is read back, in other versions too; whatever
  is read can be written; buffers suffice.
* Setup: node IDs differ, every slot has one transceiver and one queue, every
  socket one owner.

## 2. The modules

| module | contents |
|---|---|
| `CanardTx` | libcanard's transmission queue as the code uses it: items, their order, the capacity, the deadline test |
| `OpenCyphal` | one instance: `Publish`, `HandleTxRxQueues`, the arena; the clock, the sockets and the peers as environment |
| `Outbox` | the abstract specification of the sending side: each interface holds the live frames it accepted and sends the most urgent one, each once |
| `MCOpenCyphal` | instances of `OpenCyphal` for TLC |
| `OpenCyphalProofs` | types and memory, the order of frames, at-most-once, and the refinement of `Outbox`, proved |
| `ArenaProofs` | a sized arena never runs out, a queue with frames has one head, every call winds down, proved |
| `Scheduler` | the loop, `CheckScheduler`, the tasks, the transfer IDs, the stamps |
| `Requests` | the abstract specification of the requests of a latency measurement: successive IDs, stamps in their slots, spaced; `Scheduler` implements it |
| `MCScheduler`, `SchedulerProofs` | instances and proofs for `Scheduler`, its refinement of `Requests`, and that of `Latency` by `Measurement` |
| `CanardRx` | libcanard's receive session as the code uses it: which transfer is new |
| `Latency` | requests, answers and measurements of two latency nodes over redundant interfaces |
| `Exchange` | the abstract specification of a measurement: answered once, measured once, in order, against its own request |
| `LatencyProofs` | order, own requests, bridged gaps, and the refinement of `Exchange`, proved |
| `Measurement` | `Scheduler` and `Latency` composed: the requester is a node with its tasks, its loop and its samples |
| `Scalars` | the primitives of `nunavut/support`, and a number or an array of numbers on the wire |
| `ScalarsProofs` | numbers, arrays of numbers and their counts survive the wire, proved |
| `TypeShape`, `TypeWriter`, `TypeReader` | what nunavut's `X_serialize_` and `X_deserialize_` do, for a schema of `X`, given what those of the types in `X` do |
| `TypeSchema`, `TypeObjects` | which schemas there are and how large their objects may be; the objects of `X`, what a publisher may fill in, and when one object is another |
| `TypeProofs` | what is proved of the functions of `X`, given the same of the types in `X` |
| `Dsdl` | the descriptions, and the functions of all types: six levels of types in types, each an instance of the four modules above on the one below |
| `DsdlUavcan`, `DsdlSi`, `DsdlReg` | the schemas of the 115, 66 and 68 types under `uavcan` (without `uavcan.si`), `uavcan.si` and `reg` |
| `Codec`, `MCCodec` | an object on its way from a publisher to a subscriber, over all types |
| `CodecProofs` | the six levels as instances of `TypeProofs`; types, round trip, relaying, buffers and the empty payload, for every object and payload, proved |
| `NodeSetup`, `MCNodeSetup` | factory, constructors, `addTransceiver`, sockets, destruction |
| `NodeSetupProofs` | slots, sockets and blocks stay paired, proved |
| `ByteArray`, `MCByteArray` | the task `TByteArray` and its message, on top of the schema of `Integer8` |

Definitions named "fault" are seeded errors. No specification uses them: each is
put in the place of the definition it precedes to see that a property notices.

### OpenCyphal and the code

`pc` and `ifidx` are the position in the call: `publish` in the loop of
`Publish`, `tx` in the send loop of interface `ifidx`, `rx` before its receive.
One step is one call of libcanard or of the transceiver, because the sockets
change between any two of them; the clock sample changes only between calls.
`PublishOnInterface` is one pass of the loop at `OpenCyphal.cpp:46`;
`TxExpire`, `TxSend`, `TxFull`, `TxFail` are the four things that can happen to
the peeked frame at lines 81-96; `RxNothing`, `RxFail`, `RxIgnored`,
`RxNoMemory`, `RxUnanswered`, `RxAnswered` the results of lines 105-130. `drv`
is what a write to a socket would do now, and `rxbuf` what its buffer holds: the
kernel loops back what is sent (`CAN_RAW_RECV_OWN_MSGS`), and `socketcanPop`
turns such a frame, or one that is no extended data frame, into the result 0.
A poll or a read may fail while a write would: `RxFail` and the other receive
steps are both possible while `drv` is `failing`.

Abstractions. A CAN identifier is kept as its rank in the priority order. The
arena is counted in blocks of equal size, so fragmentation is left out. The
subscriptions modelled are those with an empty payload (GetInfo and latency
requests), for which libcanard allocates a session and no payload buffer. A
`transfer` in `FrameKinds` is the frame that completes such a transfer; whether
it is new or a duplicate is chosen by the peer (`ignored` covers duplicates).
The time is that of `Clock.h`, which never goes back.

### Scheduler and the code

`RunTask` is one pass of the loop of `CheckScheduler` for a task that is due:
`UpdateNextRun`, `Execute` and the transfer-ID arithmetic of the message, in one
step because nothing of it is visible to anybody else. The clock runs between
passes. `next_run` starts with arbitrary contents (`Garbage`) because no
constructor initialises it; `online` likewise, until `StartNode`. `Leap` is the
setting of the wall clock, which `Clock.cpp:15` reads where
`high_resolution_clock` is `system_clock`; `Leaps = {}` is a steady clock.
`latency` starts with `Garbage`, too. `last` and `leaps` are history variables.

### Latency and the code

`Request` is `TLatencyMeasurement::Execute`, and takes for granted when the
scheduler runs it: two stamps are `Spacing` apart, the interval of the task less
the turn of the loop by which a stamp can be later than its sample, and request
`n` has the `n`-th transfer ID. A frame waits in `requests` or `responses`
of its interface from its publication until the other node reads it: queue, bus
and socket buffer are one line, first in, first out, since all requests have
one priority. `Lose...` is a frame that expires, is refused, or is lost.
`InTime` bounds how old a frame can be when it is read; for a deadline passed
in the queue that is `OpenCyphal.cpp:84`, for a socket buffer it depends on how
often the loop serves it, and the properties name what they need of `MaxDelay`.
`ReadRequest` and `ReadResponse` are `canardRxAccept` followed by
`ProcessReceivedTransfer`. The frame is stamped with the sample of the turn in
which it is read (`OpenCyphal.cpp:117`), which `ReceiveRequest` and
`ReceiveResponse` choose: up to `MaxLag` before the clock, and not before the
sample the session was last fed with (`Samples`). A measurement takes the clock,
not the sample (`LatencyMeasurementNode.cpp:38`). `CanardRx!Accepts` is the
session logic of libcanard version 3: it is tied to an interface until the
transfer-ID timeout.

### Measurement and the code

What `Latency` takes for granted of the requester, `Measurement` takes from
`Scheduler`. `RunAnyTask` is `RunTask`, and a run of the latency task puts its
frame on every line (`PublishRequest`): when that happens, with which transfer ID
and into which slot of `latency_` is the scheduler's affair alone, and the other
tasks run in between. `HandleResponse` reads with the scheduler's
`monotonic_time`, after the check of the same turn. The responder and the lines
are those of `Latency` (`Elsewhere`). That all this is a behaviour of `Latency`
is `ImplementsLatency`: a requester that asked too early, counted otherwise than
it stamps, or read with a sample that is too old or goes back would not be one.

### Dsdl and the generated code

A schema is a record: the members in their order, each a number of so many bits,
an array, a void, or another type, with the two size macros of the header. The
operators of `TypeWriter` and `TypeReader` are the statements nunavut generates
for each kind of member, on buffers that are sequences of bits: alignment, array
length prefix, delimiter header, union tag, saturation, half floats, zero
extension, and every error return. So the 249 pairs of functions are 249 schemas
and one codec; a schema stands for the bodies of its two functions. A generated
function calls those of the types it contains, which are constants of
`TypeWriter` and `TypeReader`; `Dsdl` gives them their values, level by level,
so that nothing is recursive. No type of the repository needs a seventh level:
`CodecAssumption`, which TLC evaluates, says that all are schemas of the sixth. The
primitives it comes down to (`nunavutGetBits`, the getters and setters, the half
floats, alignment, the length prefix) are in `Scalars`. Left out are the checks
for null pointers, and the order in which bits are copied.

In `Codec` a publisher initializes an object, fills it in, and serializes it into
a buffer of the size of the macro or one byte less; the transport carries a part
of it, or all of it, padded with zeros (as CAN FD does), and cuts it at the extent
of the subscription; a subscriber deserializes it, as the same or as another
version with the same major number. `CarryForeign` is a payload of another type.

### NodeSetup and the code

`Create` is the factory's construction of a node of the first interface, which
`CreateNodeOf`, `CreateNode` (with an ID drawn) and `CreateLatencyNode` share. The
latter then joins the other interfaces: `making` is the kind of node in the
making, `unjoined` the interfaces still to be joined, `JoinNext` one round of
that loop, and `CreateLatencyRequestNode`, `CreateLatencyResponseNode` what the
two callers do at the end. While a node is being made nothing else happens
(`Idle`). `Use` is what an application does with a node: `Attach`
(`addTransceiver`), `StartNode`, `Publish`, `Send`, `Destroy`.
`Opened` gives the lowest free descriptor, as the kernel does, or the negated
errno that `socketcanOpen` returns and the transceiver keeps. `Joined` goes on
after the move as the loop at `OpenCyphal.cpp:67-72` does. A push into a queue
that was never initialised is undefined and not followed: `Publish` is enabled
when every queue has been. `CreateNode` with an ID takes the first interface
only, so with `CAN_REDUNDANCY_FACTOR` above 1 its other slots stay empty until
the application adds transceivers. Since the macro defaults to 1, the test
`T104ChangeOfCommunicationInterfaceTest` needs a build that sets it to 3.

### ByteArray and the code

`SerializeMessage` copies what lies at the address of its parameter: the bytes of
a pointer, then of the stack (`Addresses`).

## 3. The runs

| run | asks | expected |
|---|---|---|
| `redundant` | two interfaces, transfers of two frames: types, memory pairing, refinement of `Outbox`; every step of a call brings it nearer to its end | pass |
| `single` | one interface, three priorities, with and without deadlines: at most once, in order; a sized arena never runs out | pass |
| `calls` | every call returns; interface 0 is drained, and a later interface that is visited again and again | pass |
| `stall` | every interface is drained, when all sockets accept | violated |
| `report` | the result of `Publish` speaks for all interfaces | violated |
| `scheduler` | timing, IDs and stamps, on a clock that is steady or set once; every check serves all tasks, a due task is run; until the clock is set, requests are those of `Requests` | pass |
| `first_run` | a scheduled task runs in the next check | violated |
| `latency` | transfers are taken once and in order, gaps are bridged, a response is measured against its own request; refinement of `Exchange` | pass |
| `codec` | round trip, short payloads, buffer sizes, versions, foreign payloads, relaying, for every type | pass |
| `setup` | slots, queues, sockets and blocks stay paired while nodes are made, used and destroyed | pass |
| `node_ids` | nodes with random IDs have different ones | violated |
| `byte_array` | what is published is the array | violated |

The violated runs state what a header or comment says; `findings` quotes them. More
divergences show without a run of their own:

* `TxFail` and `RxFail`: lines 91 and 113 of `OpenCyphal.cpp` negate a negated
  errno, so `HandleTxRxQueues` returns a positive number where
  `OpenCyphal.h:117` promises a negative one.
* `Clock.h:20` says "Monotonic time never changes rate or makes leaps", but
  `Clock.cpp:15` reads `high_resolution_clock`, in libstdc++ the wall clock;
  `Leap` is that, and `scheduler` shows what holds nevertheless.
* `THeartbeat.h:16` recommends `MEGA` as the interval of a heartbeat that has to
  come at least once per second; `Task.cpp:14` adds the interval to the sample
  of the run, so the period is the interval plus the lag of a turn (`Period`).
* `uavcan.file.Write.Request`: version 1.0 has a length prefix of one byte, 1.1
  one of two, under the same major number. `VersionsAgree` leaves the type out.

### Bounds

* `MaxTransfers` 2 or 3: one transfer to be delayed, one to overtake it, one to
  meet the queue full. A publication or answer beyond the bound is not pushed.
* `MaxFrames` 2: the smallest transfer that can be cut short. `TxCapacity` 2 to 4
  is at or below what the transfers need, so refusals occur; so do allocation
  failures, as `HeapBlocks` is less than what queues and sessions may ask for,
  except in `single`, where it is exactly that.
* `CAN_REDUNDANCY_FACTOR` 2: a first and a later interface. The loop treats all
  later interfaces alike. The proofs are for any number.
* `MaxTime`, `Lifetimes`: a deadline lies one or two samples ahead and can pass
  before, between or after the writes of a transfer. At `MaxTime` every
  transfer with a deadline has expired, so the last value stands for all later.
* `RxBufferLen` 1: the kernel drops what does not fit; longer buffers only delay.
* `Scheduler`: a second is four ticks; intervals of 4, 2 and 3 ticks do not
  divide each other; the counter has two bits and the wire ID one, so both wrap
  within `MaxTime` 11; `MaxLag` 2 is the shortest interval, so due times are
  missed. `MaxLeaps` 1: a leap by a second, either way, at any time.
* `Latency`: three transfer IDs and four requests (`Spacing` 2 within `MaxTime`
  7), so that they wrap; `MaxDelay` 2 and `MaxLag` 1 are together `TidTimeout` 3,
  the largest the order of the transfers allows, and `MaxDelay` 2 is the largest
  for which `2 * MaxDelay` is less than `TidMod * Spacing`. `Garbage` is a number no stamp
  can be mistaken for.
* `Codec`: every type is the zeros of `X_initialize_`, or filled with one of
  three patterns (ones; a float that rounds above the largest half; the smallest
  half), arrays empty, of one element, full, and one too many, in every option of
  a union; payloads are whole, empty, of one byte, half, and one byte short; whole
  ones are padded with 0 or 5 bytes.
  `MaxFull` 570 bytes leaves full arrays out of the few types with larger
  buffers, whose arrays are of the same kinds.
* `NodeSetup`, run `setup`: two nodes of three slots (`CAN_REDUNDANCY_FACTOR` of
  the redundant test), so that a transceiver joins while a later slot is still
  vacant, also when the queue of that slot has frames; up to three interfaces,
  one of the two names does not exist: more, as many and fewer than there are
  slots. One frame per queue, and in one node at a time (`MaxBusy`), because
  nodes share only the descriptors. Run `node_ids`: three nodes of one slot from
  a factory that was given no used IDs. `SomeDraws` are the first numbers of
  libstdc++: `minstd_rand0`, seeded with 1, scaled to 0..125, gives 0, 16, 95.
* `ByteArray`: lengths of 1, 57 and 128 elements; 57 is that of a test.

Deadlock is checked in every run but `setup`, `node_ids` and `byte_array`. In
these the system may stop: all nodes have been destroyed, or the bound of
nodes or runs is reached.

### Fairness

`OpenCyphal!Fairness`: the thread finishes the calls it begins and calls
`HandleTxRxQueues` again (`WF`), because the loop of `main.cpp:61` has no
blocking call (the sockets are non-blocking and polled with timeout 0). Samples
of the clock advance (`SF` on `Tick`, which is enabled only between calls).
Nothing is assumed of sockets, peers or publishing tasks. `Scheduler!FairSpec`:
the loop takes its steps; nothing is assumed of the clock.

## 4. What is proved

For every value of the constants the modules' assumptions allow, in TLAPS:

* `TypeCorrect`: `TypeOK` is inductive by itself.
* `HeapAlwaysOwned`: with the types, `HeapOwned` is inductive; the step is that
  `Push` and `PopAndFree` change queue and arena by the same frames, and that
  frames of different transfers are different.
* `QueuesConsistent`, `SentAtMostOnce`, `SentInOrder`: no one of the three is
  inductive alone. `SendInv` is: transfers are numbered in
  the order of their offers (so a pushed frame is new), frames of a transfer
  share rank and deadline, a queued frame that is live has its predecessor
  queued or sent, and what was sent is not queued. That the head of the queue is
  sent, and that within a transfer the head is the lowest index, gives the
  order on the wire.
* `SendingImplementsOutbox`: every step of `OpenCyphal` is, under the mapping of
  `Outbox`, an offer, a transmission, a passing of time, or a stutter. Expired
  frames still queued are mapped to nothing; the head among all frames, if live,
  is the head among the live ones.
* `SizedArenaSuffices`: the arena holds the queued frames (`HeapAlwaysOwned`),
  which are counted by the places of the queues (a surjection), so they are at
  most `CAN_REDUNDANCY_FACTOR * TxCapacity`. A pushed transfer fits its queue, and
  its frames are new because transfers are numbered (`SendInv`), so the arena
  after the push keeps to the same bound; the session of a new source is covered
  by the blocks beyond it.
* `CallsWindDownHolds`: every step of a call lowers `StepsLeft`, the frames
  queued on the interface at hand plus, for each later interface, what a full
  queue costs. A call may itself push an answer, so it needs the bound on the
  queues (`ArenaInv`), and that the answer enters a queue whose send loop has
  ended.
* `QueuesHaveHeads`: `canardTxPeek` of a queue with frames has exactly one
  answer. The order of a queue compares ranks, then transfers, then indices; that
  it has one least element rests on the frames of a transfer having one rank
  (`Coherent`, part of `ArenaInv`). Together with `CallsWindDownHolds` this is the
  part of `CallReturns` that is not fairness: a call in progress is never
  without a frame to deal with or a queue to leave, and goes on a bounded number
  of times only.
* `SchedulerTypeCorrect`, `TimingHolds`, `PeriodHolds`,
  `OneLivePublicationHolds`: the timing rests on `TimingInv`, which relates
  `next_run_`, the sample and the position in the check. A period alone is not
  inductive, as it does not say how far the sample can be beyond `next_run_`
  before the task is visited. `OneLivePublication` uses the assumption that the
  interval of a heartbeat is at least `MEGA` (`THeartbeat.h:16`); the lower bound
  of the period and the expiry of the previous publication need no steady clock.
* `SuccessiveIdsHold`: `IdInv` ties the ID of the last publication to the counter;
  the rest is arithmetic of two moduli, one dividing the other.
* `StampHolds`: with `TimingInv` (the sample is not ahead of a steady clock) the
  property is inductive; the assumption that one task of a node stamps
  `latency_` is needed.
* `LatencyTypeCorrect`, `RequestsTakenInOrder`, `MeasuredInOrder`,
  `OwnRequestMeasured`, `GapsBridged`, for any number of interfaces and IDs. That
  a session refuses what is old cannot be seen from the session, which knows an
  ID modulo `TidMod`. `RequestInv` adds where the frames are: every line
  is sorted by request, and a frame that is not newer than what the session took
  last waits on another interface than the session's and was published at most
  `MaxLag` after the sample that transfer was read with. Only a timeout could let
  it in, and with `Prompt` (`MaxDelay + MaxLag <= TidTimeout`) it is read before
  that or not at all. `ResponseInv`
  and `ResponseOrderInv` say the same of responses, for which the order of
  publication is that in which the responder took the requests. `StampInv` says
  that a slot holds the stamp of the newest request with its ID;
  `OwnRequestMeasured` follows because a newer one with the same ID is at least
  `TidMod * Spacing` younger.
* `MeasuringImplementsExchange`: under `Timely`, which joins the hypotheses of
  the properties above (`MaxDelay + MaxLag <= TidTimeout`, `2 * MaxDelay < TidMod *
  Spacing`), every step of `Latency` is a step of `Exchange` or a stutter. The
  mapping forgets interfaces, sessions and slots, and keeps of all lines only
  which requests have an answer under way. A refused duplicate is a lost answer
  or nothing; that one taken is a `Take` of a newer request, or a `Measure` with
  the right stamp and within two delays, needs all five parts of `ExchangeInv`.
* `SetupTypeCorrect`, `EverySlotServedHolds`, `SocketsOwnedHolds`,
  `FramesAccountedHolds`, for any number of interfaces, slots and nodes. The last
  three are not inductive. `SetupInv` adds, of each node, that its first slots
  hold the interfaces it was made of in their order, that its queues are empty
  until it is started, and that no queue has more frames than blocks (`NodeOK`);
  that the node `CreateLatencyNode` is making is the last one, is not started,
  and is vacant beyond the interfaces it was given (`MakingInv`), so that the next
  one goes to the next slot and the queues made anew are empty; and that sockets
  and descriptors of transceivers match one to one (`SocketsInv`). That the
  lowest free descriptor is not in use, for any set of open ones, is the lemma
  `FreeDescriptor`.

* `NumberReadBack`, `ArrayReadBack`, `CountReadBack`, `ShortTakenIsZeros`,
  `ShortArrayIsZeros`, for every buffer and bit offset, width, value and length:
  what `Codec` checks of whole objects, for the numbers they are made of. A number
  between any two buffers is taken out bit by bit (`TakenInside`); that the
  elements of an array do not overlap is arithmetic of division by their width
  (`PlaceInArray`); that the bits of a count add up to it needs that the recursive
  function in `NumberOf` has a solution for every length, which a least length
  without one contradicts (`NumberAddsUp`). Half floats are excluded where they
  are rounded; integers with a sign have the widths the generated types use.

* `SteadyStepsHold`, `SchedulerImplementsRequests`: the steps of the scheduler are
  those of `Requests` while its clock is not set, by `TimingInv`, `IdInv` and
  `StampOfLastRequest`; if it may never be set (`MaxLeaps = 0`), that is the
  refinement of the whole specification.
* `SchedulerMeasures`: if the clock may never be set, every behaviour of
  `Measurement` is one of `Latency`, for any other tasks beside the latency task,
  any number of interfaces and any delays. `LinkInv` ties the eight-bit counter
  and the slots of `latency_` to the number of requests made so far, and the
  session of the requester to its samples; that a request comes no sooner than
  `Spacing` after the last stamp, and that a sample is no older than `MaxLag`, is
  `TimingInv`. So the theorems on `Latency`, `MeasuringImplementsExchange` among
  them, hold of the scheduled node under their own hypotheses.
* `CheckServesAllHolds`: after a
  check no task is due at its sample, however long the tasks took.
* `SerializedWrites`, `DeserializedReads`, `FilledIsObject`, `SerializedIsRead`,
  `SurvivorIsWrittenAlike`, `ShortIsZeros` (`TypeProofs`) say of one type, with any
  members and any object or payload, what the names say, given the same of the
  types in it.
  The statements for the members, and for the elements of an array, run one after
  the other until one fails; `TurnsTaken` shows that the recursive function they
  are written as has a value for every number of them, and each theorem carries an
  invariant along them from statement to statement (`InductionUpTo`).
  The invariants are: what was written so far is no longer than where the largest
  members would end (for buffers); there are as many members read as statements
  run, each an object that can be written again, and a payload of zeros gave no
  error (`MembersGood`); the offset of the reader is the length of what the writer
  had written when it was there, whatever follows in the buffer (`Rounds`); a
  reader of a short payload and one of the same with zeros after it have read the
  same members, and are at the same bit or both beyond the end of the short one
  (`Alike`): from there on a type in `X` that is sealed may start at different bits
  of nothing but zeros, and the sizes the two report may differ.
* `CodecInvariant`, `CodecTypeCorrect`, `EmptyPayloadIsAnObject`,
  `PayloadFitsBuffer`, `WrittenIsRead`, `EveryReadIsRewritable`,
  `ReadIsRelayable`, `ShortPayloadMeansZeros` (`CodecProofs`). The premises of `TypeProofs` for one level of
  types are its conclusions for the level below, and there is nothing in a type of
  the first level, so the conclusions hold of all (`EveryLevel`): six
  applications in place of an induction over types. Each is an instance of
  `TypeProofs`. `Dsdl`, which TLC runs, has an instance of `TypeWriter`,
  `TypeReader`, `TypeSchema` and `TypeObjects` per level instead (TLC
  walks every substitution of every instance, and eight in each of six levels that
  name one another are too many), so `CodecProofs` first shows for each level
  that the operators of the two instances are equal: `FirstWriterAlike`,
  `FirstReaderAlike`, ..., from the bits up; they are most of its length, the same
  for every level. `TypeOK` alone is not
  inductive: `CodecInv` adds that what was written is what `X_serialize_` makes of
  the object, and what was read what `X_deserialize_` makes of the payload
  (`Underway`), and that the object to start from was read without an error.
  `Patterns`, `Counts` and so on are arbitrary; so are `Types`, as
  long as they are schemas. Two things are hypotheses. `PayloadFitsBuffer` takes
  the macros of the types to be right (`MacrosRight`), which is a fact about the 249
  concrete schemas that the run checks of each. `WrittenIsRead` and
  `ReadIsRelayable` hold for types without a half float in them (`Exact`, 216
  of the 249): a half is rounded when it is written, and that a rounded float
  reads back as the nearest half and then stays what it is needs the arithmetic of
  the bit patterns in `nunavutFloat16Pack`. `EveryReadIsRewritable` is the
  part of `Relayable` that has no such hypothesis; nor has `ShortPayloadMeansZeros`
  one, whose exception for delimiter headers is that of the property.

Only model-checked: all liveness (`CallReturns`, `FirstInterfaceDrains`,
`VisitedInterfaceDrains`, `DueTaskRuns`), which is out of reach of the prover, as
is fairness; round trip and relaying of types with halves; and `VersionsAgree`,
which is not a property of the codec but of the concrete types that share a name.

Only proved: `Measurement`, whose parts the runs `scheduler` and `latency` check.

## 5. What is not modelled

* The contents of messages other than `TByteArray`'s, as such: uptime and health
  in a heartbeat, name and version in a GetInfo response. Their schemas are.
* Reassembly of multi-frame transfers in libcanard's receiver, a submodule that is
  not in the tree; duplicates are modelled for transfers of one frame.
* Fragmentation in o1heap, and allocations of payload buffers.
* Filters of the SocketCAN adapter, which nothing calls; the copy constructor of
  the transceiver; the width of errno in `int16_t`.
* Several nodes in one loop: they share nothing but the clock and the bus.
  `Latency` has two nodes; `Measurement` gives the requester its loop, while the
  responder reads at any time, with a sample at most a turn old.
* Port IDs and kinds of subscriptions: which transfers reach a node is chosen by
  `FrameKinds` in `OpenCyphal`.
* Writes beyond an object (`TByteArray.cpp:14`), which have no states to explore.
* Tests, logging, and the build.

## 6. What could follow

1. `OpenCyphal` with a clock that leaps: what remains of `Outbox`.
2. Reassembly, with transfers of two frames in `CanardRx`.
3. A refinement of the lines of `Latency` by two instances of `OpenCyphal`.
