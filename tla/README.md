# A TLA+ verification of the EVSE system

The repository holds two services for electric-vehicle charging stations: the
*EVSE device service* (NestJS), which talks to charging stations over MQTT, and
the *DBC service* (Python), which decodes the CAN frames they send. A *Main
Backend* is described by the top-level README, but its source is not in the
repository. This directory models both services and what they rely on of others,
checks them with TLC, and proves the properties that matter most with TLAPS.

Contents: [the system](#1-the-system) · [modules and code](#2-modules-and-the-code-they-model) ·
[runs](#3-what-the-runs-check) · [bounds](#4-bounds-and-why-they-suffice) ·
[fairness](#5-fairness) · [proofs](#6-what-is-proved) ·
[findings](#7-where-the-code-differs-from-what-is-said-of-it) ·
[limits](#8-what-is-not-modelled) · [plan](#9-plan)

## 1. The system

```
 station --frame--> broker --INBOX / REGISTER--> MqttService.handleMessage
    ^                                              | validateFrame (CRC16)
    |                                  invalid     | valid
    |                       handleInvalidFrame <---+---> parseFrame --gRPC--> DBC service
    |                              | one second              |
    +------- OUTBOX <- requestDeviceData          publishParsedData -> DBC_PARSED topic
    |                              ^                         |
    |                              |                  processMessage
    |                     HeartbeatService      +------------+--------------+
    |                     (every 10 minutes)    v            v              v
    |                              |       DeviceService SessionService RedisService
    |                              v            |            |           publishMetrics
    +--- start/stopCharging   Redis "heartbeat" +--> gRPC <--+
                                                  Main Backend
```

Both services are single-threaded: the device service runs on the Node event
loop, the DBC service on asyncio. Concurrency comes from `await`. The MQTT client
calls `handleMessage` for every message and nobody awaits the result, so any
number of handlers may be suspended at once, each at one of its awaits. Timers
(`setTimeout` in the retry and heartbeat code, the ten-minute cron) interleave with
them. All state of the device service is in maps in memory; a restart (the
containers run with `restart: unless-stopped`) empties them while requests and
frames stay in the network.

| Component | State | Operations | What is hard | What makes it correct |
|---|---|---|---|---|
| CRC retry loop (`mqtt.service.ts` `handleInvalidFrame`, `clearRetryCounter`) | `pendingRetries`, keyed by device and message id | invalid frame: retry after a second or give up; valid frame: forget the device's counters | handlers of one key interleave; frames lost, duplicated, corrupt in the very bytes the key is read from; restarts | retries bounded by MAX_RETRIES per exchange, counters of devices independent, the loop ends |
| Device registry (`device.service.ts`) | `devices` map | register, update state, handle an error, mark offline, clear, remove | a report of a severe fault is awaited while other frames of the device arrive; it may fail; three bit masks and a table describe one field | severe errors shown = errors reported; frames never erase an error; types agree with the DBC file |
| Session tracker (`session.service.ts`) | `activeSessions` map; the backend's copy | session message, end session | saves of one port overlap, arrive late, out of order, or fail on one side only | the backend holds whole messages; it is set back only after an overlap or a failure |
| Message handling (`mqtt.service.ts` `handleMessage`, `processMessage`) | the handlers under way | validate, parse, publish, dispatch | every await is an interleaving point; a later frame may overtake an earlier one; no gRPC call has a deadline | uses the components as specified; no handler leaks; maps and subscribers differ by failed publications only |
| Heartbeat (`heartbeat.service.ts`) | the cycles under way, each with its snapshot | every ten minutes, poll the devices that were online | the snapshot ages; slow cycles overlap; Redis fails, and fails again in the error path | listeners learn of devices marked offline; every cycle ends; silent devices go offline |
| Redis publisher (`redis.service.ts`) | ioredis connection | publish heartbeat, metrics | a publication may fail after Redis has it | callers cope with either |
| Frame and CRC (`crc16.util.ts`, `buildRemoteCmdFrame`, `parser.py`) | none | compute and compare CRC-16/ARC, pack and read the header | polynomial, byte order, field widths | valid = codeword; damage found out; header read as written |
| Remote commands (`mqtt.service.ts` `sendCommand` and its callers) | none; frames in flight | poll, start, stop | values that do not fit a field; layout shared with devices through the DBC file only | a command travels whole; a device starts only if asked to |
| gRPC clients (`grpc-*.service.ts`) | a client each | parse, save, report | no deadline; a peer that is restarted under a call | answers or failures reach the caller |
| DBC service, calls (`server.py`, `processor.py`, `parser.py`) | two caches filled from the DBC file | ParseFrame, ParseBatch | a batch is suspended at each answer; unknown ids and damaged frames are called parsed; one bad frame in a batch | answers in order, each by its frame alone; bad frames refused; who acts on them acts on decoded frames |
| DBC service, life cycle (`main.py`, `service.py`) | `running`, the server, shutdown tasks | start, serve, shutdown by signal, end of `main` | shutdown tasks nobody awaits, two of them, one before `start` is through; a client that never reads | caches stay until the last call is over; a signal stops the process |
| Main Backend, broker, Redis, PostgreSQL | – | – | external | – |

`PROJECT.json` lists the components with their status, and under `hazards` the
places where something can go wrong that a unit test would hardly reach, each at its
line with the properties that cover it.

## 2. Modules and the code they model

Conventions that hold for all modules:

- **One action is what the code does between two suspensions.** A method runs
  without a break up to the first `await` that really waits for another party (a
  gRPC answer, Redis, the broker's confirmation, a timer). Awaits of a method
  that returns without waiting only yield to the microtask queue; no
  message is delivered there, and they are not interleaving points.
- **Data is what the properties tell apart.** A frame is known by what the DBC
  service decodes from it; a fault code is the set of its bits; time stamps,
  log messages and wording are left out. `Frame` alone works on bits.
- **A library is modelled by what it guarantees** its user: `grpc.aio` by its
  `stop(grace)`, ioredis by the outcomes of a publication, MQTT by its deliveries.
- **Order is left open** where the code does not fix it across processes: frames,
  saves and their answers may be reordered; the order in which a heartbeat
  snapshot is polled is left open as well (an over-approximation of map order).
- **Histories** (`retries`, `attempted`, `readings`, `published`, `unpublished`, ...) are variables no
  guard of the code reads; they let a property speak of the past.
- Definitions that begin with a comment *Mistake:* are deliberate errors, used
  one at a time in place of the definition that follows them to see that the
  property meant to notice does notice. Nothing else refers to them.

**RetryLoop.** An *exchange* is a causal chain: a poll or an unsolicited frame, the
frame it leads to, the retry that causes, and so on. `stage` says where each exchange
is, `key` its retry key. `ScheduleRetry`, `GiveUp`, `RetryDelayElapsed` are
`handleInvalidFrame` up to the sleep, with the budget used up, and after the sleep;
`HandleValid` is the call of `clearRetryCounter`; `IgnoreInvalid` and
`HandleTruncated` its early ends (the falsy id 0 of the HOST; a payload
too short for `readUInt16LE`). `RetryDelayElapsed` ends a chain whose message id
does not fit the one-byte request field, as `writeUInt8` throws. The environment
polls, emits, loses, duplicates (an INBOX is subscribed to by wildcard and by name)
and corrupts, address bytes included.

**FaultCodes, DeviceRegistry.** `FaultCodes` has the error table and the severity
masks of `parseErrorCode` and `determineSeverity` as functions on sets of
bits, next to the names the DBC file gives the bits. `DeviceRegistry` has one
action per method; `Call` is the set of invocations of `updateDeviceState` that may
wait for `reportCriticalError` at once. `updateDeviceState` is split by its
branches: unknown device (registered; its fault is not looked at), healthy, faulty.

**SessionTracker.** `HandleSessionData` is `handleSessionData` up to the await: the
map entry is opened or touched, the save request is in the network. The backend stores
or refuses requests in any order; the call's answer arrives or its connection
fails, whether or not the request is stored later. `EndSession` is the public method
(no caller in `src/`).

**MessageHandling** composes the two with the handlers: `Registry == INSTANCE
DeviceRegistry` and `Sessions == INSTANCE SessionTracker` share its variables, and each
action of a handler is `handleMessage` from one wait to the next, calls into
components included. The two component specifications are the abstract
specifications this module implements (`RegistryImplemented`, `SessionsImplemented`).
A publication of a parsed frame may fail, and then handling goes on all the same:
`PublishParsedData` adds the frame to `published` or to `unpublished`.
Invalid frames only occupy a handler here; what they lead to is RetryLoop's subject.

**Heartbeat** composes `performHeartbeat`/`checkDevice` with the registry. A
cycle's `stage` is the wait it is in: the second between the two requests, the
publication of "online", the publication of "offline" after the first failed, the two
seconds before the next device. A request to a device cannot fail: it is handed
to the MQTT client, which queues it. Only a failure of Redis marks a device
offline; a failure of the second publication ends the cycle.

**FrameAnswers, DbcService, DbcPipeline.** `FrameAnswers` is what the DBC service
promises its clients: the answers of a call are answers to its frames, in order, and
each is one that its frame and the DBC file alone allow (`Promise`). A malformed string is
refused and a frame that is in order is decoded. On two kinds of frames the code and
the tests disagree (`Disputed`): those whose id the DBC file does not have and those whose
checksum is wrong. `Promise` allows both answers there; the code's is that every frame of the
right length is parsed and its CRC valid, and the run `dbc_bad_frame` sets it against
what the tests expect. Any set of calls may fail.

`DbcService` is the service: `ParseFrame` awaits nothing that really waits and is
one step (`ParseFrameReturns`); `ParseBatch` is suspended at every `yield` until
its client reads, one step per answer (`ParseBatchYields`, `ParseBatchReturns`). `Lookup` and
`Name` go through the two caches as `_process_sync` does. `Start` is `main` and
`DBCService.start` up to the await of the server's start, `Serve` what follows it (it
sets `running` even if a shutdown has begun; no code reads `running`). `Signal`
creates a shutdown task that nobody awaits, `Shutdown` is that task up to its wait for
the server, `ShutdownEnds` the rest. `GraceOver` and `ServerStopped` are `grpc.aio`:
new calls are refused, those under way are waited for, and cancelled when the grace
period ends. When the server has stopped, `MainReturns` races with `ShutdownEnds`;
`Exit` clears what is left. Refinement: `outcome` of `FrameAnswers` is the `stage` of a call with
"unary" and "streaming" both read as "open"; a refused call shows no frames.

`DbcPipeline` puts handlers of the device service in front: `HandleMessage` sends only
frames that `validateFrame` accepts, `ParseFrameRejects` and `ParseFrameResolves` are the two
ways its `await` ends, the second with the tests of `parsed` and of the message name that
decide what is published (if the publication does not fail) and what acted on. Other clients of the same service
send what they like.

**Frame, RemoteCommand, FrameCheck.** `Frame` is the twelve-byte layout as sets of
bits: the loop of `CRC16.calculate`, `validateFrame`, the address bytes as
`buildRemoteCmdFrame` writes and `FrameParser.parse` reads them, and, as the reference
definition, codewords of the polynomial x^16+x^15+x^2+1 by division over GF(2).
Loops over bits and bytes are recursive functions there, not `RECURSIVE` operators, so
that they can be proved about.
`RemoteCommand` has `requestDeviceData`, `startCharging`, `stopCharging`, the frame each
becomes, and a device that reads it by the DBC file. `FrameCheck` extends it by a
noisy link, on which commands are damaged before the other end validates them: single
bits flip, up to `MaxFlips` of them; a burst, a set of bits of `Burst`, flips at once;
the last byte is lost.

The `MC...` modules hold the values of constants that a `.cfg` cannot write;
Heartbeat and RetryLoop need none. The `..._proofs` modules are described in section 6.

## 3. What the runs check

| Run | Shows |
|---|---|
| `retry` | `RetryBudget`: retries scheduled for a key never exceed MAX_RETRIES for each exchange of its device and each restart. `CountersIsolated`: a counter goes down only for a reason of its own (a prefix test without the separator would let device 1 clear device 11). `RetriesCease`: every chain ends or waits for a device. |
| `registry` | `AlarmsMatchErrors`: the severe errors shown are the errors reported, through two concurrent calls, restarts and silent, high and critical bits. `ErrorOutlivesFrames`: no frame and no offline mark erases an error. |
| `sessions` | `BackendHoldsAMessage`: energy and session id in a backend record are of one message, although the map entry the call went through may be of an earlier session. `SetBackOnlyByOverlap`: an older reading replaces a newer one only on a port that had two saves under way or a failed one. |
| `handling` | `WaitsAgree` and `ErrorsEndByRegistration` across handlers that interleave at every await. `SubscribersAgreeWithMaps`: what the maps show was offered to subscribers of the DBC_PARSED topics, and the maps know every device and port in session that subscribers were told of; the two differ by failed publications only. `RegistryImplemented` and `SessionsImplemented`: every behaviour of the handlers is one of the component specifications. Most of that is there by construction, since the handlers' steps are written with the components' operations; what the check adds is that no path calls an operation out of place (twice in a step, or a save again that failed). `HandlersReturn`: no path leaves a handler waiting. |
| `heartbeat` | `ChannelKnowsOffline`: the last status published for a device the registry holds for offline is "offline", unless Redis refused that too or two cycles had the device in hand. `CyclesEnd`: a cycle ends whatever Redis does. |
| `frames` | `ValidIffCodeword`: the loop, the byte order and polynomial division agree. `DamageIsDetected`: one or two flipped bits anywhere in a command, bursts within 16 bits (every solid one, and every one of each third bit) and a lost byte are all found out. `FrameCarriesCommand`: a command travels whole or is refused: valid CRC, header addressed to the topic's device, no value cut short. |
| `dbc_service` | `WarmWhileServing`: whatever shutdown tasks, grace period and the end of `main` do to each other, no call is answered without DBC file and caches. `AnswersImplemented`: the service refines `FrameAnswers`, so a bad frame in a batch neither ends it nor shifts the answers after it, and caches that are cold or warm make no difference. `ActsOnDecodedFrames`: although damaged and unknown frames are called parsed, handlers publish intact frames only, and act on decoded ones only. `SignalStops`: a signal stops the process, however many batches are left open. `HandlersAnswered`: a handler's `parseFrame` ends although it has no deadline. |
| `retry_header`, `registry_dbc`, `heartbeat_silent`, `command_polls`, `dbc_bad_frame` | one disagreement each between the code and what the repository says of it: section 7. |

The exceptions written into properties are what makes them true of this code, and
say something themselves. `SetBackOnlyByOverlap` means that nothing orders saves; a
station that reports faster than the backend answers can have its record
set back. `excused` in `ChannelKnowsOffline` means that an overlapping cycle can
announce as online a device that another cycle has just marked offline. A
duplicated delivery counts as an exchange of its own in `RetryBudget`.

Deadlock is checked where the system never rests (`registry`, `sessions`). The
other runs set `CHECK_DEADLOCK FALSE` because a bound
(exchanges, ticks, frames, damage, calls, starts) is used up and an idle service then rightly
rests; liveness there is stated by properties of its own.

## 4. Bounds, and why they suffice

| Run | Instance | States | Why it is enough |
|---|---|---|---|
| `retry` | devices 0, 1, 11; messages 20 and 300; 2 exchanges; MAX_RETRIES 3; 1 restart | 112 000 | the falsy id, a pair that a bad prefix test confuses, an id that does not fit a byte, two handlers on one key; the budget itself is proved for all values |
| `retry_header` | one device, one exchange, two messages | – | the smallest instance that shows it |
| `registry` | devices 0 and 3, two calls, codes none / silent / high / silent with critical | – | HOST and EVSE, each branch of the masks, two reports awaited at once |
| `sessions` | two ports, two session ids, two calls, two readings per port | – | overlap needs two saves of one port; the second port shows they do not mix |
| `handling` | two handlers, one device and port, two session ids, fault {8} or none, three frames, each published or not, one restart | 155 000 | a registration, an error and one more frame in any order; pairs of awaits |
| `heartbeat` | two devices, two overlapping cycles, three ticks, three frames, one restart | 154 000 | a device in the hands of two cycles, one marked offline and heard again, one left unpolled by an abort |
| `frames` | devices 1 and 31 (whose link is noisy); ids 20, 257; energies 30000 and 100000; one command; every pair of bits; solid and spaced bursts of 2..16 bits; a cut byte | 59 000 | an address of one bit and the largest, a value beyond each width; CRC is linear, so what damage does not depend on the frame. For all frames, every pattern within 16 bits and three flips, section 6 |
| `dbc_service` | two calls, one of a handler; ids 16 and 34 in the DBC file and 99 not; an intact, a damaged and an unknown frame, a malformed string; batches of up to two; two signals per process; two starts | 173 000 | a unary call beside a batch; a bad frame before a good one and after it; a second shutdown task that finds the server stopping or stopped, or the process new; a restart with calls under way |

Bounds on what may happen (`MaxTicks`, `MaxFrames`, `MaxCrashes`, `MaxReadings`,
`MaxFlips`, `MaxCalls`, `MaxBatch`, `MaxStarts`, and the sets of exchanges and of
shutdown tasks `Task`) are constants used in guards only.
`Cap` in RetryLoop stops a history one above the largest value a property
allows. Symmetry is used over `Call` in registry and sessions, whose properties are
invariants and action properties; the runs with liveness use none.

## 5. Fairness

- *RetryLoop*: weak fairness of `Deliver` (a frame that is not lost reaches its
  handler, which runs to its next wait) and of `RetryDelayElapsed` (timers fire). None
  of the device: `RetriesCease` lets a chain wait for a device for ever.
- *MessageHandling*: `TimersFire` is local to the process. `PeersAnswer` is an
  **assumption** about others and kept apart for that reason: no gRPC call
  has a deadline, so nothing in the code makes a DBC service or backend that
  accepts a request and falls silent fail the call. `HandlersReturn` therefore shows that
  the code leaks no handler when its peers answer or their connections fail, and
  no more.
- *Heartbeat*: weak fairness of what a cycle waits for. Timers fire, and ioredis
  fails a command after `maxRetriesPerRequest` attempts (`redis.service.ts:25-33`), so
  a publication ends one way or the other.
- *DbcService*: `LoopRuns`. The event loop runs what is ready (`Serve`, `MainReturns`,
  shutdown tasks, unary calls), and the grace period ends, since `stop(grace=5)` sets
  a timer for it. Nothing is assumed of batches, which
  wait for their clients, nor of `ShutdownEnds`, which may lose its race against
  `MainReturns`, nor of `Start`: nobody need restart the process.
- *DbcPipeline*: `HandlersRun`, the Node event loop of the device service, which runs a
  handler when its call has ended. With `LoopRuns`, `HandlersAnswered` follows: the part of
  `PeersAnswer` that concerns the DBC service is not an assumption there but a result,
  for a DBC service whose process runs or is known to have ended.
- The other modules state safety only and assume no fairness.

## 6. What is proved

TLAPS checks every leaf; nothing is taken on trust except the
constants' assumptions, which TLC evaluates in each run (`RetryAssumption`,
`RegistryAssumption`, `SessionAssumption`, `HandlingAssumption`,
`HeartbeatAssumption`, `RemoteCommandAssumption`, `FrameCheckAssumption`, `ServiceAssumption`
with `DbcAssumption`, `PipelineAssumption`: sorts of the constants, and that the markers for "no entry" are
no entries; that "Unknown", the name of an undecodable message, is none of those
`processMessage` acts on). Where a theorem needs more of a constant, its statement says
so: that there are finitely many addresses (`CyclesAreShort`), that they have five bits, and
which damage is meant (the theorems on frames, below).

- **RetryLoop_proofs** — `TypeCorrect`; `CountersAreIsolated`; `RetriesWithinBudget`. The budget is not
  inductive: a state may have used up less than it allows and yet hold counters
  that permit more. `RetriesCharged` charges each retry of a key to an exchange of the
  device that has ended or to a restart, MAX_RETRIES each; what is not charged
  yet is at most the key's counter, and only while some exchange of the
  device is under way that can be charged later. `ChargeStep` goes through the
  actions; `ChargesWithinBudget` counts (cardinalities of finite sets).
- **DeviceRegistry_proofs** — `MasksAgree`: for each of the 2^16 codes the
  hand-written masks report it exactly if it holds a bit the error table
  names as worth an alarm. On it rests `AlarmsMatch` (`Spec => []AlarmsMatchErrors`);
  also `TypeCorrect` and `ErrorsOutliveFrames`.
- **SessionTracker_proofs** — `TypeCorrect`, `BackendRecordIsAMessage`,
  `NoSetBackWithoutOverlap`. The invariant adds `RequestsAreMessages` (requests on their
  way are messages too) and `LatestAwaited` (on a port that never overlapped, the only
  request under way is that of the latest message and its call still waits), which is
  why the next message finds nothing in front of it.
- **MessageHandling_proofs** — `RegistryIsImplemented`, `SessionsAreImplemented`: each step
  of the handlers is a step of the component specification or leaves its variables
  alone. `ServiceKeepsRegistry` and `ServiceKeepsSessions` draw the conclusion: what the two
  components' own theorems state holds of the service, however its handlers interleave.
  They instantiate the components' proof modules with the handlers' variables and show that
  the instance is the specification `RegistryImplemented` or `SessionsImplemented` names.
  `HandlersAndComponentsAgree`: a report or a save is under way exactly for the handlers
  that wait for one. `TypeCorrect`. `SubscribersAndMapsAgree`: the maps show nothing that was not
  offered to subscribers, published or not, and know whatever was published, inductive
  together with the types of handlers and maps (a handler
  that processes a message holds a valid frame). `ErrorsEnd` rests on the same invariant.
- **Heartbeat_proofs** — `TypeCorrect`; `ListenersKnowOffline`. `ChannelKnowsOffline` is not
  inductive: a cycle that still has an offline device ahead of it would announce it
  online. `NoneAhead` rules that out, and holds since no two cycles have
  a device in hand that is not excused (`OneCycleEach`). `CyclesAreShort` is the safety half
  of `CyclesEnd`, for finitely many addresses: each step of a cycle leaves it fewer steps to
  take (`StepsLeft`: five for each device ahead at most), and nothing that happens
  meanwhile gives it more. What fairness has to add is that a cycle goes on.
- **DbcService_proofs** — `TypeCorrect`. `WarmUntilStopped`: the invariant relates the
  life cycle to the calls (calls are under way only while the server runs
  or is stopping, and then no task has closed the processor). `PromiseKept` is the refinement: warm
  caches make the answer of `ParseFrame` the one `WarmAnswer` names, which is one of `Promise`, and each step of
  the service is a step of `FrameAnswers` or a stutter. `AnswersComeInOrder` says what that
  means to a client: a call has its answers in the order of its frames, and all of them if
  it ends well.
  `HandlersActOnDecodedFrames` needs that a handler's call carries one intact frame and
  that its answer, once there, is that of warm caches. `PipelineIsService`: with handlers among
  its clients the service behaves as it does on its own, event loop included, so the other
  theorems hold there too (`ServiceHoldsInPipeline`).
- **Frame_proofs** — `ValidateFrameIsCodeword`: for each of the 2^96 payloads the
  loop of `CRC16.calculate`, with the byte order of its trailer, computes division by
  x^16 + x^15 + x^2 + 1. `Remainder` is the register of the division; it is additive, so
  the division of a frame is the sum of those of its bits, and one turn of the code's
  loop is one step of the division, mirrored. What the recursive functions compute is
  shown by induction all the same: the library's induction theorems take an operator, which
  the provers cannot instantiate, but a set of numbers that is not empty has a least
  member, and that says as much (`Induct`, `InductUpTo`). Also here: a number written into
  a field is read back; three bits flipped leave a remainder of odd weight, and two do
  because x^n leaves a remainder other than 1 for every n up to 95.
- **FrameCheck_proofs** — `CommandsTravelWhole`, and `CommandsTravelWholeOnNoisyLink` for frames
  that have not set out yet: `FrameCarriesCommand` for every value callers pass and all addresses 0..31
  (both ends mask the address with 0x1F). The invariant `FramesAreBuilt`
  ties each frame on a link to the call it was built from.
  `ValidPayloadsAreCodewords` needs no hypothesis. `DamageIsFoundOut`: up to three
  flipped bits (`MaxFlips <= 3`), any pattern of flips within sixteen consecutive bits
  and a lost byte are found out, of every frame. `DamageIsDetected` is not inductive: it
  says nothing of what a payload may still become. `DamageIsBounded` does: what differs from
  the sealed frame, whose division leaves nothing, is at most as many bits as were
  flipped, or one burst; and nothing is flipped before a frame sets out.

Only model-checked: liveness (`RetriesCease`, `HandlersReturn`, `CyclesEnd`, `SignalStops`,
`HandlersAnswered`), which is out of the prover's reach as fairness and ENABLED are.
`CyclesAreShort` and `RetriesWithinBudget` prove the part of it that is safety: cycles and
retries cannot feed on themselves. Every invariant, action property and refinement that a
passing run checks is also proved.

## 7. Where the code differs from what is said of it

Each is a run that TLC ends with a counterexample; the findings in `PROJECT.json`
quote the lines.

1. `retry_header` (code): the retry key is read from the frame whose CRC
   failed. If the damage is in the address bytes each attempt counts under another
   key, and one exchange is retried more than MAX_RETRIES times.
2. `registry_dbc` (code): `parseErrorCode` names bit 1 and 2 overcurrent and bit 7 a
   communication error; the DBC file has over-voltage, under-voltage and
   pilot there.
3. `heartbeat_silent` (tests): the heartbeat tests say that a device that
   does not respond is marked offline; nothing waits for a response.
4. `command_polls` (DBC file): commands are laid out by whole bytes, the DBC file packs
   them by bits. A poll reads as the command to start port 0, and a start
   as the command to stop both ports.
5. `dbc_bad_frame` (code): a frame with an unknown CAN id is answered with `parsed` and
   `crc_valid` true (`server.py:66-75`: the processor's result has `parsed = False`, but only
   its truth as an object is tested), and so is one with a wrong checksum, which the
   parser does not compute (`parser.py:39-44`). The frame of
   `evse-device-service/test/grpc-dbc.e2e-spec.ts:126-142` is both, and the test expects
   `parsed` to be false; line 122 there and `tests/unit/test_parser.py:81-93` expect a wrong
   checksum to be reported or refused. The device service validates before it asks, but
   publishes a frame of unknown id as decoded; `ActsOnDecodedFrames` shows that it does not
   act on it all the same.

Seen while reading, with no run of its own:

- A message with a new session id refreshes the old entry of its port only
  (`session.service.ts:36-38`), so `getActiveSession`, which nothing in `src/` calls but the tests,
  returns the old id; `evse-device-service/test/session.e2e-spec.ts:318` expects the one just
  received. No code ends sessions. What the backend is told is right all the same
  (`BackendHoldsAMessage`).
- A retry for a message id above 255, read from a damaged header, is counted and announced in the
  log (`mqtt.service.ts:182-185`) but never sent: the request field holds a byte, and
  `writeUInt8` throws. `RetryDelayElapsed` models it.
- The test at `evse-device-service/test/device.e2e-spec.ts:129` expects fault code 0x01 not to
  be reported, while the high mask 0x11F of `determineSeverity` holds that bit and the
  code reports it.
- Every command carries values for both ports, so starting or stopping one
  port sends 0 to the other.
- `ecosystem.config.js:15-16` sets GRPC_HOST and GRPC_PORT, which the nested settings do not
  read (they read HOST and PORT, or names with a double underscore).
  PORT would give the gRPC and the metrics server the same port.
- The Docker image of the DBC service does not contain the DBC file; some of its unit tests call a
  method that does not exist; nothing updates its statistics.

## 8. What is not modelled

- The decoding of signal values by `cantools` (a library), and the printed log of decoded frames:
  answers are told apart by what the device service looks at.
- Wiring, configuration, logging and metrics; generated code; scripts, benchmarks
  and test clients: no behaviour of the system is decided there.
- The Main Backend, the broker, Redis and the stations: no source. Each module models
  what its component must expect of them.
- The client side of `parseBatch` (the server side is modelled), `publishDeviceStatus`, `isConnected`, `getConnectionStatus`: no caller in
  `src/`.
- Reconnection of the MQTT client, ioredis and gRPC channels: library code; the
  effects on the service (loss, failure, duplicates) are modelled.

## 9. Plan

The order of the modules was: the retry loop (the service's own protocol, and the
one with most interleavings), the registry and the session tracker (the state others
rely on), message handling (which composes them), the heartbeat, frames and commands, and
the DBC service with its clients. What remains worth doing:

1. **Compositions**: DbcPipeline with the whole of MessageHandling (today it has the part of
   a handler that ends with the answer); the heartbeat's polls with RetryLoop (an
   exchange begins with a request of a cycle).
2. **An abstract specification of the retry loop** (a budget that is spent and never
   refilled for one exchange) and of the heartbeat (a status per device that
   follows the registry), with RetryLoop and Heartbeat shown to implement them.
3. **Proofs**: the safety half of the other liveness properties (what is left of a shutdown,
   of a batch, of a handler's way decreases with each step).
