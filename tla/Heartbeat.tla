------------------------------- MODULE Heartbeat -------------------------------
(***************************************************************************)
(* HeartbeatService: every ten minutes a cycle takes a snapshot of the     *)
(* devices that are online and polls them one after another, announcing    *)
(* each on the Redis channel "heartbeat".  Only a failure of Redis makes a *)
(* check fail: requests to a device are handed to the MQTT client, which   *)
(* does not wait.  The registry is the one of DeviceRegistry; frames of    *)
(* the devices change it while a cycle is under way, and nothing keeps a   *)
(* slow cycle from overlapping the next.                                   *)
(*                                                                         *)
(* The order in which a snapshot is polled is left open.  Left out are the  *)
(* fault codes of frames and the requests themselves: a device may send a  *)
(* frame at any time, asked for or not.                                    *)
(***************************************************************************)
EXTENDS FiniteSets, Naturals

CONSTANTS Cycle,         \* heartbeat cycles that may overlap
          Address,
          MaxTicks,      \* bound: cycles started
          MaxFrames,     \* bound: frames devices send
          MaxCrashes,    \* bound: restarts of the process
          Absent, NoReport, Nobody

VARIABLES stage,         \* per cycle, what it waits for
          checking,      \* per cycle, the device it checks
          todo,          \* per cycle, the devices of its snapshot still to check
          announced,     \* last status published for each device
          excused,       \* history: devices whose announcements failed or overlapped
          silent,        \* history: completed checks since a device's last frame
          ticks, frames, crashes,
          devices, reporting, attempted

Registry == INSTANCE DeviceRegistry WITH
              Call <- {"frame"}, FaultCode <- {{}}, ReadySignals <- {{0, 1}}

registry == <<devices, reporting, attempted>>
bounds == <<ticks, frames, crashes>>
vars == <<stage, checking, todo, announced, excused, silent, bounds, registry>>

Status == {"none", "online", "offline"}
Stage == {"idle", "between requests", "announcing", "announcing offline", "pausing"}

ASSUME HeartbeatAssumption ==
  /\ Registry!RegistryAssumption
  /\ Nobody \notin Address
  /\ MaxTicks \in Nat /\ MaxFrames \in Nat /\ MaxCrashes \in Nat

Init ==
  /\ stage = [c \in Cycle |-> "idle"]
  /\ checking = [c \in Cycle |-> Nobody]
  /\ todo = [c \in Cycle |-> {}]
  /\ announced = [a \in Address |-> "none"]
  /\ excused = {}
  /\ silent = [a \in Address |-> 0]
  /\ ticks = 0 /\ frames = 0 /\ crashes = 0
  /\ Registry!Init

Online(a) == Registry!Known(a) /\ devices[a].online
Offline(a) == Registry!Known(a) /\ ~devices[a].online

\* The devices a cycle has in hand or ahead.
Pending(c) == todo[c] \cup ({checking[c]} \ {Nobody})

-----------------------------------------------------------------------------
\* checkDevice of the next device, up to the sleep between its two requests, or
\* the end of the cycle.
CheckNext(c, rest) ==
  IF rest = {}
  THEN /\ stage' = [stage EXCEPT ![c] = "idle"]
       /\ checking' = [checking EXCEPT ![c] = Nobody]
       /\ todo' = [todo EXCEPT ![c] = {}]
  ELSE \E a \in rest :
       /\ stage' = [stage EXCEPT ![c] = "between requests"]
       /\ checking' = [checking EXCEPT ![c] = a]
       /\ todo' = [todo EXCEPT ![c] = rest \ {a}]

\* Mistake: the filter for online devices is missing.
SnapshotOfAll == {a \in Address : Registry!Known(a)}

Snapshot == {a \in Address : Online(a)}

\* performHeartbeat is called by the scheduler.
Tick(c) ==
  /\ stage[c] = "idle"
  /\ ticks < MaxTicks
  /\ ticks' = ticks + 1
  /\ CheckNext(c, Snapshot)
  /\ excused' = excused \cup {a \in Snapshot : \E d \in Cycle : a \in Pending(d)}
  /\ UNCHANGED <<announced, silent, frames, crashes, registry>>

\* The second is over: the second request, then publishHeartbeat "online".
RequestState(c) ==
  /\ stage[c] = "between requests"
  /\ stage' = [stage EXCEPT ![c] = "announcing"]
  /\ UNCHANGED <<checking, todo, announced, excused, silent, bounds, registry>>

Announced(c) ==
  /\ stage[c] = "announcing"
  /\ stage' = [stage EXCEPT ![c] = "pausing"]
  /\ announced' = [announced EXCEPT ![checking[c]] = "online"]
  /\ UNCHANGED <<checking, todo, excused, silent, bounds, registry>>

\* Mistake: a check that fails is tried again at once.
AnnounceFailsRetried(c) ==
  /\ stage[c] = "announcing"
  /\ stage' = [stage EXCEPT ![c] = "between requests"]
  /\ UNCHANGED <<checking, todo, announced, excused, silent, bounds, registry>>

\* Mistake: the handler does not wait for its second publication to begin.
AnnounceFailsForgetting(c) ==
  /\ stage[c] = "announcing"
  /\ stage' = [stage EXCEPT ![c] = "announcing offline"]
  /\ Registry!MarkDeviceOffline(checking[c])
  /\ checking' = [checking EXCEPT ![c] = Nobody]
  /\ UNCHANGED <<todo, announced, excused, silent, bounds>>

\* publishHeartbeat rejects, whether or not Redis got the message: the device is
\* marked offline and publishHeartbeat "offline" begins.
AnnounceFails(c) ==
  /\ stage[c] = "announcing"
  /\ stage' = [stage EXCEPT ![c] = "announcing offline"]
  /\ Registry!MarkDeviceOffline(checking[c])
  /\ \E s \in {announced[checking[c]], "online"} :
       announced' = [announced EXCEPT ![checking[c]] = s]
  /\ UNCHANGED <<checking, todo, excused, silent, bounds>>

AnnouncedOffline(c) ==
  /\ stage[c] = "announcing offline"
  /\ stage' = [stage EXCEPT ![c] = "pausing"]
  /\ announced' = [announced EXCEPT ![checking[c]] = "offline"]
  /\ UNCHANGED <<checking, todo, excused, silent, bounds, registry>>

\* That publication fails too: nothing catches it, and the cycle ends with the
\* rest of its snapshot unpolled.
CycleAborts(c) ==
  /\ stage[c] = "announcing offline"
  /\ stage' = [stage EXCEPT ![c] = "idle"]
  /\ checking' = [checking EXCEPT ![c] = Nobody]
  /\ todo' = [todo EXCEPT ![c] = {}]
  /\ excused' = excused \cup {checking[c]}
  /\ \E s \in {announced[checking[c]], "offline"} :
       announced' = [announced EXCEPT ![checking[c]] = s]
  /\ UNCHANGED <<silent, bounds, registry>>

\* The two seconds between devices are over.
PauseOver(c) ==
  /\ stage[c] = "pausing"
  /\ silent' = [silent EXCEPT ![checking[c]] = IF @ < 2 THEN @ + 1 ELSE @]
  /\ CheckNext(c, todo[c])
  /\ UNCHANGED <<announced, excused, bounds, registry>>

\* A device's evse_state reaches the registry, asked for or not.
DeviceFrame(a) ==
  /\ frames < MaxFrames
  /\ frames' = frames + 1
  /\ \E s \in Registry!StateData : Registry!UpdateDeviceState("frame", a, s)
  /\ silent' = [silent EXCEPT ![a] = 0]
  /\ UNCHANGED <<stage, checking, todo, announced, excused, ticks, crashes>>

Crash ==
  /\ crashes < MaxCrashes
  /\ crashes' = crashes + 1
  /\ stage' = [c \in Cycle |-> "idle"]
  /\ checking' = [c \in Cycle |-> Nobody]
  /\ todo' = [c \in Cycle |-> {}]
  /\ Registry!Restart
  /\ UNCHANGED <<announced, excused, silent, ticks, frames>>

-----------------------------------------------------------------------------
\* What lets a cycle go on: its timers, and Redis or its failure.
Proceed(c) ==
  \/ RequestState(c)
  \/ Announced(c)
  \/ AnnounceFails(c)
  \/ AnnouncedOffline(c)
  \/ CycleAborts(c)
  \/ PauseOver(c)

Next ==
  \/ \E c \in Cycle : Tick(c) \/ Proceed(c)
  \/ \E a \in Address : DeviceFrame(a)
  \/ Crash

\* Timers fire, and ioredis fails a request after its retries (maxRetriesPerRequest).
Fairness == \A c \in Cycle : WF_vars(Proceed(c))

Spec == Init /\ [][Next]_vars /\ Fairness

-----------------------------------------------------------------------------
\* Type correctness; a cycle that is not idle has a device in hand.
TypeOK ==
  /\ stage \in [Cycle -> Stage]
  /\ checking \in [Cycle -> Address \cup {Nobody}]
  /\ \A c \in Cycle : stage[c] # "idle" <=> checking[c] # Nobody
  /\ todo \in [Cycle -> SUBSET Address]
  /\ announced \in [Address -> Status]
  /\ excused \subseteq Address
  /\ silent \in [Address -> 0 .. 2]
  /\ ticks \in 0 .. MaxTicks /\ frames \in 0 .. MaxFrames /\ crashes \in 0 .. MaxCrashes

\* Who listens to the heartbeat channel knows which devices the registry holds
\* for offline, as soon as the announcement is out: the last status of such a
\* device is "offline".  Excused are devices whose "offline" could not be
\* published, and those that two overlapping cycles had in their snapshots.
ChannelKnowsOffline ==
  \A a \in Address :
    Offline(a) /\ a \notin excused =>
      \/ announced[a] = "offline"
      \/ \E c \in Cycle : checking[c] = a /\ stage[c] = "announcing offline"

\* Every cycle comes to its end, whatever becomes of Redis in the middle of it.
CyclesEnd == \A c \in Cycle : []<>(stage[c] = "idle")

-----------------------------------------------------------------------------
\* What the tests say, and the code does not do.

\* test/heartbeat.e2e-spec.ts, "Offline Device Detection": a device that does not
\* respond is marked offline.  Here, by the end of the second check of it.
SilentDeviceGoesOffline ==
  \A a \in Address : silent[a] = 2 => ~Online(a)
=============================================================================
