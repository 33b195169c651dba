---------------------------- MODULE Heartbeat_proofs ----------------------------
(***************************************************************************)
(* Proof that listeners of the heartbeat channel learn of every device     *)
(* marked offline, for any devices, any number of overlapping cycles and   *)
(* any failures of Redis.  ChannelKnowsOffline is not inductive by itself: *)
(* a cycle that still had an offline device ahead of it would announce it  *)
(* online.  NoneAhead rules that out, and holds because no two cycles have *)
(* a device in hand unless it is excused (OneCycleEach).  Then: the steps  *)
(* a cycle has left decrease with each that it takes (CyclesAreShort).     *)
(***************************************************************************)
EXTENDS Heartbeat, FiniteSetTheorems, TLAPS

\* The types the argument needs.
Types ==
  /\ stage \in [Cycle -> Stage]
  /\ checking \in [Cycle -> Address \cup {Nobody}]
  /\ todo \in [Cycle -> SUBSET Address]
  /\ announced \in [Address -> Status]
  /\ excused \subseteq Address
  /\ devices \in [Address -> Registry!Device \cup {Absent}]
  /\ \A c \in Cycle : stage[c] # "idle" => checking[c] \in Address

\* The device a cycle checks is not ahead of it as well.
InHandOnce == \A c \in Cycle : checking[c] \notin todo[c]

\* No two cycles have a device in hand or ahead that is not excused.
OneCycleEach ==
  \A c, d \in Cycle, a \in Address :
    a \in Pending(c) /\ a \in Pending(d) /\ a \notin excused => c = d

\* A device that is offline is ahead of no cycle, and a cycle that has it in hand
\* has found it offline.
NoneAhead ==
  \A c \in Cycle, a \in Address :
    Offline(a) /\ a \notin excused =>
      /\ a \notin todo[c]
      /\ checking[c] = a => stage[c] \in {"announcing offline", "pausing"}

IInv == Types /\ InHandOnce /\ OneCycleEach /\ NoneAhead /\ ChannelKnowsOffline

-----------------------------------------------------------------------------
\* What a device is after the registry's steps that the heartbeat sees.
LEMMA MarkedOffline ==
  ASSUME Types, NEW a \in Address, Registry!MarkDeviceOffline(a)
  PROVE  /\ devices' \in [Address -> Registry!Device \cup {Absent}]
         /\ \A b \in Address \ {a} : Offline(b)' <=> Offline(b)
<1>1. devices[a] \in Registry!Device
  BY DEF Types, Registry!MarkDeviceOffline, Registry!Known
<1>2. [devices[a] EXCEPT !.online = FALSE] \in Registry!Device
  BY <1>1 DEF Registry!Device
<1>3. devices' = [devices EXCEPT ![a] = [devices[a] EXCEPT !.online = FALSE]]
  BY DEF Registry!MarkDeviceOffline
<1>4. devices' \in [Address -> Registry!Device \cup {Absent}]
  BY <1>2, <1>3 DEF Types
<1>5. \A b \in Address \ {a} : devices'[b] = devices[b]
  BY <1>3 DEF Types
<1> QED
  BY <1>4, <1>5 DEF Offline, Registry!Known

\* A frame makes its device known and online, and leaves the others alone.
LEMMA FrameReceived ==
  ASSUME Types, NEW a \in Address, NEW s \in Registry!StateData,
         Registry!UpdateDeviceState("frame", a, s)
  PROVE  /\ devices' \in [Address -> Registry!Device \cup {Absent}]
         /\ \A b \in Address : Offline(b)' => Offline(b)
<1>1. s.fault = {}
  BY DEF Registry!StateData
<1>2. CASE Registry!UpdateUnknown(a, s)
  <2>1. devices' = [devices EXCEPT ![a] = Registry!NewDevice(a, s)]
    BY <1>2 DEF Registry!UpdateUnknown, Registry!RegisterDevice
  <2>2. Registry!NewDevice(a, s) \in Registry!Device /\ Registry!NewDevice(a, s).online
    BY DEF Registry!NewDevice, Registry!Device, Registry!DetectPortCount, Registry!NoError
  <2>3. devices' \in [Address -> Registry!Device \cup {Absent}]
    BY <2>1, <2>2 DEF Types
  <2>4. \A b \in Address : devices'[b] = IF b = a THEN Registry!NewDevice(a, s) ELSE devices[b]
    BY <2>1 DEF Types
  <2> QED
    BY <2>2, <2>3, <2>4 DEF Offline, Registry!Known
<1>3. CASE Registry!UpdateHealthy(a, s)
  <2> DEFINE seen == [devices[a] EXCEPT !.online = TRUE]
  <2>1. devices[a] \in Registry!Device
    BY <1>3 DEF Registry!UpdateHealthy, Registry!Known, Types
  <2>2. seen \in Registry!Device /\ seen.online
    BY <2>1 DEF Registry!Device
  <2>3. devices' = [devices EXCEPT ![a] = seen]
    BY <1>3 DEF Registry!UpdateHealthy
  <2>4. devices' \in [Address -> Registry!Device \cup {Absent}]
    BY <2>2, <2>3 DEF Types
  <2>5. \A b \in Address : devices'[b] = IF b = a THEN seen ELSE devices[b]
    BY <2>3 DEF Types
  <2> QED
    BY <2>2, <2>4, <2>5 DEF Offline, Registry!Known
<1>4. ~Registry!UpdateFaulty("frame", a, s)
  BY <1>1 DEF Registry!UpdateFaulty
<1> QED
  BY <1>2, <1>3, <1>4 DEF Registry!UpdateDeviceState

\* What a cycle has in hand and ahead once it turns to the next device.
LEMMA Turned ==
  ASSUME Types, NEW c \in Cycle, NEW rest \in SUBSET Address, CheckNext(c, rest)
  PROVE  /\ stage' \in [Cycle -> Stage]
         /\ checking' \in [Cycle -> Address \cup {Nobody}]
         /\ todo' \in [Cycle -> SUBSET Address]
         /\ stage'[c] # "idle" => checking'[c] \in Address
         /\ checking'[c] \notin todo'[c]
         /\ Pending(c)' \subseteq rest
         /\ \A d \in Cycle \ {c} :
              stage'[d] = stage[d] /\ checking'[d] = checking[d] /\ todo'[d] = todo[d]
<1>1. CASE rest = {}
  BY <1>1, HeartbeatAssumption DEF CheckNext, Types, Stage, Pending
<1>2. CASE rest # {}
  <2>1. PICK a \in rest :
          /\ stage' = [stage EXCEPT ![c] = "between requests"]
          /\ checking' = [checking EXCEPT ![c] = a]
          /\ todo' = [todo EXCEPT ![c] = rest \ {a}]
    BY <1>2 DEF CheckNext
  <2>2. /\ stage' \in [Cycle -> Stage]
        /\ checking' \in [Cycle -> Address \cup {Nobody}]
        /\ todo' \in [Cycle -> SUBSET Address]
    BY <2>1 DEF Types, Stage
  <2>3. checking'[c] = a /\ todo'[c] = rest \ {a}
    BY <2>1 DEF Types
  <2>4. \A d \in Cycle \ {c} :
          stage'[d] = stage[d] /\ checking'[d] = checking[d] /\ todo'[d] = todo[d]
    BY <2>1 DEF Types
  <2> QED
    BY <2>2, <2>3, <2>4 DEF Pending
<1> QED
  BY <1>1, <1>2

-----------------------------------------------------------------------------
\* No cycle runs and no device is known at the start.
LEMMA InvInit == Init => IInv
<1> SUFFICES ASSUME Init PROVE IInv
  OBVIOUS
<1>1. \A a \in Address : ~Offline(a)
  BY DEF Init, Registry!Init, Offline, Registry!Known
<1>2. Types
  BY DEF Init, Registry!Init, Types, Stage, Status
<1>3. InHandOnce /\ OneCycleEach
  BY DEF Init, InHandOnce, OneCycleEach, Pending
<1> QED
  BY <1>1, <1>2, <1>3 DEF IInv, NoneAhead, ChannelKnowsOffline

\* A new cycle has online devices before it, and excuses those of other cycles.
LEMMA TickKeeps ==
  ASSUME IInv, NEW c \in Cycle, Tick(c)
  PROVE  IInv'
<1> USE DEF IInv
<1>1. Snapshot \in SUBSET Address /\ CheckNext(c, Snapshot)
  BY DEF Snapshot, Tick
<1>2. UNCHANGED <<announced, devices>>
  BY DEF Tick, registry
<1>3. excused' = excused \cup {a \in Snapshot : \E d \in Cycle : a \in Pending(d)}
  BY DEF Tick
<1>4. Types'
  BY <1>1, <1>2, <1>3, Turned DEF Types
<1>5. InHandOnce'
  BY <1>1, Turned DEF InHandOnce
<1>6. \A d \in Cycle \ {c} : Pending(d)' = Pending(d)
  BY <1>1, Turned DEF Pending
<1>7. Pending(c)' \subseteq Snapshot
  BY <1>1, Turned
<1>8. OneCycleEach'
  BY <1>3, <1>6, <1>7 DEF OneCycleEach
<1>9. \A a \in Address : Offline(a)' <=> Offline(a)
  BY <1>2 DEF Offline, Registry!Known
<1>10. \A a \in Address : Offline(a) => a \notin Pending(c)'
  BY <1>7 DEF Snapshot, Online, Offline
<1>11. NoneAhead'
  <2> SUFFICES ASSUME NEW d \in Cycle, NEW a \in Address, Offline(a), a \notin excused'
               PROVE  /\ a \notin todo'[d]
                      /\ checking'[d] = a => stage'[d] \in {"announcing offline", "pausing"}
    BY <1>9 DEF NoneAhead
  <2>1. CASE d = c
    BY <2>1, <1>10, HeartbeatAssumption DEF Pending
  <2>2. CASE d # c
    BY <2>2, <1>1, <1>3, Turned DEF NoneAhead
  <2> QED
    BY <2>1, <2>2
<1>12. ChannelKnowsOffline'
  <2> SUFFICES ASSUME NEW a \in Address, Offline(a), a \notin excused'
               PROVE  \/ announced'[a] = "offline"
                      \/ \E d \in Cycle : checking'[d] = a /\ stage'[d] = "announcing offline"
    BY <1>9 DEF ChannelKnowsOffline
  <2>1. \/ announced[a] = "offline"
        \/ \E d \in Cycle : checking[d] = a /\ stage[d] = "announcing offline"
    BY <1>3 DEF ChannelKnowsOffline
  <2>2. stage[c] = "idle"
    BY DEF Tick
  <2> QED
    BY <1>1, <1>2, <2>1, <2>2, Turned
<1> QED
  BY <1>4, <1>5, <1>8, <1>11, <1>12

\* A cycle that turns to its next device takes it from what was ahead of it.
LEMMA PauseOverKeeps ==
  ASSUME IInv, NEW c \in Cycle, PauseOver(c)
  PROVE  IInv'
<1> USE DEF IInv
<1>1. todo[c] \in SUBSET Address /\ CheckNext(c, todo[c])
  BY DEF PauseOver, Types
<1>2. UNCHANGED <<announced, excused, devices>> /\ stage[c] = "pausing"
  BY DEF PauseOver, registry
<1>3. Types'
  BY <1>1, <1>2, Turned DEF Types
<1>4. InHandOnce'
  BY <1>1, Turned DEF InHandOnce
<1>5. /\ \A d \in Cycle \ {c} : Pending(d)' = Pending(d)
      /\ Pending(c)' \subseteq todo[c]
      /\ todo[c] \subseteq Pending(c)
  BY <1>1, Turned DEF Pending
<1>6. OneCycleEach'
  BY <1>2, <1>5 DEF OneCycleEach
<1>7. \A a \in Address : Offline(a)' <=> Offline(a)
  BY <1>2 DEF Offline, Registry!Known
<1>8. NoneAhead'
  <2> SUFFICES ASSUME NEW d \in Cycle, NEW a \in Address, Offline(a), a \notin excused
               PROVE  /\ a \notin todo'[d]
                      /\ checking'[d] = a => stage'[d] \in {"announcing offline", "pausing"}
    BY <1>2, <1>7 DEF NoneAhead
  <2>1. CASE d = c
    <3>1. a \notin Pending(c)'
      BY <1>5 DEF NoneAhead
    <3> QED
      BY <2>1, <3>1, HeartbeatAssumption DEF Pending
  <2>2. CASE d # c
    BY <2>2, <1>1, Turned DEF NoneAhead
  <2> QED
    BY <2>1, <2>2
<1>9. ChannelKnowsOffline'
  <2> SUFFICES ASSUME NEW a \in Address, Offline(a), a \notin excused
               PROVE  \/ announced'[a] = "offline"
                      \/ \E d \in Cycle : checking'[d] = a /\ stage'[d] = "announcing offline"
    BY <1>2, <1>7 DEF ChannelKnowsOffline
  <2>1. \/ announced[a] = "offline"
        \/ \E d \in Cycle : checking[d] = a /\ stage[d] = "announcing offline"
    BY DEF ChannelKnowsOffline
  <2> QED
    BY <1>1, <1>2, <2>1, Turned
<1> QED
  BY <1>3, <1>4, <1>6, <1>8, <1>9

\* A cycle goes from one wait to the next with the device it has in hand; what
\* it announces of that device fits what the registry shows.
LEMMA StageMoves ==
  ASSUME IInv, NEW c \in Cycle, RequestState(c) \/ Announced(c) \/ AnnouncedOffline(c)
  PROVE  IInv'
<1> USE DEF IInv
<1>1. UNCHANGED <<checking, todo, excused, devices>>
  BY DEF RequestState, Announced, AnnouncedOffline, registry
<1>2. checking[c] \in Address
  BY DEF RequestState, Announced, AnnouncedOffline, Types
<1>3. Types'
  <2>1. stage' \in [Cycle -> Stage] /\ announced' \in [Address -> Status]
    BY DEF RequestState, Announced, AnnouncedOffline, Types, Stage, Status
  <2>2. \A d \in Cycle : stage'[d] # "idle" => checking'[d] \in Address
    BY <1>1, <1>2 DEF RequestState, Announced, AnnouncedOffline, Types
  <2> QED
    BY <1>1, <2>1, <2>2 DEF Types
<1>4. InHandOnce' /\ OneCycleEach'
  BY <1>1 DEF InHandOnce, OneCycleEach, Pending
<1>5. \A a \in Address : Offline(a)' <=> Offline(a)
  BY <1>1 DEF Offline, Registry!Known
<1>6. NoneAhead'
  BY <1>1, <1>5 DEF NoneAhead, RequestState, Announced, AnnouncedOffline, Types
<1>7. ChannelKnowsOffline'
  <2>1. CASE RequestState(c)
    BY <1>1, <1>5, <2>1 DEF RequestState, ChannelKnowsOffline, Types
  <2>2. CASE Announced(c)
    <3>1. ~Offline(checking[c]) \/ checking[c] \in excused
      BY <1>2, <2>2 DEF Announced, NoneAhead
    <3> QED
      BY <1>1, <1>5, <2>2, <3>1 DEF Announced, ChannelKnowsOffline, Types
  <2>3. CASE AnnouncedOffline(c)
    BY <1>1, <1>5, <2>3 DEF AnnouncedOffline, ChannelKnowsOffline, Types
  <2> QED
    BY <2>1, <2>2, <2>3
<1> QED
  BY <1>1, <1>3, <1>4, <1>6, <1>7

\* A device is marked offline by the only cycle that has it in hand, or excused.
LEMMA AnnounceFailsKeeps ==
  ASSUME IInv, NEW c \in Cycle, AnnounceFails(c)
  PROVE  IInv'
<1> USE DEF IInv
<1> DEFINE x == checking[c]
<1>1. UNCHANGED <<checking, todo, excused>>
  BY DEF AnnounceFails
<1>2. stage[c] = "announcing" /\ x \in Address
  BY DEF AnnounceFails, Types
<1>3. stage' = [stage EXCEPT ![c] = "announcing offline"]
  BY DEF AnnounceFails
<1>4. PICK s \in {announced[x], "online"} : announced' = [announced EXCEPT ![x] = s]
  BY DEF AnnounceFails
<1>5. /\ devices' \in [Address -> Registry!Device \cup {Absent}]
      /\ \A b \in Address \ {x} : Offline(b)' <=> Offline(b)
  BY <1>2, MarkedOffline DEF AnnounceFails
<1>6. Types'
  BY <1>1, <1>2, <1>3, <1>4, <1>5 DEF Types, Stage, Status
<1>7. InHandOnce' /\ OneCycleEach'
  BY <1>1 DEF InHandOnce, OneCycleEach, Pending
<1>8. \A d \in Cycle \ {c} : x \notin excused => x \notin Pending(d)
  BY <1>2, HeartbeatAssumption DEF OneCycleEach, Pending
<1>9. NoneAhead'
  <2> SUFFICES ASSUME NEW d \in Cycle, NEW a \in Address, Offline(a)', a \notin excused
               PROVE  /\ a \notin todo[d]
                      /\ checking[d] = a => stage'[d] \in {"announcing offline", "pausing"}
    BY <1>1 DEF NoneAhead
  <2>1. CASE a = x /\ d = c
    BY <2>1, <1>3 DEF InHandOnce, Types
  <2>2. CASE a = x /\ d # c
    BY <2>2, <1>2, <1>8, HeartbeatAssumption DEF Pending
  <2>3. CASE a # x
    BY <2>3, <1>3, <1>5 DEF NoneAhead, Types
  <2> QED
    BY <2>1, <2>2, <2>3
<1>10. ChannelKnowsOffline'
  <2> SUFFICES ASSUME NEW a \in Address, Offline(a)', a \notin excused
               PROVE  \/ announced'[a] = "offline"
                      \/ \E d \in Cycle : checking[d] = a /\ stage'[d] = "announcing offline"
    BY <1>1 DEF ChannelKnowsOffline
  <2>1. CASE a = x
    BY <2>1, <1>3 DEF Types
  <2>2. CASE a # x
    <3>1. announced'[a] = announced[a] /\ Offline(a)
      BY <2>2, <1>4, <1>5 DEF Types
    <3> QED
      BY <2>2, <3>1, <1>3 DEF ChannelKnowsOffline, Types
  <2> QED
    BY <2>1, <2>2
<1> QED
  BY <1>6, <1>7, <1>9, <1>10

\* A cycle that aborts excuses the device it had in hand.
LEMMA CycleAbortsKeeps ==
  ASSUME IInv, NEW c \in Cycle, CycleAborts(c)
  PROVE  IInv'
<1> USE DEF IInv
<1> DEFINE x == checking[c]
<1>1. UNCHANGED devices /\ excused' = excused \cup {x}
  BY DEF CycleAborts, registry
<1>2. stage[c] = "announcing offline" /\ x \in Address
  BY DEF CycleAborts, Types
<1>3. /\ stage' = [stage EXCEPT ![c] = "idle"]
      /\ checking' = [checking EXCEPT ![c] = Nobody]
      /\ todo' = [todo EXCEPT ![c] = {}]
  BY DEF CycleAborts
<1>4. PICK s \in {announced[x], "offline"} : announced' = [announced EXCEPT ![x] = s]
  BY DEF CycleAborts
<1>5. Types'
  BY <1>1, <1>2, <1>3, <1>4 DEF Types, Stage, Status
<1>6. InHandOnce' /\ OneCycleEach'
  BY <1>1, <1>3, HeartbeatAssumption DEF InHandOnce, OneCycleEach, Pending, Types
<1>7. \A a \in Address : Offline(a)' <=> Offline(a)
  BY <1>1 DEF Offline, Registry!Known
<1>8. NoneAhead'
  BY <1>1, <1>3, <1>7, HeartbeatAssumption DEF NoneAhead, Types
<1>9. ChannelKnowsOffline'
  <2> SUFFICES ASSUME NEW a \in Address, Offline(a), a \notin excused, a # x
               PROVE  \/ announced'[a] = "offline"
                      \/ \E d \in Cycle : checking'[d] = a /\ stage'[d] = "announcing offline"
    BY <1>1, <1>7 DEF ChannelKnowsOffline
  <2> QED
    BY <1>3, <1>4 DEF ChannelKnowsOffline, Types
<1> QED
  BY <1>5, <1>6, <1>8, <1>9

\* Frames make devices online, a restart forgets them: neither makes one offline.
LEMMA EnvironmentKeeps ==
  ASSUME IInv, (\E a \in Address : DeviceFrame(a)) \/ Crash
  PROVE  IInv'
<1> USE DEF IInv
<1>1. CASE \E a \in Address : DeviceFrame(a)
  <2>1. /\ devices' \in [Address -> Registry!Device \cup {Absent}]
        /\ \A b \in Address : Offline(b)' => Offline(b)
    BY <1>1, FrameReceived DEF DeviceFrame
  <2>2. UNCHANGED <<stage, checking, todo, announced, excused>>
    BY <1>1 DEF DeviceFrame
  <2>3. Types' /\ InHandOnce' /\ OneCycleEach'
    BY <2>1, <2>2 DEF Types, InHandOnce, OneCycleEach, Pending
  <2>4. NoneAhead' /\ ChannelKnowsOffline'
    BY <2>1, <2>2 DEF NoneAhead, ChannelKnowsOffline
  <2> QED
    BY <2>3, <2>4
<1>2. CASE Crash
  <2>1. \A a \in Address : ~Offline(a)'
    BY <1>2 DEF Crash, Registry!Restart, Offline, Registry!Known
  <2>2. Types'
    BY <1>2 DEF Crash, Registry!Restart, Types, Stage
  <2>3. InHandOnce' /\ OneCycleEach'
    BY <1>2 DEF Crash, InHandOnce, OneCycleEach, Pending
  <2> QED
    BY <2>1, <2>2, <2>3 DEF NoneAhead, ChannelKnowsOffline
<1> QED
  BY <1>1, <1>2

\* Every step keeps the invariant.
LEMMA InvStep == IInv /\ [Next]_vars => IInv'
<1> SUFFICES ASSUME IInv, [Next]_vars
             PROVE  IInv'
  OBVIOUS
<1>1. ASSUME NEW c \in Cycle, Tick(c) PROVE IInv'
  BY <1>1, TickKeeps
<1>2. ASSUME NEW c \in Cycle, Proceed(c) PROVE IInv'
  BY <1>2, StageMoves, AnnounceFailsKeeps, CycleAbortsKeeps, PauseOverKeeps DEF Proceed
<1>3. CASE (\E a \in Address : DeviceFrame(a)) \/ Crash
  BY <1>3, EnvironmentKeeps
<1>4. CASE UNCHANGED vars
  <2>1. \A a \in Address : Offline(a)' <=> Offline(a)
    BY <1>4 DEF vars, registry, Offline, Registry!Known
  <2>2. Types' /\ InHandOnce' /\ OneCycleEach'
    BY <1>4 DEF vars, registry, IInv, Types, InHandOnce, OneCycleEach, Pending
  <2>3. NoneAhead' /\ ChannelKnowsOffline'
    BY <1>4, <2>1 DEF vars, IInv, NoneAhead, ChannelKnowsOffline
  <2> QED
    BY <2>2, <2>3 DEF IInv
<1> QED
  BY <1>1, <1>2, <1>3, <1>4 DEF Next

\* Whoever listens to the heartbeat channel knows of every device that is offline
\* in the registry, publication failures and overlapping cycles apart.
THEOREM ListenersKnowOffline == Spec => []ChannelKnowsOffline
<1>1. Init => IInv
  BY InvInit
<1>2. IInv /\ [Next]_vars => IInv'
  BY InvStep
<1>3. IInv => ChannelKnowsOffline
  BY DEF IInv
<1> QED
  BY <1>1, <1>2, <1>3, PTL DEF Spec
-----------------------------------------------------------------------------
\* Turning to the next device keeps the types of the cycles.
LEMMA TurnKeepsTypes ==
  ASSUME TypeOK, NEW c \in Cycle, NEW rest \in SUBSET Address, CheckNext(c, rest)
  PROVE  /\ stage' \in [Cycle -> Stage]
         /\ checking' \in [Cycle -> Address \cup {Nobody}]
         /\ \A d \in Cycle : stage'[d] # "idle" <=> checking'[d] # Nobody
         /\ todo' \in [Cycle -> SUBSET Address]
<1>1. CASE rest = {}
  BY <1>1 DEF TypeOK, Stage, CheckNext
<1>2. CASE rest # {}
  <2>1. PICK a \in rest :
          /\ stage' = [stage EXCEPT ![c] = "between requests"]
          /\ checking' = [checking EXCEPT ![c] = a]
          /\ todo' = [todo EXCEPT ![c] = rest \ {a}]
    BY <1>2 DEF CheckNext
  <2>2. a \in Address /\ a # Nobody
    BY HeartbeatAssumption
  <2>3. stage' \in [Cycle -> Stage] /\ checking' \in [Cycle -> Address \cup {Nobody}]
    BY <2>1, <2>2 DEF TypeOK, Stage
  <2>4. todo' \in [Cycle -> SUBSET Address]
    BY <2>1 DEF TypeOK
  <2>5. \A d \in Cycle : stage'[d] # "idle" <=> checking'[d] # Nobody
    BY <2>1, <2>2 DEF TypeOK
  <2> QED
    BY <2>3, <2>4, <2>5
<1> QED
  BY <1>1, <1>2

\* A cycle that goes on keeps the types.
LEMMA ProceedKeepsTypes ==
  ASSUME TypeOK, NEW c \in Cycle, Proceed(c)
  PROVE  TypeOK'
<1>1. UNCHANGED bounds
  BY DEF Proceed, RequestState, Announced, AnnounceFails, AnnouncedOffline, CycleAborts, PauseOver
<1>2. /\ stage' \in [Cycle -> Stage]
      /\ checking' \in [Cycle -> Address \cup {Nobody}]
      /\ \A d \in Cycle : stage'[d] # "idle" <=> checking'[d] # Nobody
      /\ todo' \in [Cycle -> SUBSET Address]
  <2>1. CASE PauseOver(c)
    BY <2>1, TurnKeepsTypes DEF PauseOver, TypeOK
  <2>2. CASE ~PauseOver(c)
    BY <2>2 DEF Proceed, RequestState, Announced, AnnounceFails, AnnouncedOffline, CycleAborts,
       TypeOK, Stage
  <2> QED
    BY <2>1, <2>2
<1>3. checking[c] \in Address
  BY DEF Proceed, RequestState, Announced, AnnounceFails, AnnouncedOffline, CycleAborts, PauseOver,
     TypeOK
<1>4. announced' \in [Address -> Status]
  <2>1. \/ announced' = announced
        \/ \E s \in Status : announced' = [announced EXCEPT ![checking[c]] = s]
    BY <1>3 DEF Proceed, RequestState, Announced, AnnounceFails, AnnouncedOffline, CycleAborts,
       PauseOver, TypeOK, Status
  <2> QED
    BY <2>1 DEF TypeOK
<1>5. excused' \subseteq Address
  BY <1>3 DEF Proceed, RequestState, Announced, AnnounceFails, AnnouncedOffline, CycleAborts,
     PauseOver, TypeOK
<1>6. silent' \in [Address -> 0 .. 2]
  <2>1. CASE PauseOver(c)
    <3>1. silent[checking[c]] \in 0 .. 2
      BY <1>3 DEF TypeOK
    <3>2. (IF silent[checking[c]] < 2 THEN silent[checking[c]] + 1 ELSE silent[checking[c]]) \in 0 .. 2
      BY <3>1
    <3>3. PICK n \in 0 .. 2 : silent' = [silent EXCEPT ![checking[c]] = n]
      BY <2>1, <3>2 DEF PauseOver
    <3> QED
      BY <3>3 DEF TypeOK
  <2>2. CASE ~PauseOver(c)
    BY <2>2 DEF Proceed, RequestState, Announced, AnnounceFails, AnnouncedOffline, CycleAborts,
       TypeOK
  <2> QED
    BY <2>1, <2>2
<1> QED
  BY <1>1, <1>2, <1>4, <1>5, <1>6 DEF TypeOK, bounds

\* Every step keeps the types.
LEMMA TypeStep == TypeOK /\ [Next]_vars => TypeOK'
<1> SUFFICES ASSUME TypeOK, [Next]_vars
             PROVE  TypeOK'
  OBVIOUS
<1>1. ASSUME NEW c \in Cycle, Tick(c) PROVE TypeOK'
  <2>1. Snapshot \in SUBSET Address
    BY DEF Snapshot
  <2>2. ticks' \in 0 .. MaxTicks
    BY <1>1, HeartbeatAssumption DEF Tick, TypeOK
  <2>3. excused' = excused \cup {a \in Snapshot : \E d \in Cycle : a \in Pending(d)}
    BY <1>1 DEF Tick
  <2>4. excused' \subseteq Address
    BY <2>1, <2>3 DEF TypeOK
  <2> QED
    BY <1>1, <2>1, <2>2, <2>4, TurnKeepsTypes DEF Tick, TypeOK
<1>2. ASSUME NEW c \in Cycle, Proceed(c) PROVE TypeOK'
  BY <1>2, ProceedKeepsTypes
<1>3. ASSUME NEW a \in Address, DeviceFrame(a) PROVE TypeOK'
  <2>1. frames' \in 0 .. MaxFrames /\ MaxFrames \in Nat
    BY <1>3, HeartbeatAssumption DEF DeviceFrame, TypeOK
  <2>2. silent' = [silent EXCEPT ![a] = 0]
    BY <1>3 DEF DeviceFrame
  <2>3. silent' \in [Address -> 0 .. 2]
    BY <2>2 DEF TypeOK
  <2>4. UNCHANGED <<stage, checking, todo, announced, excused, ticks, crashes>>
    BY <1>3 DEF DeviceFrame
  <2> QED
    BY <2>1, <2>3, <2>4 DEF TypeOK
<1>4. CASE Crash
  <2>1. crashes' \in 0 .. MaxCrashes
    BY <1>4, HeartbeatAssumption DEF Crash, TypeOK
  <2>2. /\ stage' \in [Cycle -> Stage]
        /\ checking' \in [Cycle -> Address \cup {Nobody}]
        /\ \A c \in Cycle : stage'[c] = "idle" /\ checking'[c] = Nobody
        /\ todo' \in [Cycle -> SUBSET Address]
    BY <1>4 DEF Crash, Stage
  <2>3. UNCHANGED <<announced, excused, silent, ticks, frames>>
    BY <1>4 DEF Crash
  <2> QED
    BY <2>1, <2>2, <2>3 DEF TypeOK
<1>5. CASE UNCHANGED vars
  BY <1>5 DEF vars, bounds, TypeOK
<1> QED
  BY <1>1, <1>2, <1>3, <1>4, <1>5 DEF Next

\* A cycle has a device in hand exactly while it is under way.
THEOREM TypeCorrect == Spec => []TypeOK
<1>1. Init => TypeOK
  BY HeartbeatAssumption DEF Init, TypeOK, Stage, Status
<1> QED
  BY <1>1, TypeStep, PTL DEF Spec

-----------------------------------------------------------------------------
\* The steps a cycle has left: those of the device in hand, and at most five for
\* each device ahead (request, announce, announce offline, pause, turn).
StepsInHand(s) ==
  CASE s = "between requests" -> 4
    [] s = "announcing" -> 3
    [] s = "announcing offline" -> 2
    [] s = "pausing" -> 1
    [] s = "idle" -> 0
StepsLeft(c) == StepsInHand(stage[c]) + 5 * Cardinality(todo[c])

\* Each step of a cycle leaves it less to do, and whatever else happens, a cycle
\* under way is given nothing more.
CyclesShorten ==
  \A c \in Cycle :
    /\ Proceed(c) => StepsLeft(c)' < StepsLeft(c)
    /\ stage[c] # "idle" => StepsLeft(c)' <= StepsLeft(c)

\* The values of StepsInHand, one by one.
LEMMA StepsValues ==
  /\ StepsInHand("between requests") = 4
  /\ StepsInHand("announcing") = 3
  /\ StepsInHand("announcing offline") = 2
  /\ StepsInHand("pausing") = 1
  /\ StepsInHand("idle") = 0
<1>1. StepsInHand("between requests") = 4
  BY Zenon DEF StepsInHand
<1>2. StepsInHand("announcing") = 3
  BY Zenon DEF StepsInHand
<1>3. StepsInHand("announcing offline") = 2
  BY Zenon DEF StepsInHand
<1>4. StepsInHand("pausing") = 1
  BY Zenon DEF StepsInHand
<1>5. StepsInHand("idle") = 0
  BY Zenon DEF StepsInHand
<1> QED
  BY <1>1, <1>2, <1>3, <1>4, <1>5, Zenon

\* A snapshot is finite, since addresses are; what is left is a number.
LEMMA LeftIsNumber ==
  ASSUME IsFiniteSet(Address), NEW s \in Stage, NEW rest \in SUBSET Address
  PROVE  /\ IsFiniteSet(rest)
         /\ Cardinality(rest) \in Nat
         /\ StepsInHand(s) \in 0 .. 4
         /\ StepsInHand(s) + 5 * Cardinality(rest) \in Nat
<1>1. IsFiniteSet(rest)
  BY FS_Subset
<1>2. Cardinality(rest) \in Nat
  BY <1>1, FS_CardinalityType
<1>3. StepsInHand(s) \in {0, 1, 2, 3, 4}
  BY StepsValues, Zenon DEF Stage
<1>4. StepsInHand(s) \in 0 .. 4
  BY <1>3
<1> QED
  BY <1>1, <1>2, <1>4

\* A cycle that goes on has less to do, and the others have what they had.
LEMMA ProceedShortens ==
  ASSUME IsFiniteSet(Address), TypeOK, TypeOK', NEW c \in Cycle, Proceed(c)
  PROVE  /\ StepsLeft(c)' < StepsLeft(c)
         /\ \A d \in Cycle : d # c => StepsLeft(d)' = StepsLeft(d)
<1>1. IsFiniteSet(todo[c]) /\ Cardinality(todo[c]) \in Nat
  BY LeftIsNumber DEF TypeOK
<1>2. \A d \in Cycle : d # c => stage'[d] = stage[d] /\ todo'[d] = todo[d]
  <2> SUFFICES ASSUME NEW d \in Cycle, d # c
               PROVE  stage'[d] = stage[d] /\ todo'[d] = todo[d]
    OBVIOUS
  <2>1. CASE PauseOver(c)
    BY <2>1 DEF PauseOver, CheckNext, TypeOK
  <2>2. CASE ~PauseOver(c)
    BY <2>2 DEF Proceed, RequestState, Announced, AnnounceFails, AnnouncedOffline, CycleAborts,
       TypeOK
  <2> QED
    BY <2>1, <2>2
<1>3. ASSUME PauseOver(c) PROVE StepsLeft(c)' < StepsLeft(c)
  <2>1. stage[c] = "pausing" /\ CheckNext(c, todo[c])
    BY <1>3 DEF PauseOver
  <2>2. CASE todo[c] = {}
    <3>1. stage'[c] = "idle" /\ todo'[c] = todo[c]
      BY <2>1, <2>2 DEF CheckNext, TypeOK
    <3>2. StepsInHand(stage[c]) = 1 /\ StepsInHand(stage'[c]) = 0
      BY <2>1, <3>1, StepsValues, Zenon
    <3> QED
      BY <1>1, <3>1, <3>2 DEF StepsLeft
  <2>3. CASE todo[c] # {}
    <3>1. PICK a \in todo[c] : stage'[c] = "between requests" /\ todo'[c] = todo[c] \ {a}
      BY <2>1, <2>3 DEF CheckNext, TypeOK
    <3>2. Cardinality(todo'[c]) = Cardinality(todo[c]) - 1
      BY <1>1, <3>1, FS_RemoveElement
    <3>3. StepsInHand(stage[c]) = 1 /\ StepsInHand(stage'[c]) = 4
      BY <2>1, <3>1, StepsValues, Zenon
    <3> QED
      BY <1>1, <3>2, <3>3 DEF StepsLeft
  <2> QED
    BY <2>2, <2>3
<1>4. ASSUME CycleAborts(c) PROVE StepsLeft(c)' < StepsLeft(c)
  <2>1. stage[c] = "announcing offline" /\ stage'[c] = "idle" /\ todo'[c] = {}
    BY <1>4 DEF CycleAborts, TypeOK
  <2>2. Cardinality(todo'[c]) = 0
    BY <2>1, FS_EmptySet
  <2>3. StepsInHand(stage[c]) = 2 /\ StepsInHand(stage'[c]) = 0
    BY <2>1, StepsValues, Zenon
  <2> QED
    BY <1>1, <2>2, <2>3 DEF StepsLeft
<1>5. ASSUME RequestState(c) \/ Announced(c) \/ AnnounceFails(c) \/ AnnouncedOffline(c)
      PROVE  StepsLeft(c)' < StepsLeft(c)
  <2>1. /\ todo'[c] = todo[c]
        /\ \/ stage[c] = "between requests" /\ stage'[c] = "announcing"
           \/ stage[c] = "announcing" /\ stage'[c] \in {"pausing", "announcing offline"}
           \/ stage[c] = "announcing offline" /\ stage'[c] = "pausing"
    BY <1>5 DEF RequestState, Announced, AnnounceFails, AnnouncedOffline, TypeOK
  <2>2. \/ StepsInHand(stage[c]) = 4 /\ StepsInHand(stage'[c]) = 3
        \/ StepsInHand(stage[c]) = 3 /\ StepsInHand(stage'[c]) \in {1, 2}
        \/ StepsInHand(stage[c]) = 2 /\ StepsInHand(stage'[c]) = 1
    BY <2>1, StepsValues, Zenon
  <2>3. todo'[c] = todo[c]
    BY <2>1
  <2> QED
    BY <1>1, <2>2, <2>3 DEF StepsLeft
<1> QED
  BY <1>2, <1>3, <1>4, <1>5 DEF Proceed, StepsLeft

\* Every step shortens the cycle that takes it and lengthens none under way.
LEMMA StepShortens ==
  ASSUME IsFiniteSet(Address), TypeOK, TypeOK', [Next]_vars
  PROVE  CyclesShorten
<1>1. \A c \in Cycle : StepsLeft(c) \in Nat
  BY LeftIsNumber DEF StepsLeft, TypeOK
<1>2. SUFFICES ASSUME NEW c \in Cycle, stage[c] # "idle", ~Proceed(c)
               PROVE  StepsLeft(c)' <= StepsLeft(c)
  <2>1. \A c \in Cycle : Proceed(c) => stage[c] # "idle"
    BY DEF Proceed, RequestState, Announced, AnnounceFails, AnnouncedOffline, CycleAborts,
       PauseOver
  <2>2. \A c \in Cycle : Proceed(c) => StepsLeft(c)' < StepsLeft(c)
    BY ProceedShortens
  <2>3. \A c \in Cycle : StepsLeft(c)' \in Nat
    <3>1. \A c \in Cycle : stage'[c] \in Stage /\ todo'[c] \in SUBSET Address
      BY DEF TypeOK
    <3> QED
      BY <3>1, LeftIsNumber DEF StepsLeft
  <2> QED
    BY <1>1, <1>2, <2>2, <2>3 DEF CyclesShorten
<1>3. ASSUME NEW d \in Cycle, Tick(d) PROVE StepsLeft(c)' <= StepsLeft(c)
  <2>1. stage'[c] = stage[c] /\ todo'[c] = todo[c]
    BY <1>2, <1>3 DEF Tick, CheckNext, TypeOK
  <2> QED
    BY <1>1, <2>1 DEF StepsLeft
<1>4. ASSUME NEW d \in Cycle, Proceed(d) PROVE StepsLeft(c)' <= StepsLeft(c)
  BY <1>1, <1>2, <1>4, ProceedShortens
<1>5. CASE Crash
  <2>1. stage'[c] = "idle" /\ todo'[c] = {}
    BY <1>5 DEF Crash
  <2>2. StepsInHand(stage'[c]) = 0
    BY <2>1, StepsValues, Zenon
  <2>3. Cardinality(todo'[c]) = 0
    BY <2>1, FS_EmptySet
  <2>4. StepsLeft(c)' = 0
    BY <2>2, <2>3 DEF StepsLeft
  <2> QED
    BY <1>1, <2>4
<1>6. CASE (\E a \in Address : DeviceFrame(a)) \/ UNCHANGED vars
  <2>1. UNCHANGED <<stage, todo>>
    BY <1>6 DEF DeviceFrame, vars
  <2> QED
    BY <1>1, <2>1 DEF StepsLeft
<1> QED
  BY <1>3, <1>4, <1>5, <1>6 DEF Next

\* The safety half of CyclesEnd: whatever Redis does, a cycle takes at most five
\* steps for each device, no step of it is a repetition, and nothing that happens
\* meanwhile prolongs it.  What is left for fairness is only that it goes on.
THEOREM CyclesAreShort ==
  ASSUME IsFiniteSet(Address)
  PROVE  Spec => /\ []\A c \in Cycle : StepsLeft(c) <= 5 * Cardinality(Address)
                 /\ [][CyclesShorten]_vars
<1>1. ASSUME TypeOK, InHandOnce
      PROVE  \A c \in Cycle : StepsLeft(c) <= 5 * Cardinality(Address)
  <2> SUFFICES ASSUME NEW c \in Cycle
               PROVE  StepsLeft(c) <= 5 * Cardinality(Address)
    OBVIOUS
  <2>1. /\ stage[c] \in Stage /\ todo[c] \in SUBSET Address
        /\ Cardinality(Address) \in Nat /\ Cardinality(todo[c]) \in Nat
        /\ StepsInHand(stage[c]) \in 0 .. 4
    BY <1>1, LeftIsNumber, FS_CardinalityType DEF TypeOK
  <2>2. CASE stage[c] = "idle"
    <3>1. Cardinality(todo[c]) <= Cardinality(Address)
      BY <2>1, FS_Subset
    <3>2. StepsInHand(stage[c]) = 0
      BY <2>2, StepsValues, Zenon
    <3> QED
      BY <2>1, <3>1, <3>2 DEF StepsLeft
  <2>3. CASE stage[c] # "idle"
    <3>1. checking[c] \in Address /\ todo[c] \in SUBSET (Address \ {checking[c]})
      BY <1>1, <2>1, <2>3 DEF TypeOK, InHandOnce
    <3>2. /\ IsFiniteSet(Address \ {checking[c]})
          /\ Cardinality(Address \ {checking[c]}) = Cardinality(Address) - 1
      BY <3>1, FS_RemoveElement
    <3>3. Cardinality(todo[c]) <= Cardinality(Address) - 1
      BY <3>1, <3>2, FS_Subset
    <3> QED
      BY <2>1, <3>3 DEF StepsLeft
  <2> QED
    BY <2>2, <2>3
<1>2. Init => TypeOK
  BY HeartbeatAssumption DEF Init, TypeOK, Stage, Status
<1>3. TypeOK /\ TypeOK' /\ [Next]_vars => CyclesShorten
  BY StepShortens
<1>4. IInv => InHandOnce
  BY DEF IInv
<1>5. TypeOK /\ InHandOnce => \A c \in Cycle : StepsLeft(c) <= 5 * Cardinality(Address)
  BY <1>1
<1> QED
  BY <1>2, <1>3, <1>4, <1>5, InvInit, InvStep, TypeStep, PTL DEF Spec
=============================================================================
