------------------------------ MODULE RetryLoop ------------------------------
(***************************************************************************)
(* The CRC-retry loop of MqttService.  A frame that arrives on a device's  *)
(* INBOX topic is either valid, and then every retry counter of that       *)
(* device is forgotten, or invalid, and then the message is requested      *)
(* again one second later, at most MAX_RETRIES times per (device, message) *)
(* key.  Handlers are async functions the MQTT client does not await: while *)
(* one sleeps, others run, and all of them share the map pendingRetries.   *)
(*                                                                         *)
(* An exchange is one causal chain: a poll or an unsolicited frame, the    *)
(* frame it leads to, the retry that frame causes, the next frame, ...     *)
(***************************************************************************)
EXTENDS Naturals, FiniteSets

CONSTANTS Device,            \* decimal ids that occur in INBOX topics
          MsgId,             \* the 10-bit message ids that occur in frames
          PolledMsg,         \* the ids HeartbeatService asks for (20 and 16)
          Exchange,          \* the chains that may take place
          MaxRetries,        \* MAX_RETRIES
          MaxCrashes         \* bound: restarts of the process

ASSUME RetryAssumption ==
  /\ Device \subseteq Nat
  /\ MsgId \subseteq 0 .. 1023
  /\ PolledMsg \subseteq MsgId
  /\ IsFiniteSet(Exchange)
  /\ MaxRetries \in Nat \ {0}
  /\ MaxCrashes \in Nat

VARIABLES stage,           \* where each exchange is
          key,             \* its retry key: topic device and message id
          pendingRetries,  \* the map; an absent entry reads as 0
          retries,         \* history: retries scheduled for each key
          attempts,        \* history: retries each exchange took
          crashes          \* history: restarts so far

vars == <<stage, key, pendingRetries, retries, attempts, crashes>>

Key == Device \X MsgId
OnWire == {"good", "corrupt", "truncated"}
Ended == {"answered", "abandoned"}
Stage == {"idle", "requested", "sleeping", "dead"} \cup OnWire \cup Ended

\* Histories stop counting one above the largest value a property allows.
Cap == MaxRetries * (Cardinality(Exchange) + MaxCrashes) + 1
CountTo(cap, n) == IF n < cap THEN n + 1 ELSE n

\* writeUInt8 throws a RangeError on an id that needs more than one byte.
FitsInByte(m) == m <= 255

\* The falsy id 0 (the HOST) fails every `if (deviceId)` test.
Truthy(d) == d # 0

Init ==
  /\ stage = [x \in Exchange |-> "idle"]
  /\ key \in [Exchange -> Key]
  /\ pendingRetries = [k \in Key |-> 0]
  /\ retries = [k \in Key |-> 0]
  /\ attempts = [x \in Exchange |-> 0]
  /\ crashes = 0

-----------------------------------------------------------------------------
\* The device and the broker.

\* requestDeviceData by the heartbeat: one command frame to the OUTBOX.
Poll(x) ==
  /\ stage[x] = "idle"
  /\ key[x][2] \in PolledMsg
  /\ stage' = [stage EXCEPT ![x] = "requested"]
  /\ UNCHANGED <<key, pendingRetries, retries, attempts, crashes>>

\* The device publishes a frame, asked to or not.  It arrives whole, with a bad
\* CRC or length, or shorter than the two address bytes.
Emit(x) ==
  /\ stage[x] \in {"idle", "requested"}
  /\ \E s \in OnWire : stage' = [stage EXCEPT ![x] = s]
  /\ UNCHANGED <<key, pendingRetries, retries, attempts, crashes>>

\* The corruption falls on the address bytes: the frame names another message.
CorruptHeader(x) ==
  /\ stage[x] = "corrupt"
  /\ \E m \in MsgId : key' = [key EXCEPT ![x] = <<key[x][1], m>>]
  /\ UNCHANGED <<stage, pendingRetries, retries, attempts, crashes>>

\* The device INBOX is subscribed to twice, by wildcard and by name, so the
\* broker may deliver one frame twice.
Duplicate(x, y) ==
  /\ stage[x] \in OnWire
  /\ stage[y] = "idle"
  /\ stage' = [stage EXCEPT ![y] = stage[x]]
  /\ key' = [key EXCEPT ![y] = key[x]]
  /\ UNCHANGED <<pendingRetries, retries, attempts, crashes>>

\* QoS 0: a request or a frame is lost.
Lose(x) ==
  /\ stage[x] \in OnWire \cup {"requested"}
  /\ stage' = [stage EXCEPT ![x] = "dead"]
  /\ UNCHANGED <<key, pendingRetries, retries, attempts, crashes>>

-----------------------------------------------------------------------------
\* MqttService.

\* Mistake: the prefix test without the separator, "1" also matching "11_20".
ClearRetryCounterByBarePrefix(d) ==
  pendingRetries' = [k \in Key |->
    IF k[1] = d \/ k[1] \div 10 = d THEN 0 ELSE pendingRetries[k]]

\* clearRetryCounter: every entry whose key starts with "<deviceId>_".
ClearRetryCounter(d) ==
  pendingRetries' = [k \in Key |-> IF k[1] = d THEN 0 ELSE pendingRetries[k]]

\* handleMessage, frame valid.
HandleValid(x) ==
  /\ stage[x] = "good"
  /\ stage' = [stage EXCEPT ![x] = "answered"]
  /\ IF Truthy(key[x][1]) THEN ClearRetryCounter(key[x][1])
                          ELSE UNCHANGED pendingRetries
  /\ UNCHANGED <<key, retries, attempts, crashes>>

\* handleMessage, frame invalid and the topic's device id falsy: dropped.
IgnoreInvalid(x) ==
  /\ stage[x] \in {"corrupt", "truncated"}
  /\ ~Truthy(key[x][1])
  /\ stage' = [stage EXCEPT ![x] = "abandoned"]
  /\ UNCHANGED <<key, pendingRetries, retries, attempts, crashes>>

\* handleInvalidFrame throws on readUInt16LE; handleMessage logs the error.
HandleTruncated(x) ==
  /\ stage[x] = "truncated"
  /\ Truthy(key[x][1])
  /\ stage' = [stage EXCEPT ![x] = "dead"]
  /\ UNCHANGED <<key, pendingRetries, retries, attempts, crashes>>

\* Mistake: one retry too many (> for >=).
ScheduleRetryTooOften(x) ==
  /\ stage[x] = "corrupt"
  /\ Truthy(key[x][1])
  /\ pendingRetries[key[x]] <= MaxRetries
  /\ pendingRetries' = [pendingRetries EXCEPT ![key[x]] = @ + 1]
  /\ stage' = [stage EXCEPT ![x] = "sleeping"]
  /\ retries' = [retries EXCEPT ![key[x]] = CountTo(Cap, @)]
  /\ attempts' = [attempts EXCEPT ![x] = CountTo(MaxRetries + 1, @)]
  /\ UNCHANGED <<key, crashes>>

\* Mistake: the incremented count is not stored.
ScheduleRetryUncounted(x) ==
  /\ stage[x] = "corrupt"
  /\ Truthy(key[x][1])
  /\ pendingRetries[key[x]] < MaxRetries
  /\ stage' = [stage EXCEPT ![x] = "sleeping"]
  /\ retries' = [retries EXCEPT ![key[x]] = CountTo(Cap, @)]
  /\ attempts' = [attempts EXCEPT ![x] = CountTo(MaxRetries + 1, @)]
  /\ UNCHANGED <<key, pendingRetries, crashes>>

\* handleInvalidFrame up to the sleep.
ScheduleRetry(x) ==
  /\ stage[x] = "corrupt"
  /\ Truthy(key[x][1])
  /\ pendingRetries[key[x]] < MaxRetries
  /\ pendingRetries' = [pendingRetries EXCEPT ![key[x]] = @ + 1]
  /\ stage' = [stage EXCEPT ![x] = "sleeping"]
  /\ retries' = [retries EXCEPT ![key[x]] = CountTo(Cap, @)]
  /\ attempts' = [attempts EXCEPT ![x] = CountTo(MaxRetries + 1, @)]
  /\ UNCHANGED <<key, crashes>>

\* handleInvalidFrame with the budget of the key used up.
GiveUp(x) ==
  /\ stage[x] = "corrupt"
  /\ Truthy(key[x][1])
  /\ pendingRetries[key[x]] >= MaxRetries
  /\ pendingRetries' = [pendingRetries EXCEPT ![key[x]] = 0]
  /\ stage' = [stage EXCEPT ![x] = "abandoned"]
  /\ UNCHANGED <<key, retries, attempts, crashes>>

\* handleInvalidFrame after the sleep: requestDeviceData sends a new request,
\* or throws while it builds the frame.
RetryDelayElapsed(x) ==
  /\ stage[x] = "sleeping"
  /\ stage' = [stage EXCEPT
                 ![x] = IF FitsInByte(key[x][2]) THEN "requested" ELSE "dead"]
  /\ UNCHANGED <<key, pendingRetries, retries, attempts, crashes>>

\* The process dies and the container restarts it: the map and the pending
\* timers are gone, messages in the network are not.
Crash ==
  /\ crashes < MaxCrashes
  /\ crashes' = crashes + 1
  /\ pendingRetries' = [k \in Key |-> 0]
  /\ stage' = [x \in Exchange |-> IF stage[x] = "sleeping" THEN "dead" ELSE stage[x]]
  /\ UNCHANGED <<key, retries, attempts>>

-----------------------------------------------------------------------------
Deliver(x) ==
  \/ HandleValid(x)
  \/ IgnoreInvalid(x)
  \/ HandleTruncated(x)
  \/ ScheduleRetry(x)
  \/ GiveUp(x)

Next ==
  \/ \E x \in Exchange :
       \/ Poll(x)
       \/ Emit(x)
       \/ CorruptHeader(x)
       \/ \E y \in Exchange : Duplicate(x, y)
       \/ Lose(x)
       \/ Deliver(x)
       \/ RetryDelayElapsed(x)
  \/ Crash

\* Timers fire, and a frame that is not lost reaches its handler.  Nothing is
\* assumed of the device.
Fairness ==
  \A x \in Exchange : WF_vars(Deliver(x)) /\ WF_vars(RetryDelayElapsed(x))

Spec == Init /\ [][Next]_vars /\ Fairness

-----------------------------------------------------------------------------
\* Properties.

\* Type correctness: in particular no counter passes MAX_RETRIES, which the
\* attempt number "n/MAX_RETRIES" that handleInvalidFrame logs relies on.
TypeOK ==
  /\ stage \in [Exchange -> Stage]
  /\ key \in [Exchange -> Key]
  /\ pendingRetries \in [Key -> 0 .. MaxRetries]
  /\ retries \in [Key -> Nat]
  /\ attempts \in [Exchange -> Nat]
  /\ crashes \in Nat

Started(d) == {x \in Exchange : key[x][1] = d /\ stage[x] # "idle"}

\* However the handlers interleave and whatever is lost, duplicated, corrupted
\* or forgotten in a restart, the retries handleInvalidFrame schedules for one
\* (device, message) never exceed MAX_RETRIES for each exchange the device took
\* part in and each restart of the process: retries cannot feed on themselves.
RetryBudget ==
  \A k \in Key :
    retries[k] <= MaxRetries * (Cardinality(Started(k[1])) + crashes)

\* A retry counter goes down only for a reason of its own: a valid frame of that
\* very device (clearRetryCounter: "1_" must not match "11_"), the key used up
\* by an exchange that gave up, or a restart.
CountersIsolated ==
  [][\A k \in Key : pendingRetries'[k] < pendingRetries[k] =>
       \/ crashes' # crashes
       \/ \E x \in Exchange : /\ key[x][1] = k[1]
                              /\ stage[x] = "good"
                              /\ stage'[x] = "answered"
       \/ \E x \in Exchange : /\ key[x] = k
                              /\ pendingRetries[k] = MaxRetries
                              /\ stage'[x] = "abandoned"]_vars

\* handleInvalidFrame does not retry for ever: every exchange ends, or waits for
\* a device that does not answer, from some point on.
RetriesCease ==
  \A x \in Exchange :
    <>[](stage[x] \in {"idle", "requested", "dead"} \cup Ended)

-----------------------------------------------------------------------------
\* What the service says of itself, and does not do.

\* The budget as the log messages of handleInvalidFrame describe it: an exchange
\* nobody interferes with (no other exchange of its device, no restart) is
\* retried at most MAX_RETRIES times.
LoneExchangeBudget ==
  \A x \in Exchange :
    (crashes = 0 /\ Started(key[x][1]) = {x}) => attempts[x] <= MaxRetries
=============================================================================
