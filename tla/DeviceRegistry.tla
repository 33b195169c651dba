---------------------------- MODULE DeviceRegistry ----------------------------
(***************************************************************************)
(* DeviceService: the in-memory registry of devices and the reports of     *)
(* severe faults to the Main Backend.  Every method runs without a break   *)
(* up to its first await; the only one that waits is updateDeviceState,    *)
(* for the answer to reportCriticalError.  Call is the set of concurrent   *)
(* invocations that may be waiting there.                                  *)
(***************************************************************************)
EXTENDS FaultCodes

CONSTANTS Address,       \* device addresses (five bits in a frame)
          FaultCode,     \* the fault codes devices report, {} for none
          ReadySignals,  \* which portN_evse_rdy signals a message carries
          Call,          \* concurrent calls of updateDeviceState
          Absent,        \* no entry in the map
          NoReport       \* no report awaited

VARIABLES devices,       \* the map; Absent where it has no entry
          reporting,     \* per call, the report it awaits the answer of
          attempted      \* history: reports sent to the backend

vars == <<devices, reporting, attempted>>

NoError == {}

StateData == [ready : ReadySignals, fault : FaultCode]
Device == [type : {"EVSE", "HOST"}, online : BOOLEAN, ports : {1, 2}, lastError : FaultCode \cup {NoError}]
Report == [device : Address, fault : FaultCode]

ASSUME RegistryAssumption ==
  /\ Address \subseteq Nat
  /\ FaultCode \subseteq SUBSET Bit
  /\ ReadySignals \subseteq SUBSET {0, 1}
  /\ Absent \notin Device
  /\ NoReport \notin Report

Known(a) == devices[a] # Absent
HasError(a) == Known(a) /\ devices[a].lastError # NoError

\* Mistake: the signals are counted, so a message with neither gives no port.
CountReadySignals(s) ==
  (IF 0 \in s.ready THEN 1 ELSE 0) + (IF 1 \in s.ready THEN 1 ELSE 0)

DetectPortCount(s) == IF {0, 1} \subseteq s.ready THEN 2 ELSE 1

\* The object registerDevice creates: whatever was known of the device is gone.
NewDevice(a, s) ==
  [type |-> IF a = 0 THEN "HOST" ELSE "EVSE",
   online |-> TRUE,
   ports |-> DetectPortCount(s),
   lastError |-> NoError]

Init ==
  /\ devices = [a \in Address |-> Absent]
  /\ reporting = [c \in Call |-> NoReport]
  /\ attempted = {}

-----------------------------------------------------------------------------
RegisterDevice(a, s) ==
  /\ devices' = [devices EXCEPT ![a] = NewDevice(a, s)]
  /\ UNCHANGED <<reporting, attempted>>

\* updateDeviceState of a device the registry does not know: it is registered,
\* and its fault code is not looked at.
UpdateUnknown(a, s) ==
  /\ ~Known(a)
  /\ RegisterDevice(a, s)

\* Mistake: a frame without a fault erases the error shown.
UpdateHealthyErasing(a, s) ==
  /\ Known(a)
  /\ s.fault = {}
  /\ devices' = [devices EXCEPT ![a].online = TRUE, ![a].lastError = NoError]
  /\ UNCHANGED <<reporting, attempted>>

UpdateHealthy(a, s) ==
  /\ Known(a)
  /\ s.fault = {}
  /\ devices' = [devices EXCEPT ![a].online = TRUE]
  /\ UNCHANGED <<reporting, attempted>>

\* handleDeviceError: the error is stored at once; a severe one is reported, and
\* the call waits for the answer.
UpdateFaulty(c, a, s) ==
  /\ Known(a)
  /\ s.fault # {}
  /\ devices' = [devices EXCEPT ![a].online = TRUE, ![a].lastError = s.fault]
  /\ IF Reportable(s.fault)
     THEN LET r == [device |-> a, fault |-> s.fault]
          IN  /\ reporting' = [reporting EXCEPT ![c] = r]
              /\ attempted' = attempted \cup {r}
     ELSE UNCHANGED <<reporting, attempted>>

UpdateDeviceState(c, a, s) ==
  /\ reporting[c] = NoReport
  /\ \/ UpdateUnknown(a, s)
     \/ UpdateHealthy(a, s)
     \/ UpdateFaulty(c, a, s)

\* The answer to reportCriticalError, or its failure: both are only logged.
ReportReturns(c) ==
  /\ reporting[c] # NoReport
  /\ reporting' = [reporting EXCEPT ![c] = NoReport]
  /\ UNCHANGED <<devices, attempted>>

MarkDeviceOffline(a) ==
  /\ Known(a)
  /\ devices' = [devices EXCEPT ![a].online = FALSE]
  /\ UNCHANGED <<reporting, attempted>>

ClearDeviceError(a) ==
  /\ Known(a)
  /\ devices' = [devices EXCEPT ![a].lastError = NoError]
  /\ UNCHANGED <<reporting, attempted>>

RemoveDevice(a) ==
  /\ Known(a)
  /\ devices' = [devices EXCEPT ![a] = Absent]
  /\ UNCHANGED <<reporting, attempted>>

\* A restart of the process: the map is empty and no call is waiting.
Restart ==
  /\ devices' = [a \in Address |-> Absent]
  /\ reporting' = [c \in Call |-> NoReport]
  /\ UNCHANGED attempted

Next ==
  \/ \E a \in Address :
       \/ \E s \in StateData :
            \/ RegisterDevice(a, s)
            \/ \E c \in Call : UpdateDeviceState(c, a, s)
       \/ MarkDeviceOffline(a)
       \/ ClearDeviceError(a)
       \/ RemoveDevice(a)
  \/ \E c \in Call : ReportReturns(c)
  \/ Restart

Spec == Init /\ [][Next]_vars

-----------------------------------------------------------------------------
\* Type correctness of the registry and of the reports under way.
TypeOK ==
  /\ devices \in [Address -> Device \cup {Absent}]
  /\ reporting \in [Call -> Report \cup {NoReport}]
  /\ attempted \subseteq Report

\* The error types parseErrorCode names that are not worth an alarm.
SilentTypes == {"COMMUNICATION_ERROR", "PILOT_FAULT", "UNKNOWN_ERROR"}

\* The two tables of handleDeviceError agree, and nothing gets between them: a
\* device that shows an error of any but the silent types has had that error
\* reported to the backend, and the backend hears of no others.
AlarmsMatchErrors ==
  /\ \A a \in Address :
       (HasError(a) /\ ~(ParseErrorCode(devices[a].lastError) \subseteq SilentTypes))
         => [device |-> a, fault |-> devices[a].lastError] \in attempted
  /\ \A r \in attempted : ~(ParseErrorCode(r.fault) \subseteq SilentTypes)

\* The last error of a device outlives the frames that follow: updateDeviceState
\* may replace it by another, never erase it, and marking the device offline
\* leaves it alone.  Errors end with clearDeviceError.
ErrorOutlivesFrames ==
  [][\A a \in Address :
       /\ \A c \in Call, s \in StateData :
            UpdateDeviceState(c, a, s) /\ HasError(a) => HasError(a)'
       /\ MarkDeviceOffline(a) /\ HasError(a) => HasError(a)']_vars

-----------------------------------------------------------------------------
\* What the DBC file says, and the code does not do.

\* A bit that the DBC file names is shown under that name.
ErrorsNamedByDbc ==
  \A a \in Address :
    HasError(a) =>
      \A b \in devices[a].lastError \cap DOMAIN DbcMeaning :
        DbcMeaning[b] \in ParseErrorCode(devices[a].lastError)
=============================================================================
