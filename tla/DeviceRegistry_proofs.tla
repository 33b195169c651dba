------------------------ MODULE DeviceRegistry_proofs ------------------------
(***************************************************************************)
(* Proofs about DeviceRegistry, for every set of fault codes (all 2^16 of  *)
(* them included), devices and concurrent calls.  The heart is MasksAgree: *)
(* the bit masks of determineSeverity and the names of parseErrorCode      *)
(* single out the same codes.                                              *)
(***************************************************************************)
EXTENDS DeviceRegistry, TLAPS

\* Of the eleven named bits only 7 and 9 have silent names.
LEMMA ErrorNames ==
  /\ DOMAIN ErrorName = 0 .. 10
  /\ \A b \in 0 .. 10 : ErrorName[b] \in SilentTypes <=> b \in {7, 9}
<1>1. DOMAIN ErrorName = 0 .. 10
  BY DEF ErrorName
<1>2. /\ ErrorName[0] = "OVERCURRENT_L1" /\ ErrorName[1] = "OVERCURRENT_L2"
      /\ ErrorName[2] = "OVERCURRENT_L3" /\ ErrorName[3] = "OVERVOLTAGE"
      /\ ErrorName[4] = "UNDERVOLTAGE"   /\ ErrorName[5] = "OVERTEMPERATURE"
      /\ ErrorName[6] = "GROUND_FAULT"   /\ ErrorName[7] = "COMMUNICATION_ERROR"
      /\ ErrorName[8] = "CONTACTOR_FAULT" /\ ErrorName[9] = "PILOT_FAULT"
      /\ ErrorName[10] = "EMERGENCY_STOP"
  BY DEF ErrorName
<1>3. ASSUME NEW b \in 0 .. 10
      PROVE  ErrorName[b] \in SilentTypes <=> b \in {7, 9}
  <2>1. b \in {0, 1, 2, 3, 4, 5, 6, 7, 8, 9, 10}
    OBVIOUS
  <2> QED
    BY <1>2, <2>1 DEF SilentTypes
<1> QED
  BY <1>1, <1>3

\* A code is reported to the backend exactly when it names an error worth one.
THEOREM MasksAgree ==
  ASSUME NEW code \in SUBSET Bit
  PROVE  Reportable(code) <=> ~(ParseErrorCode(code) \subseteq SilentTypes)
<1> DEFINE Severe == CriticalMask \cup HighMask
<1>1. Severe = (0 .. 10) \ {7, 9}
  BY DEF CriticalMask, HighMask
<1>2. Reportable(code) <=> code \cap Severe # {}
  BY DEF Reportable, DetermineSeverity
<1>3. CASE code \cap DOMAIN ErrorName = {}
  <2>1. ParseErrorCode(code) = {"UNKNOWN_ERROR"}
    BY <1>3 DEF ParseErrorCode
  <2>2. code \cap Severe = {}
    BY <1>1, <1>3, ErrorNames
  <2> QED
    BY <1>2, <2>1, <2>2 DEF SilentTypes
<1>4. CASE code \cap DOMAIN ErrorName # {}
  <2>1. ParseErrorCode(code) = {ErrorName[b] : b \in code \cap (0 .. 10)}
    BY <1>4, ErrorNames DEF ParseErrorCode
  <2>2. ParseErrorCode(code) \subseteq SilentTypes
          <=> \A b \in code \cap (0 .. 10) : b \in {7, 9}
    BY <2>1, ErrorNames
  <2> QED
    BY <1>1, <1>2, <2>2
<1> QED
  BY <1>3, <1>4

-----------------------------------------------------------------------------
\* What registerDevice creates is a device.
LEMMA NewDeviceType ==
  ASSUME NEW a \in Address, NEW s \in StateData
  PROVE  NewDevice(a, s) \in Device
BY DEF NewDevice, Device, DetectPortCount

\* The empty registry has its type.
LEMMA TypeInit == Init => TypeOK
BY DEF Init, TypeOK

\* The registry's updates keep its entries devices.
LEMMA UpdateType ==
  ASSUME TypeOK, NEW a \in Address, Known(a)
  PROVE  /\ devices[a] \in Device
         /\ [devices EXCEPT ![a].online = TRUE] \in [Address -> Device \cup {Absent}]
         /\ [devices EXCEPT ![a].online = FALSE] \in [Address -> Device \cup {Absent}]
         /\ [devices EXCEPT ![a].lastError = NoError] \in [Address -> Device \cup {Absent}]
         /\ \A f \in FaultCode :
              [devices EXCEPT ![a].online = TRUE, ![a].lastError = f]
                \in [Address -> Device \cup {Absent}]
<1>1. devices[a] \in Device
  BY DEF TypeOK, Known
<1>2. /\ [devices[a] EXCEPT !.online = TRUE] \in Device
      /\ [devices[a] EXCEPT !.online = FALSE] \in Device
      /\ [devices[a] EXCEPT !.lastError = NoError] \in Device
  BY <1>1 DEF Device
<1>3. \A f \in FaultCode : [devices[a] EXCEPT !.online = TRUE, !.lastError = f] \in Device
  BY <1>1 DEF Device
<1> QED
  BY <1>1, <1>2, <1>3 DEF TypeOK

\* Type correctness of DeviceRegistry is preserved by every step.
LEMMA TypeStep == TypeOK /\ [Next]_vars => TypeOK'
<1> SUFFICES ASSUME TypeOK, [Next]_vars
             PROVE  TypeOK'
  OBVIOUS
<1>1. CASE UNCHANGED vars
  BY <1>1 DEF vars, TypeOK
<1>2. ASSUME NEW a \in Address, NEW s \in StateData, RegisterDevice(a, s)
      PROVE  TypeOK'
  BY <1>2, NewDeviceType DEF RegisterDevice, TypeOK
<1>3. ASSUME NEW a \in Address, NEW s \in StateData, NEW c \in Call, UpdateDeviceState(c, a, s)
      PROVE  TypeOK'
  <2>1. CASE UpdateUnknown(a, s)
    BY <1>2, <2>1 DEF UpdateUnknown
  <2>2. CASE UpdateHealthy(a, s)
    BY <2>2, UpdateType DEF UpdateHealthy, TypeOK
  <2>3. CASE UpdateFaulty(c, a, s)
    <3>1. s.fault \in FaultCode
      BY DEF StateData
    <3>2. devices' \in [Address -> Device \cup {Absent}]
      BY <2>3, <3>1, UpdateType DEF UpdateFaulty
    <3>3. [device |-> a, fault |-> s.fault] \in Report
      BY <3>1 DEF Report
    <3>4. reporting' \in [Call -> Report \cup {NoReport}] /\ attempted' \subseteq Report
      BY <2>3, <3>3 DEF UpdateFaulty, TypeOK
    <3> QED
      BY <3>2, <3>4 DEF TypeOK
  <2> QED
    BY <1>3, <2>1, <2>2, <2>3 DEF UpdateDeviceState
<1>4. ASSUME NEW a \in Address, MarkDeviceOffline(a) \/ ClearDeviceError(a) \/ RemoveDevice(a)
      PROVE  TypeOK'
  BY <1>4, UpdateType DEF MarkDeviceOffline, ClearDeviceError, RemoveDevice, TypeOK
<1>5. ASSUME NEW c \in Call, ReportReturns(c)
      PROVE  TypeOK'
  BY <1>5 DEF ReportReturns, TypeOK
<1>6. CASE Restart
  BY <1>6 DEF Restart, TypeOK
<1> QED
  BY <1>1, <1>2, <1>3, <1>4, <1>5, <1>6 DEF Next

\* Type correctness of the registry, for every instance.
THEOREM TypeCorrect == Spec => []TypeOK
<1> QED
  BY TypeInit, TypeStep, PTL DEF Spec

-----------------------------------------------------------------------------
\* An error that is not new to its device, or is silent, needs no new report.
LEMMA KeptErrors ==
  ASSUME TypeOK, AlarmsMatchErrors, attempted' = attempted,
         \A a \in Address :
           HasError(a)' => \/ HasError(a) /\ devices'[a].lastError = devices[a].lastError
                           \/ ParseErrorCode(devices'[a].lastError) \subseteq SilentTypes
  PROVE  AlarmsMatchErrors'
BY DEF AlarmsMatchErrors

\* Every step keeps errors and alarms in agreement.
LEMMA AlarmStep == TypeOK /\ AlarmsMatchErrors /\ [Next]_vars => AlarmsMatchErrors'
<1> SUFFICES ASSUME TypeOK, AlarmsMatchErrors, [Next]_vars
             PROVE  AlarmsMatchErrors'
  OBVIOUS
<1>1. CASE UNCHANGED vars
  BY <1>1, KeptErrors DEF vars, HasError, Known
<1>2. ASSUME NEW a \in Address, NEW s \in StateData, RegisterDevice(a, s)
      PROVE  AlarmsMatchErrors'
  <2>1. ~HasError(a)'
    BY <1>2 DEF RegisterDevice, HasError, NewDevice, TypeOK
  <2>2. \A b \in Address : b # a => devices'[b] = devices[b]
    BY <1>2 DEF RegisterDevice, TypeOK
  <2> QED
    BY <1>2, <2>1, <2>2, KeptErrors DEF RegisterDevice, HasError, Known
<1>3. ASSUME NEW a \in Address, NEW s \in StateData, NEW c \in Call, UpdateDeviceState(c, a, s)
      PROVE  AlarmsMatchErrors'
  <2>1. CASE UpdateUnknown(a, s)
    BY <1>2, <2>1 DEF UpdateUnknown
  <2>2. CASE UpdateHealthy(a, s)
    <3>1. \A b \in Address : HasError(b)' =>
            HasError(b) /\ devices'[b].lastError = devices[b].lastError
      BY <2>2, UpdateType DEF UpdateHealthy, HasError, Known, TypeOK, Device
    <3> QED
      BY <2>2, <3>1, KeptErrors DEF UpdateHealthy
  <2>3. CASE UpdateFaulty(c, a, s)
    <3>1. s.fault \in FaultCode /\ s.fault \in SUBSET Bit
      BY RegistryAssumption DEF StateData
    <3>2. devices'[a].lastError = s.fault
      BY <2>3, UpdateType DEF UpdateFaulty, TypeOK, Device
    <3>3. \A b \in Address : b # a => devices'[b] = devices[b]
      BY <2>3 DEF UpdateFaulty, TypeOK
    <3>4. CASE Reportable(s.fault)
      <4>1. attempted' = attempted \cup {[device |-> a, fault |-> s.fault]}
        BY <2>3, <3>4 DEF UpdateFaulty
      <4>2. ~(ParseErrorCode(s.fault) \subseteq SilentTypes)
        BY <3>1, <3>4, MasksAgree
      <4>3. ASSUME NEW b \in Address, HasError(b)',
                   ~(ParseErrorCode(devices'[b].lastError) \subseteq SilentTypes)
            PROVE  [device |-> b, fault |-> devices'[b].lastError] \in attempted'
        BY <3>2, <3>3, <4>1, <4>3 DEF AlarmsMatchErrors, HasError, Known
      <4>4. ASSUME NEW r \in attempted'
            PROVE  ~(ParseErrorCode(r.fault) \subseteq SilentTypes)
        BY <4>1, <4>2 DEF AlarmsMatchErrors
      <4> QED
        BY <4>3, <4>4 DEF AlarmsMatchErrors
    <3>5. CASE ~Reportable(s.fault)
      <4>1. attempted' = attempted
        BY <2>3, <3>5 DEF UpdateFaulty
      <4>2. ParseErrorCode(s.fault) \subseteq SilentTypes
        BY <3>1, <3>5, MasksAgree
      <4> QED
        BY <3>2, <3>3, <4>1, <4>2, KeptErrors DEF HasError, Known
    <3> QED
      BY <3>4, <3>5
  <2> QED
    BY <1>3, <2>1, <2>2, <2>3 DEF UpdateDeviceState
<1>4. ASSUME NEW a \in Address, MarkDeviceOffline(a) \/ ClearDeviceError(a) \/ RemoveDevice(a)
      PROVE  AlarmsMatchErrors'
  <2>1. \A b \in Address : b # a => devices'[b] = devices[b]
    BY <1>4 DEF MarkDeviceOffline, ClearDeviceError, RemoveDevice, TypeOK
  <2>2. CASE MarkDeviceOffline(a)
    <3>1. devices[a] \in Device /\ devices'[a] = [devices[a] EXCEPT !.online = FALSE]
      BY <2>2, UpdateType DEF MarkDeviceOffline, TypeOK
    <3>2. devices'[a].lastError = devices[a].lastError
      BY <3>1 DEF Device
    <3> QED
      BY <2>1, <2>2, <3>2, KeptErrors DEF MarkDeviceOffline, HasError, Known
  <2>3. CASE ClearDeviceError(a)
    <3>1. devices[a] \in Device /\ devices'[a] = [devices[a] EXCEPT !.lastError = NoError]
      BY <2>3, UpdateType DEF ClearDeviceError, TypeOK
    <3>2. ~HasError(a)'
      BY <3>1 DEF Device, HasError
    <3> QED
      BY <2>1, <2>3, <3>2, KeptErrors DEF ClearDeviceError, HasError, Known
  <2>4. CASE RemoveDevice(a)
    <3>1. ~HasError(a)'
      BY <2>4 DEF RemoveDevice, HasError, Known, TypeOK
    <3> QED
      BY <2>1, <2>4, <3>1, KeptErrors DEF RemoveDevice, HasError, Known
  <2> QED
    BY <1>4, <2>2, <2>3, <2>4
<1>5. ASSUME NEW c \in Call, ReportReturns(c)
      PROVE  AlarmsMatchErrors'
  BY <1>5, KeptErrors DEF ReportReturns, HasError, Known
<1>6. CASE Restart
  BY <1>6, KeptErrors DEF Restart, HasError, Known
<1> QED
  BY <1>1, <1>2, <1>3, <1>4, <1>5, <1>6 DEF Next

\* Every severe error the registry shows has been reported to the backend, and
\* only severe ones have: for all 16-bit codes, devices and interleavings.
THEOREM AlarmsMatch == Spec => []AlarmsMatchErrors
<1>1. Init => AlarmsMatchErrors
  BY DEF Init, AlarmsMatchErrors, HasError, Known
<1> QED
  BY <1>1, TypeInit, TypeStep, AlarmStep, PTL DEF Spec

-----------------------------------------------------------------------------
\* updateDeviceState with a fault puts a new error in the place of the old, without
\* one it leaves the old error alone.
LEMMA UpdateKeepsError ==
  ASSUME TypeOK, NEW a \in Address, NEW c \in Call, NEW s \in StateData,
         UpdateDeviceState(c, a, s), HasError(a)
  PROVE  HasError(a)'
<1>1. Known(a) /\ devices[a] \in Device /\ devices[a].lastError # NoError
  BY DEF HasError, Known, TypeOK
<1>2. CASE UpdateHealthy(a, s)
  <2>1. devices'[a] = [devices[a] EXCEPT !.online = TRUE]
    BY <1>2 DEF UpdateHealthy, TypeOK
  <2>2. devices'[a] \in Device /\ devices'[a].lastError = devices[a].lastError
    BY <1>1, <2>1 DEF Device
  <2> QED
    BY <1>1, <2>2, RegistryAssumption DEF HasError, Known
<1>3. CASE UpdateFaulty(c, a, s)
  <2>1. /\ s.fault # {} /\ s.fault \in FaultCode
        /\ devices'[a] = [devices[a] EXCEPT !.online = TRUE, !.lastError = s.fault]
    BY <1>3 DEF UpdateFaulty, TypeOK, StateData
  <2>2. devices'[a] \in Device /\ devices'[a].lastError = s.fault
    BY <1>1, <2>1 DEF Device
  <2> QED
    BY <2>1, <2>2, RegistryAssumption DEF HasError, Known, NoError
<1> QED
  BY <1>1, <1>2, <1>3 DEF UpdateDeviceState, UpdateUnknown

\* markDeviceOffline touches the flag only.
LEMMA OfflineKeepsError ==
  ASSUME TypeOK, NEW a \in Address, MarkDeviceOffline(a), HasError(a)
  PROVE  HasError(a)'
<1>1. devices[a] \in Device /\ devices[a].lastError # NoError
  BY DEF HasError, Known, TypeOK
<1>2. devices'[a] = [devices[a] EXCEPT !.online = FALSE]
  BY DEF MarkDeviceOffline, TypeOK
<1>3. devices'[a] \in Device /\ devices'[a].lastError = devices[a].lastError
  BY <1>1, <1>2 DEF Device
<1> QED
  BY <1>1, <1>3, RegistryAssumption DEF HasError, Known

\* No frame and no offline mark erases the error of a device, in any instance.
THEOREM ErrorsOutliveFrames == Spec => ErrorOutlivesFrames
<1>1. TypeOK /\ [Next]_vars =>
        [\A a \in Address :
           /\ \A c \in Call, s \in StateData :
                UpdateDeviceState(c, a, s) /\ HasError(a) => HasError(a)'
           /\ MarkDeviceOffline(a) /\ HasError(a) => HasError(a)']_vars
  BY UpdateKeepsError, OfflineKeepsError
<1> QED
  BY <1>1, TypeInit, TypeStep, PTL DEF Spec, ErrorOutlivesFrames
=============================================================================
