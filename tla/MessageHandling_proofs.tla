------------------------ MODULE MessageHandling_proofs ------------------------
(***************************************************************************)
(* Proofs about MessageHandling, for any number of handlers, devices,      *)
(* sessions, frames and restarts: every step of the message handlers is a  *)
(* step of the registry or of the session tracker as these are specified,  *)
(* and a handler and the component it awaits agree on what is awaited.     *)
(* What is proved of the two components is carried over at the end.        *)
(***************************************************************************)
EXTENDS MessageHandling, TLAPS

\* A decoded evse_state frame names a device and state data of the registry.
LEMMA StateFrameFits ==
  ASSUME NEW f \in StateFrame
  PROVE  f.device \in Address /\ StateDataOf(f) \in Registry!StateData
BY DEF StateFrame, StateDataOf, Registry!StateData

\* A decoded evse_session frame names a port and a reading of the tracker.
LEMMA SessionFrameFits ==
  ASSUME NEW f \in SessionFrame
  PROVE  SessionKeyOf(f) \in Sessions!Key /\ f.reading \in Sessions!Reading
BY DEF SessionFrame, SessionKeyOf, Sessions!Key

\* What a handler does on its way is a step of the registry or leaves it alone.
LEMMA ResumeStepsRegistry ==
  ASSUME NEW h \in Handler, Resume(h)
  PROVE  Registry!Next \/ UNCHANGED registry
<1>1. CASE RetryDone(h) \/ ParseFails(h) \/ WaitOver(h)
  BY <1>1 DEF RetryDone, ParseFails, WaitOver
<1>2. CASE ProcessRegistration(h)
  BY <1>2, StateFrameFits DEF ProcessRegistration, Registry!Next
<1>3. CASE ProcessState(h)
  BY <1>3, StateFrameFits DEF ProcessState, Registry!Next
<1>4. CASE ProcessSession(h) \/ ProcessMetrics(h) \/ ProcessOther(h)
  BY <1>4 DEF ProcessSession, ProcessMetrics, ProcessOther
<1>5. CASE ReportOver(h)
  BY <1>5 DEF ReportOver, Registry!Next
<1>6. CASE SaveOver(h)
  BY <1>6 DEF SaveOver
<1> QED
  BY <1>1, <1>2, <1>3, <1>4, <1>5, <1>6 DEF Resume, ProcessMessage

\* handleMessage uses DeviceService only in ways its specification allows: every
\* behaviour of the handlers is one of the registry.
THEOREM RegistryIsImplemented == Spec => RegistryImplemented
<1>1. Init => Registry!Init
  BY DEF Init
<1>2. [Next]_vars => [Registry!Next]_(Registry!vars)
  <2> SUFFICES ASSUME Next
               PROVE  Registry!Next \/ UNCHANGED registry
    BY DEF vars, registry, Registry!vars
  <2>1. CASE \E h \in Handler, f \in Frame : DeliverValid(h, f)
    BY <2>1 DEF DeliverValid
  <2>2. CASE \E h \in Handler : DeliverInvalid(h)
    BY <2>2 DEF DeliverInvalid
  <2>3. CASE \E h \in Handler : Resume(h)
    BY <2>3, ResumeStepsRegistry
  <2>4. CASE BackendStep
    BY <2>4 DEF BackendStep
  <2>5. CASE Crash
    BY <2>5 DEF Crash, Registry!Next
  <2> QED
    BY <2>1, <2>2, <2>3, <2>4, <2>5 DEF Next
<1> QED
  BY <1>1, <1>2, PTL DEF Spec, RegistryImplemented, Registry!Spec

-----------------------------------------------------------------------------
\* What a handler does on its way is a step of the tracker or leaves it alone.
LEMMA ResumeStepsSessions ==
  ASSUME NEW h \in Handler, Resume(h)
  PROVE  Sessions!Next \/ UNCHANGED sessions
<1>1. CASE RetryDone(h) \/ ParseFails(h) \/ WaitOver(h) \/ ReportOver(h)
  BY <1>1 DEF RetryDone, ParseFails, WaitOver, ReportOver
<1>2. CASE ProcessSession(h)
  BY <1>2, SessionFrameFits DEF ProcessSession, Sessions!Next
<1>3. CASE ProcessRegistration(h) \/ ProcessState(h)
  BY <1>3 DEF ProcessRegistration, ProcessState
<1>4. CASE ProcessMetrics(h) \/ ProcessOther(h)
  BY <1>4 DEF ProcessMetrics, ProcessOther
<1>5. CASE SaveOver(h)
  BY <1>5 DEF SaveOver, Sessions!Next
<1> QED
  BY <1>1, <1>2, <1>3, <1>4, <1>5 DEF Resume, ProcessMessage

\* handleMessage uses SessionService only in ways its specification allows.
THEOREM SessionsAreImplemented == Spec => SessionsImplemented
<1>1. Init => Sessions!Init
  BY DEF Init
<1>2. [Next]_vars => [Sessions!Next]_(Sessions!vars)
  <2> SUFFICES ASSUME Next
               PROVE  Sessions!Next \/ UNCHANGED sessions
    BY DEF vars, sessions, Sessions!vars
  <2>1. CASE \E h \in Handler, f \in Frame : DeliverValid(h, f)
    BY <2>1 DEF DeliverValid
  <2>2. CASE \E h \in Handler : DeliverInvalid(h)
    BY <2>2 DEF DeliverInvalid
  <2>3. CASE \E h \in Handler : Resume(h)
    BY <2>3, ResumeStepsSessions
  <2>4. CASE BackendStep
    BY <2>4 DEF BackendStep, Sessions!Next
  <2>5. CASE Crash
    BY <2>5 DEF Crash, Sessions!Next
  <2> QED
    BY <2>1, <2>2, <2>3, <2>4, <2>5 DEF Next
<1> QED
  BY <1>1, <1>2, PTL DEF Spec, SessionsImplemented, Sessions!Spec
-----------------------------------------------------------------------------
\* A handler waits in its own entry of what the components have under way: the
\* types needed for WaitsAgree to be inductive.
WaitTypes ==
  /\ stage \in [Handler -> Stage]
  /\ DOMAIN reporting = Handler
  /\ DOMAIN saving = Handler
  /\ readings \in [Sessions!Key -> Seq(Sessions!Reading)]

WaitInv == WaitTypes /\ WaitsAgree

\* The request to save a reading is not mistaken for no request.
LEMMA SaveIsNotNoSave ==
  ASSUME NEW k \in Sessions!Key, NEW r \in Sessions!Reading, WaitTypes,
         Len(readings[k]) < MaxFrames
  PROVE  Sessions!SaveRequest(k, r) # NoSave
<1>1. MaxFrames \in Nat /\ NoSave \notin Sessions!Save
  BY HandlingAssumption DEF Sessions!SessionAssumption
<1>2. Len(readings[k]) + 1 \in 1 .. MaxFrames
  <2>1. readings[k] \in Seq(Sessions!Reading)
    BY DEF WaitTypes
  <2>2. Len(readings[k]) \in Nat
    BY <2>1
  <2> QED
    BY <1>1, <2>2
<1>3. Sessions!SaveRequest(k, r) \in Sessions!Save
  BY <1>2 DEF Sessions!SaveRequest, Sessions!Save
<1> QED
  BY <1>1, <1>3

\* Nothing is awaited at the start.
LEMMA WaitInit == Init => WaitInv
BY DEF Init, Registry!Init, Sessions!Init, WaitInv, WaitTypes, WaitsAgree, Stage

\* A handler on its way keeps the agreement: what it begins to await is its own,
\* and what it stops awaiting has been taken from the component.
LEMMA ResumeKeepsWaits ==
  ASSUME WaitInv, NEW h \in Handler, Resume(h)
  PROVE  WaitInv'
<1> USE DEF WaitInv, WaitTypes, WaitsAgree, Stage, Return, Wait, sessions
<1>1. CASE RetryDone(h)
  BY <1>1 DEF RetryDone, registry, sessions
<1>2. CASE ParseFails(h)
  BY <1>2 DEF ParseFails, registry, sessions
<1>3. CASE WaitOver(h)
  BY <1>3 DEF WaitOver, registry, sessions
<1>4. CASE ProcessRegistration(h)
  BY <1>4 DEF ProcessRegistration, Registry!RegisterDevice, sessions
<1>5. CASE ProcessState(h)
  <2>1. Registry!UpdateDeviceState(h, frame[h].device, StateDataOf(frame[h]))
    BY <1>5 DEF ProcessState
  <2>2. /\ stage[h] = "parsing"
        /\ saving' = saving /\ readings' = readings
        /\ stage' = [stage EXCEPT ![h] = IF reporting'[h] # NoReport
                                        THEN "reporting" ELSE "idle"]
    BY <1>5 DEF ProcessState, sessions
  <2>3. /\ DOMAIN reporting' = Handler
        /\ \A i \in Handler \ {h} : reporting'[i] = reporting[i]
    <3>1. CASE UNCHANGED reporting
      BY <3>1
    <3>2. CASE \E r : reporting' = [reporting EXCEPT ![h] = r]
      BY <3>2
    <3> QED
      BY <2>1, <3>1, <3>2 DEF Registry!UpdateDeviceState, Registry!UpdateUnknown,
           Registry!UpdateHealthy, Registry!UpdateFaulty, Registry!RegisterDevice
  <2> QED
    BY <2>2, <2>3
<1>6. CASE ProcessSession(h)
  <2> DEFINE k == SessionKeyOf(frame[h])
             r == frame[h].reading
             q == Sessions!SaveRequest(k, r)
  <2>1. Sessions!HandleSessionData(h, k, r) /\ UNCHANGED registry
    BY <1>6 DEF ProcessSession
  <2>2. k \in Sessions!Key /\ r \in Sessions!Reading
    BY <1>6, SessionFrameFits DEF ProcessSession
  <2>3. readings' \in [Sessions!Key -> Seq(Sessions!Reading)]
    BY <2>1, <2>2 DEF Sessions!HandleSessionData
  <2>4. saving' = [saving EXCEPT ![h] = q]
    BY <2>1 DEF Sessions!HandleSessionData
  <2>5. q # NoSave
    BY <2>1, <2>2, SaveIsNotNoSave DEF Sessions!HandleSessionData
  <2>6. stage[h] = "parsing" /\ stage' = [stage EXCEPT ![h] = "saving"]
    BY <1>6 DEF ProcessSession
  <2> QED
    BY <2>1, <2>3, <2>4, <2>5, <2>6 DEF registry
<1>7. CASE ProcessMetrics(h)
  BY <1>7 DEF ProcessMetrics, registry, sessions
<1>8. CASE ProcessOther(h)
  BY <1>8 DEF ProcessOther, registry, sessions
<1>9. CASE ReportOver(h)
  BY <1>9 DEF ReportOver, Registry!ReportReturns, sessions
<1>10. CASE SaveOver(h)
  BY <1>10 DEF SaveOver, Sessions!SaveAnswered, Sessions!SaveFails, registry
<1> QED
  BY <1>1, <1>2, <1>3, <1>4, <1>5, <1>6, <1>7, <1>8, <1>9, <1>10
     DEF Resume, ProcessMessage

\* Every step keeps the agreement.
LEMMA WaitStep == WaitInv /\ [Next]_vars => WaitInv'
<1> SUFFICES ASSUME WaitInv, [Next]_vars
             PROVE  WaitInv'
  OBVIOUS
<1> USE DEF WaitInv, WaitTypes, WaitsAgree, Stage
<1>1. CASE \E h \in Handler, f \in Frame : DeliverValid(h, f)
  BY <1>1 DEF DeliverValid, Wait, registry, sessions
<1>2. CASE \E h \in Handler : DeliverInvalid(h)
  BY <1>2 DEF DeliverInvalid, Wait, registry, sessions
<1>3. CASE \E h \in Handler : Resume(h)
  BY <1>3, ResumeKeepsWaits
<1>4. CASE BackendStep
  BY <1>4 DEF BackendStep, Sessions!SaveStored, Sessions!SaveRefused, own, registry
<1>5. CASE Crash
  BY <1>5 DEF Crash, Registry!Restart, Sessions!Restart
<1>6. CASE UNCHANGED vars
  BY <1>6 DEF vars, own, registry, sessions
<1> QED
  BY <1>1, <1>2, <1>3, <1>4, <1>5, <1>6 DEF Next

\* No report and no save is under way for a handler that is not waiting for it,
\* and none is missing for one that is, however the handlers interleave.
THEOREM HandlersAndComponentsAgree == Spec => []WaitsAgree
<1>1. Init => WaitInv
  BY WaitInit
<1>2. WaitInv /\ [Next]_vars => WaitInv'
  BY WaitStep
<1>3. WaitInv => WaitsAgree
  BY DEF WaitInv
<1> QED
  BY <1>1, <1>2, <1>3, PTL DEF Spec

-----------------------------------------------------------------------------
\* A handler on its way keeps the types.
LEMMA ResumeKeepsTypes ==
  ASSUME TypeOK, NEW h \in Handler, Resume(h)
  PROVE  TypeOK'
<1> USE DEF TypeOK, Stage, Return, Wait, PublishParsedData, publications
<1>1. CASE RetryDone(h) \/ ParseFails(h) \/ WaitOver(h) \/ ReportOver(h) \/ SaveOver(h)
  BY <1>1 DEF RetryDone, ParseFails, WaitOver, ReportOver, SaveOver
<1>2. CASE ProcessRegistration(h)
  BY <1>2 DEF ProcessRegistration
<1>3. CASE ProcessState(h)
  <2>1. /\ published' \cup unpublished' \subseteq published \cup unpublished \cup {frame[h]}
        /\ frame[h] \in Frame /\ UNCHANGED <<frames, crashes>>
    BY <1>3 DEF ProcessState
  <2>2. \/ stage' = [stage EXCEPT ![h] = "reporting"] /\ frame' = frame
        \/ stage' = [stage EXCEPT ![h] = "idle"] /\ frame' = [frame EXCEPT ![h] = NoFrame]
    BY <1>3 DEF ProcessState
  <2> QED
    BY <2>1, <2>2
<1>4. CASE ProcessSession(h) \/ ProcessMetrics(h)
  BY <1>4 DEF ProcessSession, ProcessMetrics
<1>5. CASE ProcessOther(h)
  BY <1>5 DEF ProcessOther
<1> QED
  BY <1>1, <1>2, <1>3, <1>4, <1>5 DEF Resume, ProcessMessage

\* Type correctness of the handlers is preserved by every step.
LEMMA TypeStep == TypeOK /\ [Next]_vars => TypeOK'
<1> SUFFICES ASSUME TypeOK, [Next]_vars
             PROVE  TypeOK'
  OBVIOUS
<1> USE HandlingAssumption DEF TypeOK, Stage, Wait, publications
<1>0. MaxFrames \in Nat /\ MaxCrashes \in Nat
  BY DEF Sessions!SessionAssumption
<1>1. CASE \E h \in Handler, f \in Frame : DeliverValid(h, f)
  BY <1>0, <1>1 DEF DeliverValid
<1>2. CASE \E h \in Handler : DeliverInvalid(h)
  BY <1>0, <1>2 DEF DeliverInvalid
<1>3. CASE \E h \in Handler : Resume(h)
  BY <1>3, ResumeKeepsTypes
<1>4. CASE BackendStep
  BY <1>4 DEF BackendStep, own
<1>5. CASE Crash
  BY <1>0, <1>5 DEF Crash
<1>6. CASE UNCHANGED vars
  BY <1>6 DEF vars, own
<1> QED
  BY <1>1, <1>2, <1>3, <1>4, <1>5, <1>6 DEF Next

\* The handlers keep their types; a handler past its retry holds a valid frame.
THEOREM TypeCorrect == Spec => []TypeOK
<1>1. Init => TypeOK
  BY HandlingAssumption DEF Init, TypeOK, Stage, Sessions!SessionAssumption
<1> QED
  BY <1>1, TypeStep, PTL DEF Spec

-----------------------------------------------------------------------------
\* The types of the two maps, as far as SubscribersAgreeWithMaps needs them.
MapTypes ==
  /\ devices \in [Address -> Registry!Device \cup {Absent}]
  /\ activeSessions \in [Sessions!Key -> Sessions!Session \cup {NoSession}]

PublishedInv == TypeOK /\ MapTypes /\ SubscribersAgreeWithMaps

\* What registerDevice creates is a device without an error.
LEMMA NewDeviceFits ==
  ASSUME NEW f \in StateFrame
  PROVE  LET d == Registry!NewDevice(f.device, StateDataOf(f))
         IN  d \in Registry!Device /\ d # Absent /\ d.lastError = {}
<1>1. Registry!NewDevice(f.device, StateDataOf(f)) \in Registry!Device
  BY DEF Registry!NewDevice, Registry!Device, Registry!DetectPortCount
<1> QED
  BY <1>1, HandlingAssumption DEF Registry!RegistryAssumption, Registry!NewDevice, Registry!NoError

\* What processing an evse_state does to its device: the error it then shows, if
\* any, is the one it showed before or, on an INBOX topic, that of the frame.
LEMMA StateChangesItsDevice ==
  ASSUME TypeOK, MapTypes, NEW h \in Handler, ProcessRegistration(h) \/ ProcessState(h)
  PROVE  LET f == frame[h]
         IN  /\ f \in StateFrame
             /\ \E d \in Registry!Device :
                  /\ devices' = [devices EXCEPT ![f.device] = d]
                  /\ \/ d.lastError = {}
                     \/ Registry!Known(f.device) /\ d.lastError = devices[f.device].lastError
                     \/ f.topic = "INBOX" /\ d.lastError = f.fault
<1> DEFINE f == frame[h]
           a == f.device
           s == StateDataOf(f)
<1>1. f \in StateFrame /\ a \in Address /\ s.fault = f.fault /\ f.fault \in FaultCode
  BY DEF ProcessRegistration, ProcessState, StateFrame, StateDataOf
<1>2. CASE ProcessRegistration(h) \/ (ProcessState(h) /\ Registry!UpdateUnknown(a, s))
  <2>1. devices' = [devices EXCEPT ![a] = Registry!NewDevice(a, s)]
    BY <1>2 DEF ProcessRegistration, Registry!UpdateUnknown, Registry!RegisterDevice
  <2> QED
    BY <1>1, <2>1, NewDeviceFits
<1>3. ASSUME Registry!Known(a)
      PROVE  /\ devices[a] \in Registry!Device
             /\ [devices[a] EXCEPT !.online = TRUE] \in Registry!Device
             /\ [devices[a] EXCEPT !.online = TRUE].lastError = devices[a].lastError
             /\ [devices[a] EXCEPT !.online = TRUE, !.lastError = f.fault] \in Registry!Device
             /\ [devices[a] EXCEPT !.online = TRUE, !.lastError = f.fault].lastError = f.fault
  <2>1. devices[a] \in Registry!Device
    BY <1>1, <1>3 DEF MapTypes, Registry!Known
  <2> QED
    BY <1>1, <2>1 DEF Registry!Device
<1>4. CASE ProcessState(h) /\ Registry!UpdateHealthy(a, s)
  <2>1. devices' = [devices EXCEPT ![a] = [devices[a] EXCEPT !.online = TRUE]] /\ Registry!Known(a)
    BY <1>1, <1>4 DEF Registry!UpdateHealthy, MapTypes
  <2> QED
    BY <1>1, <1>3, <2>1
<1>5. CASE ProcessState(h) /\ Registry!UpdateFaulty(h, a, s)
  <2>1. /\ devices' = [devices EXCEPT ![a] = [devices[a] EXCEPT !.online = TRUE, !.lastError = f.fault]]
        /\ Registry!Known(a) /\ f.topic = "INBOX"
    BY <1>1, <1>5 DEF Registry!UpdateFaulty, MapTypes, ProcessState
  <2> QED
    BY <1>1, <1>3, <2>1
<1> QED
  BY <1>2, <1>4, <1>5 DEF ProcessState, Registry!UpdateDeviceState

\* What a handler publishes is its frame, whatever becomes of it.
LEMMA FrameIsOffered ==
  ASSUME NEW h \in Handler, PublishParsedData(h)
  PROVE  /\ Offered' = Offered \cup {frame[h]}
         /\ published' \subseteq published \cup {frame[h]}
BY DEF PublishParsedData, Offered

\* A processed evse_state is offered to subscribers, and its device is then known.
LEMMA StateOffered ==
  ASSUME PublishedInv, NEW h \in Handler, ProcessRegistration(h) \/ ProcessState(h)
  PROVE  MapTypes' /\ SubscribersAgreeWithMaps'
<1> USE DEF PublishedInv
<1> DEFINE f == frame[h]
<1>1. PICK d \in Registry!Device :
        /\ f \in StateFrame
        /\ devices' = [devices EXCEPT ![f.device] = d]
        /\ \/ d.lastError = {}
           \/ Registry!Known(f.device) /\ d.lastError = devices[f.device].lastError
           \/ f.topic = "INBOX" /\ d.lastError = f.fault
  BY StateChangesItsDevice
<1>2. /\ Offered' = Offered \cup {f} /\ published' \subseteq published \cup {f}
      /\ UNCHANGED activeSessions
  BY FrameIsOffered DEF ProcessRegistration, ProcessState, sessions
<1>3. f.device \in Address /\ f \notin SessionFrame
  BY <1>1 DEF StateFrame, SessionFrame
<1>4. MapTypes'
  BY <1>1, <1>2, <1>3 DEF MapTypes
<1>5. ASSUME NEW a \in Address, Registry!Known(a)'
      PROVE  \E g \in Offered' \cap StateFrame : g.device = a
  <2>1. CASE a = f.device
    BY <1>1, <1>2, <2>1
  <2>2. CASE a # f.device
    <3>1. Registry!Known(a)
      BY <1>1, <1>5, <2>2 DEF MapTypes, Registry!Known
    <3> QED
      BY <1>2, <3>1 DEF SubscribersAgreeWithMaps
  <2> QED
    BY <2>1, <2>2
<1>6. ASSUME NEW a \in Address, Registry!HasError(a)'
      PROVE  \E g \in Offered' \cap StateFrame :
               g.device = a /\ g.topic = "INBOX" /\ g.fault = devices'[a].lastError
  <2>1. CASE a = f.device /\ f.topic = "INBOX" /\ d.lastError = f.fault
    <3>1. devices'[a] = d
      BY <1>1, <1>3, <2>1 DEF MapTypes
    <3> QED
      BY <1>1, <1>2, <2>1, <3>1
  <2>2. CASE ~(a = f.device /\ f.topic = "INBOX" /\ d.lastError = f.fault)
    <3>1. Registry!HasError(a) /\ devices'[a].lastError = devices[a].lastError
      BY <1>1, <1>6, <2>2 DEF MapTypes, Registry!HasError, Registry!Known, Registry!NoError
    <3>2. PICK g \in Offered \cap StateFrame :
            g.device = a /\ g.topic = "INBOX" /\ g.fault = devices[a].lastError
      BY <3>1 DEF SubscribersAgreeWithMaps
    <3> QED
      BY <1>2, <3>1, <3>2
  <2> QED
    BY <2>1, <2>2
<1>7. ASSUME NEW k \in Sessions!Key, activeSessions'[k] # NoSession
      PROVE  \E g \in Offered' \cap SessionFrame :
               SessionKeyOf(g) = k /\ g.reading.sessionId = activeSessions'[k].sessionId
  <2>1. PICK g \in Offered \cap SessionFrame :
          SessionKeyOf(g) = k /\ g.reading.sessionId = activeSessions[k].sessionId
    BY <1>2, <1>7 DEF SubscribersAgreeWithMaps
  <2> QED
    BY <1>2, <2>1
<1>8. ASSUME NEW g \in published' \cap StateFrame
      PROVE  Registry!Known(g.device)'
  <2>1. d # Absent
    BY HandlingAssumption DEF Registry!RegistryAssumption
  <2>2. CASE g.device = f.device
    BY <1>1, <1>3, <2>1, <2>2 DEF MapTypes, Registry!Known
  <2>3. CASE g.device # f.device
    <3>1. g.device \in Address /\ Registry!Known(g.device)
      BY <1>2, <2>3 DEF SubscribersAgreeWithMaps, StateFrame
    <3> QED
      BY <1>1, <2>3, <3>1 DEF MapTypes, Registry!Known
  <2> QED
    BY <2>2, <2>3
<1>9. ASSUME NEW g \in published' \cap SessionFrame
      PROVE  activeSessions'[SessionKeyOf(g)] # NoSession
  BY <1>2, <1>3 DEF SubscribersAgreeWithMaps
<1> QED
  BY <1>4, <1>5, <1>6, <1>7, <1>8, <1>9 DEF SubscribersAgreeWithMaps

\* A processed evse_session is offered, and its port then has a session: the one
\* it was opened with, by an offered message.
LEMMA SessionOffered ==
  ASSUME PublishedInv, NEW h \in Handler, ProcessSession(h)
  PROVE  MapTypes' /\ SubscribersAgreeWithMaps'
<1> USE DEF PublishedInv
<1> DEFINE f == frame[h]
           k == SessionKeyOf(f)
           opened == [sessionId |-> f.reading.sessionId, status |-> "active"]
<1>1. /\ f \in SessionFrame /\ k \in Sessions!Key /\ f.reading \in Sessions!Reading
      /\ Offered' = Offered \cup {f} /\ published' \subseteq published \cup {f}
      /\ UNCHANGED devices
  BY SessionFrameFits, FrameIsOffered DEF ProcessSession, registry
<1>2. Sessions!OpenOrTouch(k, f.reading)
  BY DEF ProcessSession, Sessions!HandleSessionData
<1>3. opened \in Sessions!Session /\ opened # NoSession
  <2>1. opened \in Sessions!Session
    BY <1>1 DEF Sessions!Session, Sessions!Reading
  <2> QED
    BY <2>1, HandlingAssumption DEF Sessions!SessionAssumption
<1>4. \/ activeSessions' = activeSessions /\ activeSessions[k] # NoSession
      \/ activeSessions' = [activeSessions EXCEPT ![k] = opened]
  BY <1>2 DEF Sessions!OpenOrTouch
<1>5. MapTypes'
  BY <1>1, <1>3, <1>4 DEF MapTypes
<1>6. ASSUME NEW a \in Address
      PROVE  /\ Registry!Known(a)' => \E g \in Offered' \cap StateFrame : g.device = a
             /\ Registry!HasError(a)' =>
                  \E g \in Offered' \cap StateFrame :
                    g.device = a /\ g.topic = "INBOX" /\ g.fault = devices'[a].lastError
  BY <1>1 DEF SubscribersAgreeWithMaps, Registry!Known, Registry!HasError
<1>7. ASSUME NEW j \in Sessions!Key, activeSessions'[j] # NoSession
      PROVE  \E g \in Offered' \cap SessionFrame :
               SessionKeyOf(g) = j /\ g.reading.sessionId = activeSessions'[j].sessionId
  <2>1. CASE activeSessions'[j] = activeSessions[j]
    BY <1>1, <1>7, <2>1 DEF SubscribersAgreeWithMaps
  <2>2. CASE activeSessions'[j] # activeSessions[j]
    <3>1. j = k /\ activeSessions'[j] = opened
      BY <1>1, <1>4, <2>2 DEF MapTypes
    <3> QED
      BY <1>1, <3>1
  <2> QED
    BY <2>1, <2>2
<1>8. ASSUME NEW g \in published' \cap StateFrame
      PROVE  Registry!Known(g.device)'
  <2>1. g # f
    BY <1>1 DEF StateFrame, SessionFrame
  <2> QED
    BY <1>1, <2>1 DEF SubscribersAgreeWithMaps, Registry!Known
<1>9. ASSUME NEW g \in published' \cap SessionFrame
      PROVE  activeSessions'[SessionKeyOf(g)] # NoSession
  <2>1. SessionKeyOf(g) \in Sessions!Key
    BY SessionFrameFits
  <2>2. CASE SessionKeyOf(g) = k
    BY <1>1, <1>3, <1>4, <2>2 DEF MapTypes
  <2>3. CASE SessionKeyOf(g) # k
    <3>1. activeSessions[SessionKeyOf(g)] # NoSession
      BY <1>1, <2>3 DEF SubscribersAgreeWithMaps
    <3> QED
      BY <1>1, <1>4, <2>1, <2>3, <3>1 DEF MapTypes
  <2> QED
    BY <2>2, <2>3
<1> QED
  BY <1>5, <1>6, <1>7, <1>8, <1>9 DEF SubscribersAgreeWithMaps

\* Frames of other kinds may be published while the maps stay as they are.
LEMMA OthersOffered ==
  ASSUME PublishedInv, UNCHANGED <<devices, activeSessions>>, Offered \subseteq Offered',
         published' \cap (StateFrame \cup SessionFrame) \subseteq published
  PROVE  MapTypes' /\ SubscribersAgreeWithMaps'
<1> USE DEF PublishedInv
<1>1. MapTypes'
  BY DEF MapTypes
<1>2. SubscribersAgreeWithMaps'
  BY DEF SubscribersAgreeWithMaps, Registry!Known, Registry!HasError
<1> QED
  BY <1>1, <1>2

\* Every step keeps the agreement of subscribers and maps.
LEMMA PublishedStep == PublishedInv /\ [Next]_vars => PublishedInv'
<1> SUFFICES ASSUME PublishedInv, [Next]_vars
             PROVE  MapTypes' /\ SubscribersAgreeWithMaps'
  BY TypeStep DEF PublishedInv
<1>0. ASSUME UNCHANGED <<publications, devices, activeSessions>>
      PROVE  MapTypes' /\ SubscribersAgreeWithMaps'
  BY <1>0, OthersOffered DEF publications, Offered
<1>1. CASE UNCHANGED vars
  BY <1>0, <1>1 DEF vars, own, registry, sessions
<1>2. CASE \/ \E h \in Handler, f \in Frame : DeliverValid(h, f)
           \/ \E h \in Handler : DeliverInvalid(h)
  BY <1>0, <1>2 DEF DeliverValid, DeliverInvalid, registry, sessions
<1>3. ASSUME NEW h \in Handler, Resume(h)
      PROVE  MapTypes' /\ SubscribersAgreeWithMaps'
  <2>1. CASE ProcessRegistration(h) \/ ProcessState(h)
    BY <2>1, StateOffered
  <2>2. CASE ProcessSession(h)
    BY <2>2, SessionOffered
  <2>3. CASE ProcessMetrics(h) \/ ProcessOther(h)
    <3>1. PublishParsedData(h) /\ UNCHANGED <<devices, activeSessions>>
      BY <2>3 DEF ProcessMetrics, ProcessOther, registry, sessions
    <3>2. frame[h] \in MetricFrame \cup OtherFrame
      BY <2>3 DEF ProcessMetrics, ProcessOther
    <3>3. frame[h] \notin StateFrame \cup SessionFrame
      BY <3>2 DEF StateFrame, SessionFrame, MetricFrame, OtherFrame
    <3>4. Offered \subseteq Offered' /\ published' \subseteq published \cup {frame[h]}
      BY <3>1, FrameIsOffered
    <3> QED
      BY <3>1, <3>3, <3>4, OthersOffered
  <2>4. CASE RetryDone(h) \/ ParseFails(h) \/ WaitOver(h)
    BY <1>0, <2>4 DEF RetryDone, ParseFails, WaitOver, registry, sessions
  <2>5. CASE ReportOver(h)
    BY <1>0, <2>5 DEF ReportOver, Registry!ReportReturns, sessions
  <2>6. CASE SaveOver(h)
    BY <1>0, <2>6 DEF SaveOver, Sessions!SaveAnswered, Sessions!SaveFails, registry
  <2> QED
    BY <1>3, <2>1, <2>2, <2>3, <2>4, <2>5, <2>6 DEF Resume, ProcessMessage
<1>4. CASE BackendStep
  BY <1>0, <1>4 DEF BackendStep, Sessions!SaveStored, Sessions!SaveRefused, own, registry
<1>5. CASE Crash
  BY <1>5 DEF Crash, Registry!Restart, Sessions!Restart, MapTypes, SubscribersAgreeWithMaps,
     Registry!Known, Registry!HasError
<1> QED
  BY <1>1, <1>2, <1>3, <1>4, <1>5 DEF Next

\* The maps are empty at the start, and nothing is published.
LEMMA PublishedInit == Init => PublishedInv
BY HandlingAssumption DEF Init, Registry!Init, Sessions!Init, PublishedInv, TypeOK, Stage,
   MapTypes, SubscribersAgreeWithMaps, Registry!Known, Registry!HasError,
   Sessions!SessionAssumption

\* For any handlers, devices and restarts and whatever publications fail: what the
\* maps show has been offered to subscribers, and the maps know every device and
\* port in session that subscribers have heard of since the service started.
THEOREM SubscribersAndMapsAgree == Spec => []SubscribersAgreeWithMaps
<1>1. Init => PublishedInv
  BY PublishedInit
<1>2. PublishedInv => SubscribersAgreeWithMaps
  BY DEF PublishedInv
<1> QED
  BY <1>1, <1>2, PublishedStep, PTL DEF Spec
-----------------------------------------------------------------------------
\* An evse_state on a device topic replaces the error of its device, if anything,
\* and the errors of other devices are not touched.
LEMMA StateKeepsErrors ==
  ASSUME MapTypes, NEW h \in Handler, ProcessState(h),
         NEW a \in Address, Registry!HasError(a)
  PROVE  Registry!HasError(a)'
<1> DEFINE b == frame[h].device
           s == StateDataOf(frame[h])
<1>1. b \in Address /\ Registry!UpdateDeviceState(h, b, s)
  BY DEF ProcessState, StateFrame
<1>2. CASE a # b
  <2>1. devices'[a] = devices[a]
    BY <1>1, <1>2 DEF MapTypes, Registry!UpdateDeviceState, Registry!UpdateUnknown,
       Registry!RegisterDevice, Registry!UpdateHealthy, Registry!UpdateFaulty
  <2> QED
    BY <2>1 DEF Registry!HasError, Registry!Known
<1>3. CASE a = b
  <2>1. devices[a] \in Registry!Device /\ Registry!Known(a)
    BY DEF MapTypes, Registry!HasError, Registry!Known
  <2>2. CASE Registry!UpdateHealthy(a, s)
    <3> DEFINE d == [devices[a] EXCEPT !.online = TRUE]
    <3>1. d \in Registry!Device /\ d.lastError = devices[a].lastError
      BY <2>1 DEF Registry!Device
    <3>2. devices'[a] = d
      BY <2>2 DEF Registry!UpdateHealthy, MapTypes
    <3> QED
      BY <3>1, <3>2, HandlingAssumption
         DEF Registry!HasError, Registry!Known, Registry!RegistryAssumption
  <2>3. CASE Registry!UpdateFaulty(h, a, s)
    <3> DEFINE d == [devices[a] EXCEPT !.online = TRUE, !.lastError = s.fault]
    <3>1. s.fault \in FaultCode /\ s.fault # {}
      BY <2>3 DEF ProcessState, StateFrame, StateDataOf, Registry!UpdateFaulty
    <3>2. d \in Registry!Device /\ d.lastError = s.fault
      BY <2>1, <3>1 DEF Registry!Device
    <3>3. devices'[a] = d
      BY <2>3 DEF Registry!UpdateFaulty, MapTypes
    <3> QED
      BY <3>1, <3>2, <3>3, HandlingAssumption
         DEF Registry!HasError, Registry!Known, Registry!NoError, Registry!RegistryAssumption
  <2> QED
    BY <1>1, <1>3, <2>1, <2>2, <2>3 DEF Registry!UpdateDeviceState, Registry!UpdateUnknown
<1> QED
  BY <1>2, <1>3

\* A registration touches no device but its own.
LEMMA RegistrationKeepsOthers ==
  ASSUME TypeOK, MapTypes, NEW h \in Handler, ProcessRegistration(h),
         NEW a \in Address, Registry!HasError(a), ~Registry!HasError(a)'
  PROVE  stage[h] = "parsing" /\ stage'[h] = "subscribing" /\ frame[h].device = a
<1>1. stage[h] = "parsing" /\ stage'[h] = "subscribing"
  BY DEF ProcessRegistration, Wait, TypeOK
<1>2. CASE frame[h].device # a
  <2>1. devices'[a] = devices[a]
    BY <1>2 DEF ProcessRegistration, Registry!RegisterDevice, MapTypes
  <2> QED
    BY <2>1 DEF Registry!HasError, Registry!Known
<1> QED
  BY <1>1, <1>2

\* No step but a registration of the device or a restart ends its error.
LEMMA ErrorStep ==
  ASSUME TypeOK, MapTypes, [Next]_vars,
         NEW a \in Address, Registry!HasError(a), ~Registry!HasError(a)'
  PROVE  \/ crashes' # crashes
         \/ \E h \in Handler : /\ stage[h] = "parsing" /\ stage'[h] = "subscribing"
                               /\ frame[h].device = a
<1>1. ~UNCHANGED devices
  BY DEF Registry!HasError, Registry!Known
<1>2. CASE \E h \in Handler : Resume(h)
  <2>1. PICK h \in Handler : Resume(h)
    BY <1>2
  <2>2. CASE ProcessRegistration(h)
    BY <2>2, RegistrationKeepsOthers
  <2>3. ~ProcessState(h)
    BY StateKeepsErrors
  <2> QED
    BY <1>1, <2>1, <2>2, <2>3
       DEF Resume, ProcessMessage, RetryDone, ParseFails, ProcessSession, ProcessMetrics,
           ProcessOther, WaitOver, ReportOver, SaveOver, Registry!ReportReturns, registry
<1>3. CASE Crash
  BY <1>3 DEF Crash, TypeOK
<1>4. ~BackendStep /\ ~UNCHANGED vars
  BY <1>1 DEF BackendStep, vars, registry
<1>5. ~\E h \in Handler : DeliverInvalid(h) \/ \E f \in Frame : DeliverValid(h, f)
  BY <1>1 DEF DeliverInvalid, DeliverValid, registry
<1> QED
  BY <1>2, <1>3, <1>4, <1>5 DEF Next

\* The error a device shows ends only when it registers anew or with a restart.
THEOREM ErrorsEnd == Spec => ErrorsEndByRegistration
<1>1. Init => PublishedInv
  BY PublishedInit
<1>2. PublishedInv /\ [Next]_vars =>
        [\A a \in Address : (Registry!HasError(a) /\ ~Registry!HasError(a)') =>
           \/ crashes' # crashes
           \/ \E h \in Handler : /\ stage[h] = "parsing" /\ stage'[h] = "subscribing"
                                 /\ frame[h].device = a]_vars
  BY ErrorStep DEF PublishedInv
<1> QED
  BY <1>1, <1>2, PublishedStep, PTL DEF Spec, ErrorsEndByRegistration

-----------------------------------------------------------------------------
\* What is proved of the components on their own, for the components the handlers
\* share: the same specification under another name.
RegistryFacts == INSTANCE DeviceRegistry_proofs WITH
                   Call <- Handler, ReadySignals <- {{0, 1}}
SessionFacts == INSTANCE SessionTracker_proofs WITH
                  Call <- Handler, MaxReadings <- MaxFrames

\* The registry proved about and the registry of the handlers are one specification.
LEMMA SameRegistry ==
  /\ RegistryFacts!RegistryAssumption
  /\ RegistryFacts!Init <=> Registry!Init
  /\ [RegistryFacts!Next]_(RegistryFacts!vars) <=> [Registry!Next]_(Registry!vars)
<1>1. RegistryFacts!RegistryAssumption
  BY HandlingAssumption DEF
     RegistryFacts!RegistryAssumption, Registry!RegistryAssumption,
     RegistryFacts!Device, Registry!Device, RegistryFacts!Report, Registry!Report,
     RegistryFacts!Bit, Registry!Bit, RegistryFacts!NoError, Registry!NoError
<1>2. RegistryFacts!Init <=> Registry!Init
  BY DEF RegistryFacts!Init, Registry!Init
<1>3. RegistryFacts!Next <=> Registry!Next
  BY Zenon DEF
     RegistryFacts!Next, Registry!Next, RegistryFacts!RegisterDevice,
     Registry!RegisterDevice, RegistryFacts!UpdateDeviceState,
     Registry!UpdateDeviceState, RegistryFacts!UpdateUnknown, Registry!UpdateUnknown,
     RegistryFacts!UpdateHealthy, Registry!UpdateHealthy, RegistryFacts!UpdateFaulty,
     Registry!UpdateFaulty, RegistryFacts!ReportReturns, Registry!ReportReturns,
     RegistryFacts!MarkDeviceOffline, Registry!MarkDeviceOffline,
     RegistryFacts!ClearDeviceError, Registry!ClearDeviceError,
     RegistryFacts!RemoveDevice, Registry!RemoveDevice, RegistryFacts!Restart,
     Registry!Restart, RegistryFacts!NewDevice, Registry!NewDevice,
     RegistryFacts!DetectPortCount, Registry!DetectPortCount, RegistryFacts!StateData,
     Registry!StateData, RegistryFacts!Known, Registry!Known, RegistryFacts!NoError,
     Registry!NoError, RegistryFacts!Reportable, Registry!Reportable,
     RegistryFacts!DetermineSeverity, Registry!DetermineSeverity,
     RegistryFacts!CriticalMask, Registry!CriticalMask, RegistryFacts!HighMask,
     Registry!HighMask, RegistryFacts!MediumMask, Registry!MediumMask
<1>4. [RegistryFacts!Next]_(RegistryFacts!vars) <=> [Registry!Next]_(Registry!vars)
  BY <1>3 DEF RegistryFacts!vars, Registry!vars
<1> QED
  BY <1>1, <1>2, <1>4

\* However handlers interleave, every error worth an alarm that a device shows has
\* been reported, no other is, and no frame that updates a device and no failed
\* poll erases its last error: what the registry promises, the service keeps.
THEOREM ServiceKeepsRegistry ==
  Spec => /\ []Registry!TypeOK
          /\ []Registry!AlarmsMatchErrors
          /\ Registry!ErrorOutlivesFrames
<1>1. RegistryFacts!TypeOK <=> Registry!TypeOK
  BY Zenon DEF
     RegistryFacts!TypeOK, Registry!TypeOK, RegistryFacts!Device, Registry!Device,
     RegistryFacts!Report, Registry!Report, RegistryFacts!NoError, Registry!NoError
<1>2. RegistryFacts!AlarmsMatchErrors <=> Registry!AlarmsMatchErrors
  BY Zenon DEF
     RegistryFacts!AlarmsMatchErrors, Registry!AlarmsMatchErrors,
     RegistryFacts!HasError, Registry!HasError, RegistryFacts!Known, Registry!Known,
     RegistryFacts!NoError, Registry!NoError, RegistryFacts!SilentTypes,
     Registry!SilentTypes, RegistryFacts!ParseErrorCode, Registry!ParseErrorCode,
     RegistryFacts!ErrorName, Registry!ErrorName
<1> DEFINE Keeps ==
      \A a \in Address :
        /\ \A c \in Handler, s \in Registry!StateData :
             Registry!UpdateDeviceState(c, a, s) /\ Registry!HasError(a) => Registry!HasError(a)'
        /\ Registry!MarkDeviceOffline(a) /\ Registry!HasError(a) => Registry!HasError(a)'
    KeepsFacts ==
      \A a \in Address :
        /\ \A c \in Handler, s \in RegistryFacts!StateData :
             RegistryFacts!UpdateDeviceState(c, a, s) /\ RegistryFacts!HasError(a)
               => RegistryFacts!HasError(a)'
        /\ RegistryFacts!MarkDeviceOffline(a) /\ RegistryFacts!HasError(a)
             => RegistryFacts!HasError(a)'
<1>3. KeepsFacts <=> Keeps
  BY Zenon DEF
     RegistryFacts!HasError, Registry!HasError, RegistryFacts!RegisterDevice,
     Registry!RegisterDevice, RegistryFacts!UpdateDeviceState,
     Registry!UpdateDeviceState, RegistryFacts!UpdateUnknown, Registry!UpdateUnknown,
     RegistryFacts!UpdateHealthy, Registry!UpdateHealthy, RegistryFacts!UpdateFaulty,
     Registry!UpdateFaulty, RegistryFacts!MarkDeviceOffline,
     Registry!MarkDeviceOffline, RegistryFacts!NewDevice, Registry!NewDevice,
     RegistryFacts!DetectPortCount, Registry!DetectPortCount, RegistryFacts!StateData,
     Registry!StateData, RegistryFacts!Known, Registry!Known, RegistryFacts!NoError,
     Registry!NoError, RegistryFacts!Reportable, Registry!Reportable,
     RegistryFacts!DetermineSeverity, Registry!DetermineSeverity,
     RegistryFacts!CriticalMask, Registry!CriticalMask, RegistryFacts!HighMask,
     Registry!HighMask, RegistryFacts!MediumMask, Registry!MediumMask
<1>4. [KeepsFacts]_(RegistryFacts!vars) <=> [Keeps]_(Registry!vars)
  BY <1>3 DEF RegistryFacts!vars, Registry!vars
<1>5. RegistryFacts!ErrorOutlivesFrames <=> Registry!ErrorOutlivesFrames
  BY <1>4, PTL DEF RegistryFacts!ErrorOutlivesFrames, Registry!ErrorOutlivesFrames
<1>6. RegistryFacts!Spec => /\ []RegistryFacts!TypeOK
                            /\ []RegistryFacts!AlarmsMatchErrors
                            /\ RegistryFacts!ErrorOutlivesFrames
  BY SameRegistry, RegistryFacts!TypeCorrect, RegistryFacts!AlarmsMatch,
     RegistryFacts!ErrorsOutliveFrames
<1>7. RegistryFacts!Spec <=> Registry!Spec
  BY SameRegistry, PTL DEF RegistryFacts!Spec, Registry!Spec
<1> QED
  BY <1>1, <1>2, <1>5, <1>6, <1>7, RegistryIsImplemented, PTL DEF RegistryImplemented

\* The session tracker proved about and that of the handlers are one specification.
LEMMA SameSessions ==
  /\ SessionFacts!SessionAssumption
  /\ SessionFacts!Init <=> Sessions!Init
  /\ [SessionFacts!Next]_(SessionFacts!vars) <=> [Sessions!Next]_(Sessions!vars)
<1>1. SessionFacts!SessionAssumption
  BY HandlingAssumption DEF
     SessionFacts!SessionAssumption, Sessions!SessionAssumption, SessionFacts!Session,
     Sessions!Session, SessionFacts!Save, Sessions!Save, SessionFacts!Saved,
     Sessions!Saved, SessionFacts!Key, Sessions!Key, SessionFacts!Reading,
     Sessions!Reading
<1>2. SessionFacts!Init <=> Sessions!Init
  BY DEF SessionFacts!Init, Sessions!Init, SessionFacts!Key, Sessions!Key
<1>3. SessionFacts!Next <=> Sessions!Next
  BY Zenon DEF
     SessionFacts!Next, Sessions!Next, SessionFacts!HandleSessionData,
     Sessions!HandleSessionData, SessionFacts!SaveStored, Sessions!SaveStored,
     SessionFacts!SaveRefused, Sessions!SaveRefused, SessionFacts!SaveAnswered,
     Sessions!SaveAnswered, SessionFacts!SaveFails, Sessions!SaveFails,
     SessionFacts!EndSession, Sessions!EndSession, SessionFacts!Restart,
     Sessions!Restart, SessionFacts!OpenOrTouch, Sessions!OpenOrTouch,
     SessionFacts!SaveRequest, Sessions!SaveRequest, SessionFacts!Key, Sessions!Key,
     SessionFacts!Reading, Sessions!Reading
<1>4. [SessionFacts!Next]_(SessionFacts!vars) <=> [Sessions!Next]_(Sessions!vars)
  BY <1>3 DEF SessionFacts!vars, Sessions!vars
<1> QED
  BY <1>1, <1>2, <1>4

\* However handlers interleave, the backend's record of a port is one whole message
\* of the device, and an older one replaces a newer one only where saves overlapped
\* or failed: what the session tracker promises, the service keeps.
THEOREM ServiceKeepsSessions ==
  Spec => /\ []Sessions!TypeOK
          /\ []Sessions!BackendHoldsAMessage
          /\ Sessions!SetBackOnlyByOverlap
<1>1. SessionFacts!TypeOK <=> Sessions!TypeOK
  BY Zenon DEF
     SessionFacts!TypeOK, Sessions!TypeOK, SessionFacts!Session, Sessions!Session,
     SessionFacts!Save, Sessions!Save, SessionFacts!Saved, Sessions!Saved,
     SessionFacts!Key, Sessions!Key, SessionFacts!Reading, Sessions!Reading
<1>2. SessionFacts!BackendHoldsAMessage <=> Sessions!BackendHoldsAMessage
  BY Zenon DEF
     SessionFacts!BackendHoldsAMessage, Sessions!BackendHoldsAMessage,
     SessionFacts!Key, Sessions!Key
<1>3. SessionFacts!SetBackOnlyByOverlap <=> Sessions!SetBackOnlyByOverlap
  <2> DEFINE SetBack(keys) ==
        \A k \in keys :
          (backend[k] # NoSave /\ backend'[k] # NoSave /\ backend'[k].seq < backend[k].seq)
            => k \in unordered
  <2>1. [SetBack(SessionFacts!Key)]_(SessionFacts!vars) <=> [SetBack(Sessions!Key)]_(Sessions!vars)
    BY DEF SessionFacts!Key, Sessions!Key, SessionFacts!vars, Sessions!vars
  <2> QED
    BY <2>1, PTL DEF SessionFacts!SetBackOnlyByOverlap, Sessions!SetBackOnlyByOverlap
<1>4. SessionFacts!Spec => /\ []SessionFacts!TypeOK
                           /\ []SessionFacts!BackendHoldsAMessage
                           /\ SessionFacts!SetBackOnlyByOverlap
  BY SameSessions, SessionFacts!TypeCorrect, SessionFacts!BackendRecordIsAMessage,
     SessionFacts!NoSetBackWithoutOverlap
<1>5. SessionFacts!Spec <=> Sessions!Spec
  BY SameSessions, PTL DEF SessionFacts!Spec, Sessions!Spec
<1> QED
  BY <1>1, <1>2, <1>3, <1>4, <1>5, SessionsAreImplemented, PTL DEF SessionsImplemented
=============================================================================
