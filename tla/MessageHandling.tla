--------------------------- MODULE MessageHandling ---------------------------
(***************************************************************************)
(* MqttService.handleMessage as a whole, composed with the registry and    *)
(* the session tracker it calls.  Each MQTT message starts an async handler *)
(* that nobody awaits.  A handler runs without a break from one suspension *)
(* to the next: the parse request to the DBC service, then the wait of the *)
(* service its message is for.  Handlers therefore interleave, and a later *)
(* frame may overtake an earlier one of the same device.                   *)
(*                                                                         *)
(* The retry counters are the subject of RetryLoop; here an invalid frame  *)
(* only occupies its handler until the retry has been sent.                *)
(***************************************************************************)
EXTENDS Naturals, Sequences

CONSTANTS Handler,       \* handlers that may run at once
          Address, Port, SessionId, Energy, FaultCode,
          MaxFrames,     \* bound: frames delivered
          MaxCrashes,    \* bound: restarts of the process
          Absent, NoReport, NoSession, NoSave, NoFrame

VARIABLES stage,         \* per handler, what it waits for
          frame,         \* per handler, the valid frame it handles
          published,     \* history: frames that reach their DBC_PARSED topics
          unpublished,   \* history: frames whose publication fails
          frames,        \* history: frames delivered so far
          crashes,       \* history: restarts so far
          devices, reporting, attempted,
          activeSessions, saving, network, backend, readings, unordered

Registry == INSTANCE DeviceRegistry WITH
              Call <- Handler, ReadySignals <- {{0, 1}}
Sessions == INSTANCE SessionTracker WITH
              Call <- Handler, MaxReadings <- MaxFrames

publications == <<published, unpublished>>
own == <<stage, frame, publications, frames, crashes>>
registry == <<devices, reporting, attempted>>
sessions == <<activeSessions, saving, network, backend, readings, unordered>>
vars == <<own, registry, sessions>>

-----------------------------------------------------------------------------
\* A frame is known by what the DBC service decodes from it.  Every decoded
\* evse_state carries the ready signals of both ports.
StateFrame ==
  [name : {"evse_state"}, topic : {"REGISTER", "INBOX"}, device : Address, fault : FaultCode]
SessionFrame ==
  [name : {"evse_session"}, device : Address, port : Port, reading : Sessions!Reading]
MetricFrame == [name : {"evse_data"}, device : Address]
OtherFrame == [name : {"other"}, device : Address]
Frame == StateFrame \cup SessionFrame \cup MetricFrame \cup OtherFrame

ASSUME HandlingAssumption ==
  /\ Registry!RegistryAssumption
  /\ Sessions!SessionAssumption
  /\ MaxCrashes \in Nat
  /\ NoFrame \notin Frame

StateDataOf(f) == [ready |-> {0, 1}, fault |-> f.fault]
SessionKeyOf(f) == <<f.device, f.port>>

Stage == {"idle", "retrying", "parsing", "subscribing", "reporting", "saving", "metrics"}

Init ==
  /\ stage = [h \in Handler |-> "idle"]
  /\ frame = [h \in Handler |-> NoFrame]
  /\ published = {}
  /\ unpublished = {}
  /\ frames = 0
  /\ crashes = 0
  /\ Registry!Init
  /\ Sessions!Init

Wait(h, s) == stage' = [stage EXCEPT ![h] = s]

\* The handler returns; it holds no frame any more.
Return(h) ==
  /\ stage' = [stage EXCEPT ![h] = "idle"]
  /\ frame' = [frame EXCEPT ![h] = NoFrame]

-----------------------------------------------------------------------------
\* A valid frame is sent to the DBC service.
DeliverValid(h, f) ==
  /\ stage[h] = "idle"
  /\ frames < MaxFrames
  /\ Wait(h, "parsing")
  /\ frame' = [frame EXCEPT ![h] = f]
  /\ frames' = frames + 1
  /\ UNCHANGED <<publications, crashes, registry, sessions>>

\* An invalid frame on an INBOX topic: the handler sleeps before it retries.
DeliverInvalid(h) ==
  /\ stage[h] = "idle"
  /\ frames < MaxFrames
  /\ Wait(h, "retrying")
  /\ frames' = frames + 1
  /\ UNCHANGED <<frame, publications, crashes, registry, sessions>>

\* Mistake: the return after handleInvalidFrame is missing.
RetryDoneThenParse(h) ==
  /\ stage[h] = "retrying"
  /\ Wait(h, "parsing")
  /\ UNCHANGED <<frame, publications, frames, crashes, registry, sessions>>

\* The handler gives up at once or sends its retry request after the sleep.
RetryDone(h) ==
  /\ stage[h] = "retrying"
  /\ Return(h)
  /\ UNCHANGED <<publications, frames, crashes, registry, sessions>>

\* parseFrame rejects, or answers parsed = false.
ParseFails(h) ==
  /\ stage[h] = "parsing"
  /\ Return(h)
  /\ UNCHANGED <<publications, frames, crashes, registry, sessions>>

\* Mistake: the frame is not given to the MQTT client.
PublishNothing(h) == UNCHANGED publications

\* publishParsedData gives the frame to the MQTT client and does not wait for what
\* becomes of it: a failure, reported to a callback or thrown, is only logged, and
\* the handler goes on.
PublishParsedData(h) ==
  \/ published' = published \cup {frame[h]} /\ UNCHANGED unpublished
  \/ unpublished' = unpublished \cup {frame[h]} /\ UNCHANGED published

\* parseFrame answers parsed = true: publishParsedData, then processMessage up
\* to its first wait.  First, evse_state on a registration topic.
ProcessRegistration(h) ==
  /\ stage[h] = "parsing"
  /\ frame[h] \in StateFrame
  /\ frame[h].topic = "REGISTER"
  /\ PublishParsedData(h)
  /\ Registry!RegisterDevice(frame[h].device, StateDataOf(frame[h]))
  /\ Wait(h, "subscribing")
  /\ UNCHANGED <<frame, frames, crashes, sessions>>

\* Mistake: an evse_state without a fault registers its device anew.
ProcessStateAsRegistration(h) ==
  /\ stage[h] = "parsing"
  /\ frame[h] \in StateFrame
  /\ frame[h].topic = "INBOX"
  /\ PublishParsedData(h)
  /\ IF frame[h].fault = {}
     THEN Registry!RegisterDevice(frame[h].device, StateDataOf(frame[h]))
     ELSE Registry!UpdateDeviceState(h, frame[h].device, StateDataOf(frame[h]))
  /\ IF reporting'[h] # NoReport
     THEN Wait(h, "reporting") /\ UNCHANGED frame
     ELSE Return(h)
  /\ UNCHANGED <<frames, crashes, sessions>>

\* Mistake: a device that has just been registered has its fault handled too.
ProcessStateTwice(h) ==
  /\ stage[h] = "parsing"
  /\ frame[h] \in StateFrame
  /\ frame[h].topic = "INBOX"
  /\ PublishParsedData(h)
  /\ devices' = [devices EXCEPT ![frame[h].device] =
       [Registry!NewDevice(frame[h].device, StateDataOf(frame[h]))
          EXCEPT !.lastError = frame[h].fault]]
  /\ UNCHANGED <<reporting, attempted>>
  /\ Return(h)
  /\ UNCHANGED <<frames, crashes, sessions>>

\* Mistake: the handler does not await the report.
ProcessStateNotAwaited(h) ==
  /\ stage[h] = "parsing"
  /\ frame[h] \in StateFrame
  /\ frame[h].topic = "INBOX"
  /\ PublishParsedData(h)
  /\ Registry!UpdateDeviceState(h, frame[h].device, StateDataOf(frame[h]))
  /\ Return(h)
  /\ UNCHANGED <<frames, crashes, sessions>>

\* evse_state on a device topic: updateDeviceState, which waits if it reports.
ProcessState(h) ==
  /\ stage[h] = "parsing"
  /\ frame[h] \in StateFrame
  /\ frame[h].topic = "INBOX"
  /\ PublishParsedData(h)
  /\ Registry!UpdateDeviceState(h, frame[h].device, StateDataOf(frame[h]))
  /\ IF reporting'[h] # NoReport
     THEN Wait(h, "reporting") /\ UNCHANGED frame
     ELSE Return(h)
  /\ UNCHANGED <<frames, crashes, sessions>>

\* evse_session: handleSessionData, which waits for its save.
ProcessSession(h) ==
  /\ stage[h] = "parsing"
  /\ frame[h] \in SessionFrame
  /\ PublishParsedData(h)
  /\ Sessions!HandleSessionData(h, SessionKeyOf(frame[h]), frame[h].reading)
  /\ Wait(h, "saving")
  /\ UNCHANGED <<frame, frames, crashes, registry>>

\* evse_data1 and evse_data2: publishMetrics.
ProcessMetrics(h) ==
  /\ stage[h] = "parsing"
  /\ frame[h] \in MetricFrame
  /\ PublishParsedData(h)
  /\ Wait(h, "metrics")
  /\ UNCHANGED <<frame, frames, crashes, registry, sessions>>

\* Any other message, and the "Unknown" of an undecodable one, is only published.
ProcessOther(h) ==
  /\ stage[h] = "parsing"
  /\ frame[h] \in OtherFrame
  /\ PublishParsedData(h)
  /\ Return(h)
  /\ UNCHANGED <<frames, crashes, registry, sessions>>

\* The broker confirms the subscription, or Redis the metrics, or an error is
\* caught: either way the handler returns.
WaitOver(h) ==
  /\ stage[h] \in {"subscribing", "metrics"}
  /\ Return(h)
  /\ UNCHANGED <<publications, frames, crashes, registry, sessions>>

ReportOver(h) ==
  /\ stage[h] = "reporting"
  /\ Registry!ReportReturns(h)
  /\ Return(h)
  /\ UNCHANGED <<publications, frames, crashes, sessions>>

\* Mistake: a save that fails leaves the handler waiting.
SaveOverIfAnswered(h) ==
  /\ stage[h] = "saving"
  /\ Sessions!SaveAnswered(h)
  /\ Return(h)
  /\ UNCHANGED <<publications, frames, crashes, registry>>

\* Mistake: a save that fails is sent again, though the backend may have it.
SaveOverRetrying(h) ==
  /\ stage[h] = "saving"
  /\ \/ Sessions!SaveAnswered(h) /\ Return(h)
     \/ /\ network' = network \cup {saving[h]}
        /\ UNCHANGED <<stage, frame, activeSessions, saving, backend, readings, unordered>>
  /\ UNCHANGED <<publications, frames, crashes, registry>>

\* The answer to the save, or its failure: both are logged, and the handler returns.
SaveOver(h) ==
  /\ stage[h] = "saving"
  /\ Sessions!SaveAnswered(h) \/ Sessions!SaveFails(h)
  /\ Return(h)
  /\ UNCHANGED <<publications, frames, crashes, registry>>

\* The Main Backend handles a save request.
BackendStep ==
  /\ \E q \in network : Sessions!SaveStored(q) \/ Sessions!SaveRefused(q)
  /\ UNCHANGED <<own, registry>>

\* The process dies and is restarted: every handler and every map is gone.  The
\* histories of publications begin anew with the maps.
Crash ==
  /\ crashes < MaxCrashes
  /\ crashes' = crashes + 1
  /\ stage' = [h \in Handler |-> "idle"]
  /\ frame' = [h \in Handler |-> NoFrame]
  /\ Registry!Restart
  /\ Sessions!Restart
  /\ published' = {}
  /\ unpublished' = {}
  /\ UNCHANGED frames

-----------------------------------------------------------------------------
ProcessMessage(h) ==
  \/ ProcessRegistration(h)
  \/ ProcessState(h)
  \/ ProcessSession(h)
  \/ ProcessMetrics(h)
  \/ ProcessOther(h)

\* What brings a suspended handler on its way again.
Resume(h) ==
  \/ RetryDone(h)
  \/ ParseFails(h)
  \/ ProcessMessage(h)
  \/ WaitOver(h)
  \/ ReportOver(h)
  \/ SaveOver(h)

Next ==
  \/ \E h \in Handler :
       \/ \E f \in Frame : DeliverValid(h, f)
       \/ DeliverInvalid(h)
       \/ Resume(h)
  \/ BackendStep
  \/ Crash

\* Timers fire.
TimersFire == \A h \in Handler : WF_vars(RetryDone(h))

\* An assumption on the peers, since no call has a deadline: the DBC service, the
\* Main Backend, the broker and Redis answer, or the connection to them fails.
PeersAnswer ==
  \A h \in Handler :
    /\ WF_vars(ParseFails(h) \/ ProcessMessage(h))
    /\ WF_vars(WaitOver(h) \/ ReportOver(h) \/ SaveOver(h))

Fairness == TimersFire /\ PeersAnswer

Spec == Init /\ [][Next]_vars /\ Fairness

-----------------------------------------------------------------------------
\* Type correctness of the handlers; the components have their own.
TypeOK ==
  /\ stage \in [Handler -> Stage]
  /\ frame \in [Handler -> Frame \cup {NoFrame}]
  /\ \A h \in Handler : stage[h] \notin {"idle", "retrying"} => frame[h] \in Frame
  /\ published \subseteq Frame /\ unpublished \subseteq Frame
  /\ frames \in 0 .. MaxFrames
  /\ crashes \in 0 .. MaxCrashes

\* A handler awaits one thing at a time, and the component it awaits agrees: no
\* report or save is under way for a handler that is not waiting for it.
WaitsAgree ==
  \A h \in Handler :
    /\ reporting[h] # NoReport <=> stage[h] = "reporting"
    /\ saving[h] # NoSave <=> stage[h] = "saving"

\* The frames this run of the process has tried to publish.
Offered == published \cup unpublished

\* Publishing a frame and applying it to the maps are separate steps of a handler
\* (publishParsedData, processMessage), and the first may fail unnoticed.  Yet
\* subscribers of the DBC_PARSED topics and the maps never disagree but by a failed
\* publication: each device, error and session shown stems from a frame of that
\* device that subscribers got, or whose publication failed; and the maps know
\* every device and port in session that subscribers have heard of since the
\* service started.
SubscribersAgreeWithMaps ==
  /\ \A a \in Address : Registry!Known(a) =>
       \E f \in Offered \cap StateFrame : f.device = a
  /\ \A a \in Address : Registry!HasError(a) =>
       \E f \in Offered \cap StateFrame :
         f.device = a /\ f.topic = "INBOX" /\ f.fault = devices[a].lastError
  /\ \A k \in Sessions!Key : activeSessions[k] # NoSession =>
       \E f \in Offered \cap SessionFrame :
         SessionKeyOf(f) = k /\ f.reading.sessionId = activeSessions[k].sessionId
  /\ \A f \in published \cap StateFrame : Registry!Known(f.device)
  /\ \A f \in published \cap SessionFrame : activeSessions[SessionKeyOf(f)] # NoSession

\* The error of a device ends only when the device registers anew or the service
\* restarts, whatever else its handlers and those of others do.
ErrorsEndByRegistration ==
  [][\A a \in Address : (Registry!HasError(a) /\ ~Registry!HasError(a)') =>
       \/ crashes' # crashes
       \/ \E h \in Handler : /\ stage[h] = "parsing" /\ stage'[h] = "subscribing"
                             /\ frame[h].device = a]_vars

\* handleMessage uses DeviceService and SessionService as they are specified: none of
\* its paths changes a map, a report or a save under way but by their operations.
\* What is proved of the two components carries over to the service through this.
RegistryImplemented == Registry!Spec
SessionsImplemented == Sessions!Spec

\* No handler waits for ever: none is leaked by a failed call to the parser, the
\* backend, the broker or Redis.
HandlersReturn == \A h \in Handler : []<>(stage[h] = "idle")
=============================================================================
