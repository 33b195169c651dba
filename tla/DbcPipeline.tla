----------------------------- MODULE DbcPipeline -----------------------------
(***************************************************************************)
(* The DBC service with its clients: handlers of MqttService, each of      *)
(* which validates a frame, sends it to ParseFrame through GrpcDbcService  *)
(* and acts on the answer, and any other client, which may send anything.  *)
(***************************************************************************)
EXTENDS DbcService

CONSTANTS Handler,       \* the calls made by handlers
          Handled        \* names processMessage acts on

VARIABLES handler,       \* per handler: "none", "asking" or "returned"
          published,     \* calls whose answer went to a DBC_PARSED topic
          acted          \* calls whose answer processMessage acted on

clients == <<handler, published, acted>>
pipeline == <<vars, clients>>

ASSUME PipelineAssumption ==
  Handler \subseteq Call /\ Handled \subseteq MessageName \ {"Unknown"}

PipelineInit ==
  /\ Init
  /\ handler = [c \in Handler |-> "none"]
  /\ published = {}
  /\ acted = {}

-----------------------------------------------------------------------------
\* Mistake: frames are passed on unchecked.
AnyFrame(r) == r \in CanFrame

\* validateFrame, see FrameCheck: twelve bytes with the right CRC.
ValidateFrame(r) == r \in CanFrame /\ r.intact

\* A handler awaits parseFrame; a service that cannot be reached makes it reject.
HandleMessage(c, r) ==
  /\ ValidateFrame(r)
  /\ CallParseFrame(c, r) \/ CallRefused(c)
  /\ handler' = [handler EXCEPT ![c] = "asking"]
  /\ UNCHANGED <<published, acted>>

\* parseFrame rejects: the handler logs the error and returns.
ParseFrameRejects(c) ==
  /\ handler[c] = "asking"
  /\ stage[c] = "failed"
  /\ handler' = [handler EXCEPT ![c] = "returned"]
  /\ UNCHANGED <<vars, published, acted>>

\* parseFrame answers: an answer that is parsed is published, unless that fails,
\* and dispatched by its message name.
ParseFrameResolves(c) ==
  /\ handler[c] = "asking"
  /\ stage[c] = "ok"
  /\ handler' = [handler EXCEPT ![c] = "returned"]
  /\ \/ answered[c][1].parsed /\ published' = published \cup {c}
     \/ UNCHANGED published
  /\ acted' = IF answered[c][1].parsed /\ answered[c][1].message_name \in Handled
              THEN acted \cup {c} ELSE acted
  /\ UNCHANGED vars

PipelineNext ==
  \/ (Lifecycle \/ ParseCalls) /\ UNCHANGED clients
  \/ \E c \in Call \ Handler : Client(c) /\ UNCHANGED clients
  \/ \E c \in Handler :
       \/ Cancelled(c) /\ UNCHANGED clients
       \/ \E r \in CanFrame : HandleMessage(c, r)
       \/ ParseFrameRejects(c) \/ ParseFrameResolves(c)

HandlersRun == \A c \in Handler : WF_pipeline(ParseFrameRejects(c) \/ ParseFrameResolves(c))

PipelineSpec == PipelineInit /\ [][PipelineNext]_pipeline /\ LoopRuns /\ HandlersRun

-----------------------------------------------------------------------------
\* The service calls a damaged or undecodable frame parsed and its CRC valid; yet
\* what a handler publishes is of an intact frame, and what it acts on was decoded
\* by the DBC file.
ActsOnDecodedFrames ==
  /\ \A c \in published : asked[c][1].intact
  /\ \A c \in acted :
       /\ answered[c][1].message_name = Dbc[asked[c][1].id]
       /\ answered[c][1].device_address = asked[c][1].device

\* GrpcDbcService sets no deadline, but a handler never waits for ever: the
\* service answers, cancels when it is told to stop, or ends the connection.
HandlersAnswered == \A c \in Handler : handler[c] = "asking" ~> handler[c] = "returned"
=============================================================================
