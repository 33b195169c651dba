------------------------------ MODULE DbcService ------------------------------
(***************************************************************************)
(* The DBC service: a gRPC server on one asyncio loop that decodes frames  *)
(* by a DBC file, and its life cycle.  ParseFrame awaits nothing that      *)
(* waits, so a frame is answered in one step; ParseBatch is suspended at   *)
(* every yield.  A signal starts a task that nobody awaits and that shuts  *)
(* the service down, while main waits in start for the server's end.       *)
(*                                                                         *)
(* The server itself is grpc.aio: stop(grace) refuses new calls, waits for *)
(* those under way up to the grace period and then cancels them; every     *)
(* caller of stop waits for that, one that comes later returns at once.    *)
(***************************************************************************)
EXTENDS Naturals, Sequences

CONSTANTS Call, CanId, MessageName, Dbc, NoMessage, CanFrame, Malformed,
          Task,          \* bound: signals to one process
          MaxBatch,      \* bound: frames of a batch
          MaxStarts      \* bound: starts of the process

VARIABLES phase,         \* where main is: "down", "starting" or "serving"
          server,        \* "none", "running", "stopping" or "stopped"
          task,          \* shutdown tasks: "none", "created", "stopping", "done"
          running,       \* DBCService.running
          loaded,        \* whether DBCProcessor.db is set
          messageCache,  \* DBCProcessor._message_cache
          messageNames,  \* DBCProcessor._message_names
          starts,        \* history: starts so far
          asked,         \* per call, its frames
          answered,      \* per call, the answers sent
          stage          \* per call: "none", "unary", "streaming", "ok" or "failed"

process == <<phase, server, task, running, loaded, starts>>
caches == <<messageCache, messageNames>>
calls == <<asked, answered, stage>>
vars == <<process, caches, calls>>

IsOpen(s) == s \in {"unary", "streaming"}
Open == {c \in Call : IsOpen(stage[c])}

Answers == INSTANCE FrameAnswers WITH
  outcome <- [c \in Call |-> IF IsOpen(stage[c]) THEN "open" ELSE stage[c]]

ASSUME ServiceAssumption ==
  /\ Answers!DbcAssumption
  /\ MaxBatch \in Nat /\ MaxStarts \in Nat

Empty == [id \in CanId |-> NoMessage]

Init ==
  /\ phase = "down"
  /\ server = "none"
  /\ task = [t \in Task |-> "none"]
  /\ running = FALSE
  /\ loaded = FALSE
  /\ messageCache = Empty
  /\ messageNames = Empty
  /\ starts = 0
  /\ asked = [c \in Call |-> <<>>]
  /\ answered = [c \in Call |-> <<>>]
  /\ stage = [c \in Call |-> "none"]

-----------------------------------------------------------------------------
\* FrameParser.parse: any twelve bytes are a frame, the CRC is not computed.
Parses(r) == r \in CanFrame

\* The cache first, then the DBC file, which raises KeyError for an unknown id.
Lookup(id) == IF messageCache[id] # NoMessage THEN messageCache[id] ELSE Dbc[id]

\* Mistake: no default for a name that is not in the cache of names.
NameWithoutDefault(id) == messageNames[id]

\* The answer's message name.
Name(id) ==
  IF Lookup(id) = NoMessage THEN "Unknown"
  ELSE IF messageNames[id] # NoMessage THEN messageNames[id] ELSE Lookup(id)

\* ParseFrame.  Errors end in an answer; one of the processor for an unknown id
\* is an object that is not parsed, of which the server makes an answer that is.
ParseFrame(r) ==
  IF Parses(r) /\ loaded THEN Answers!Decoded(r, Name(r.id)) ELSE Answers!Rejected

\* A message that was not in the cache is there afterwards.
Remember(r) ==
  /\ messageCache' = IF Parses(r) /\ loaded
                     THEN [messageCache EXCEPT ![r.id] = Lookup(r.id)] ELSE messageCache
  /\ UNCHANGED messageNames

AnswerNext(c) ==
  LET r == asked[c][Len(answered[c]) + 1]
  IN  /\ answered' = [answered EXCEPT ![c] = Append(@, ParseFrame(r))]
      /\ Remember(r)
      /\ UNCHANGED <<process, asked>>

\* Mistake: a frame that cannot be answered ends the batch.
ExhaustedByError(c) ==
  \/ Len(answered[c]) = Len(asked[c])
  \/ answered[c] # <<>> /\ answered[c][Len(answered[c])] = Answers!Rejected

\* The loop of ParseBatch is through with its frames.
Exhausted(c) == Len(answered[c]) = Len(asked[c])

End(c, s) == stage' = [stage EXCEPT ![c] = s]

CallParseFrame(c, r) ==
  /\ stage[c] = "none" /\ server = "running"
  /\ asked' = [asked EXCEPT ![c] = <<r>>]
  /\ End(c, "unary")
  /\ UNCHANGED <<process, caches, answered>>

CallParseBatch(c, frames) ==
  /\ stage[c] = "none" /\ server = "running"
  /\ asked' = [asked EXCEPT ![c] = frames]
  /\ End(c, "streaming")
  /\ UNCHANGED <<process, caches, answered>>

\* Nobody listens, or the server is about to stop: it sees nothing of the call.
CallRefused(c) ==
  /\ stage[c] = "none" /\ server # "running"
  /\ End(c, "failed")
  /\ UNCHANGED <<process, caches, asked, answered>>

\* Mistake: an id that is not in the DBC file is waited for.
ParseFrameAwaitsMessage(c) ==
  /\ stage[c] = "unary" /\ server \in {"running", "stopping"}
  /\ Parses(asked[c][1]) => Lookup(asked[c][1].id) # NoMessage
  /\ AnswerNext(c)
  /\ End(c, "ok")

ParseFrameReturns(c) ==
  /\ stage[c] = "unary" /\ server \in {"running", "stopping"}
  /\ AnswerNext(c)
  /\ End(c, "ok")

ParseBatchYields(c) ==
  /\ stage[c] = "streaming" /\ server \in {"running", "stopping"}
  /\ ~Exhausted(c)
  /\ AnswerNext(c)
  /\ UNCHANGED stage

ParseBatchReturns(c) ==
  /\ stage[c] = "streaming" /\ server \in {"running", "stopping"}
  /\ Exhausted(c)
  /\ End(c, "ok")
  /\ UNCHANGED <<process, caches, asked, answered>>

\* The client cancels, or its connection is lost.
Cancelled(c) ==
  /\ c \in Open
  /\ End(c, "failed")
  /\ UNCHANGED <<process, caches, asked, answered>>

-----------------------------------------------------------------------------
PreloadAllMessages == messageCache' = Dbc /\ messageNames' = Dbc

Initialize == loaded' = TRUE /\ PreloadAllMessages

StartServer == server = "none" /\ server' = "running"

\* main and start, up to the wait for the server's start; the metrics server runs
\* in a thread of its own.
Start ==
  /\ phase = "down" /\ starts < MaxStarts
  /\ Initialize
  /\ StartServer
  /\ phase' = "starting"
  /\ starts' = starts + 1
  /\ UNCHANGED <<task, running, calls>>

\* No DBC file, or a port that is taken: main raises and the process ends.
StartFails ==
  /\ phase = "down" /\ starts < MaxStarts
  /\ starts' = starts + 1
  /\ UNCHANGED <<phase, server, task, running, loaded, caches, calls>>

\* start goes on when the server has started, and waits for its end in serve.
\* A shutdown may have begun by then; running is set all the same.
Serve ==
  /\ phase = "starting"
  /\ phase' = "serving"
  /\ running' = TRUE
  /\ UNCHANGED <<server, task, loaded, starts, caches, calls>>

\* SIGINT or SIGTERM.
Signal(t) ==
  /\ phase # "down" /\ task[t] = "none"
  /\ task' = [task EXCEPT ![t] = "created"]
  /\ UNCHANGED <<phase, server, running, loaded, starts, caches, calls>>

\* FrameParser.close does nothing, DBCProcessor.close clears the caches; the
\* metrics server is not stopped at all.
Close == messageCache' = Empty /\ messageNames' = Empty

StopServer == server' = "stopping"

\* Mistake: the processor is closed before the server has stopped.
ShutdownClosesFirst(t) ==
  /\ task[t] = "created"
  /\ running' = FALSE
  /\ Close
  /\ IF server = "running" THEN StopServer ELSE UNCHANGED server
  /\ task' = [task EXCEPT ![t] = "stopping"]
  /\ UNCHANGED <<phase, loaded, starts, calls>>

\* shutdown up to its wait for the server; without a wait if it has stopped.
Shutdown(t) ==
  /\ task[t] = "created"
  /\ running' = FALSE
  /\ \/ /\ server # "stopped"
        /\ StopServer
        /\ task' = [task EXCEPT ![t] = "stopping"]
        /\ UNCHANGED caches
     \/ /\ server = "stopped"
        /\ task' = [task EXCEPT ![t] = "done"]
        /\ Close
        /\ UNCHANGED server
  /\ UNCHANGED <<phase, loaded, starts, calls>>

FailOpenCalls == stage' = [c \in Call |-> IF IsOpen(stage[c]) THEN "failed" ELSE stage[c]]

\* Mistake: the server waits for its calls however long they take.
GraceEndless == FALSE /\ UNCHANGED vars

\* The grace period is over: the calls under way are cancelled.
GraceOver ==
  /\ server = "stopping" /\ Open # {}
  /\ FailOpenCalls
  /\ UNCHANGED <<process, caches, asked, answered>>

ServerStopped ==
  /\ server = "stopping" /\ Open = {}
  /\ server' = "stopped"
  /\ UNCHANGED <<phase, task, running, loaded, starts, caches, calls>>

\* The rest of shutdown.
ShutdownEnds(t) ==
  /\ task[t] = "stopping" /\ server = "stopped"
  /\ task' = [task EXCEPT ![t] = "done"]
  /\ Close
  /\ UNCHANGED <<phase, server, running, loaded, starts, calls>>

\* The process ends, and with it whatever it has not finished.
Exit ==
  /\ phase' = "down"
  /\ server' = "none"
  /\ task' = [t \in Task |-> "none"]
  /\ running' = FALSE
  /\ loaded' = FALSE
  /\ messageCache' = Empty
  /\ messageNames' = Empty
  /\ FailOpenCalls
  /\ UNCHANGED <<starts, asked, answered>>

\* serve returns once the server has stopped, and main with it: the tasks still
\* under way are cancelled.
MainReturns == phase = "serving" /\ server = "stopped" /\ Exit

Crash == phase # "down" /\ Exit

-----------------------------------------------------------------------------
Lifecycle ==
  \/ Start \/ StartFails \/ Serve \/ GraceOver \/ ServerStopped \/ MainReturns \/ Crash
  \/ \E t \in Task : Signal(t) \/ Shutdown(t) \/ ShutdownEnds(t)

ParseCalls ==
  \E c \in Call : ParseFrameReturns(c) \/ ParseBatchYields(c) \/ ParseBatchReturns(c)

Client(c) ==
  \/ \E r \in Answers!FrameData : CallParseFrame(c, r)
  \/ \E n \in 0 .. MaxBatch : \E frames \in [1 .. n -> Answers!FrameData] : CallParseBatch(c, frames)
  \/ CallRefused(c) \/ Cancelled(c)

Next == Lifecycle \/ ParseCalls \/ \E c \in Call : Client(c)

\* The event loop runs what is ready, and the grace period ends.  A batch waits
\* for its client to read, so nothing is assumed of it.
LoopRuns ==
  /\ WF_vars(Serve) /\ WF_vars(GraceOver) /\ WF_vars(ServerStopped) /\ WF_vars(MainReturns)
  /\ \A t \in Task : WF_vars(Shutdown(t))
  /\ \A c \in Call : WF_vars(ParseFrameReturns(c))

Spec == Init /\ [][Next]_vars /\ LoopRuns

-----------------------------------------------------------------------------
TypeOK ==
  /\ phase \in {"down", "starting", "serving"}
  /\ server \in {"none", "running", "stopping", "stopped"}
  /\ task \in [Task -> {"none", "created", "stopping", "done"}]
  /\ running \in BOOLEAN /\ loaded \in BOOLEAN
  /\ messageCache \in [CanId -> MessageName \cup {NoMessage}]
  /\ messageNames \in [CanId -> MessageName \cup {NoMessage}]
  /\ starts \in 0 .. MaxStarts
  /\ asked \in [Call -> Seq(Answers!FrameData)]
  /\ answered \in [Call -> Seq(Answers!Response)]
  /\ stage \in [Call -> {"none", "unary", "streaming", "ok", "failed"}]

\* Shutdown tasks, the grace period and the end of main race with the calls, and
\* yet no call is ever answered by a service without its DBC file or its caches:
\* they are cleared only when no call is left.
WarmWhileServing ==
  Open # {} => loaded /\ messageCache = Dbc /\ messageNames = Dbc

\* The service keeps the promise of FrameAnswers: whatever its caches, its life
\* cycle, other calls and a batch's bad frames do, answers come in order, one for
\* each frame, and depend on the frame alone.
AnswersImplemented == Answers!Spec

\* Nobody awaits the shutdown task, a client may keep a batch open for ever, and a
\* second signal may come: a signal stops the process all the same.
SignalStops == \A t \in Task : task[t] # "none" ~> phase = "down"

-----------------------------------------------------------------------------
\* What the tests say of the answers, and the code does not do.

\* A frame whose id the DBC file does not have, or whose checksum is wrong, is called
\* not parsed, or its CRC not valid: _process_sync notes the error of an unknown id
\* and ParseFrame must pass it on, and FrameParser must look at the checksum.
BadFrameReported ==
  \A c \in Call : \A i \in 1 .. Len(answered[c]) :
    asked[c][i] \in CanFrame /\ Answers!Disputed(asked[c][i])
      => ~(answered[c][i].parsed /\ answered[c][i].crc_valid)
=============================================================================
