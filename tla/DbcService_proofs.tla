-------------------------- MODULE DbcService_proofs --------------------------
(***************************************************************************)
(* Proofs about DbcService and DbcPipeline, for any number of calls,       *)
(* frames, signals and starts and any DBC file: no call is answered        *)
(* without the DBC file and its caches, the service keeps the promise of   *)
(* FrameAnswers, and handlers act on decoded frames only.  The service     *)
(* with handlers among its clients is the service on its own, so what is   *)
(* proved of the one holds for the other.                                  *)
(***************************************************************************)
EXTENDS DbcPipeline, TLAPS

\* Where main, the server and the shutdown tasks can be together, and which of
\* it leaves calls open and the caches filled.
LifecycleInv ==
  /\ phase = "down" <=> server = "none"
  /\ phase = "down" => \A t \in Task : task[t] = "none"
  /\ server \in {"none", "stopped"} => Open = {}
  /\ server \in {"running", "stopping"} => loaded /\ messageCache = Dbc /\ messageNames = Dbc

\* How far the answers of a call can be.
CallsInv ==
  \A c \in Call :
    /\ stage[c] = "none" => asked[c] = <<>> /\ answered[c] = <<>>
    /\ stage[c] = "unary" => Len(asked[c]) = 1 /\ answered[c] = <<>>
    /\ stage[c] = "streaming" => Len(answered[c]) <= Len(asked[c])

Inv == TypeOK /\ LifecycleInv /\ CallsInv

\* The answer of a service whose DBC file is loaded and whose caches are full.
WarmAnswer(r) ==
  IF r \in Malformed THEN Answers!Rejected ELSE Answers!Decoded(r, Answers!NameInDbc(r))

-----------------------------------------------------------------------------
\* A server that runs answers as one with full caches.
LEMMA ParseFrameIsWarm ==
  ASSUME LifecycleInv, server \in {"running", "stopping"}, NEW r \in Answers!FrameData
  PROVE  ParseFrame(r) = WarmAnswer(r)
<1>1. loaded /\ messageCache = Dbc /\ messageNames = Dbc
  BY DEF LifecycleInv
<1>2. CanFrame \cap Malformed = {}
  BY ServiceAssumption DEF Answers!DbcAssumption
<1> QED
  BY <1>1, <1>2 DEF ParseFrame, Parses, Name, Lookup, WarmAnswer, Answers!NameInDbc,
     Answers!FrameData

\* What is promised is a response.
LEMMA PromiseIsResponse ==
  ASSUME NEW r \in Answers!FrameData
  PROVE  Answers!Promise(r) \subseteq Answers!Response
<1>1. Answers!Rejected \in Answers!Response
  BY DEF Answers!Rejected, Answers!Response
<1>2. CASE r \in Malformed
  BY <1>1, <1>2 DEF Answers!Promise
<1>3. CASE r \notin Malformed
  <2>1. r \in [device : Nat, id : CanId, intact : BOOLEAN]
    BY <1>3, ServiceAssumption DEF Answers!FrameData, Answers!DbcAssumption
  <2>2. Answers!NameInDbc(r) \in MessageName \cup {"Unknown"}
    BY <2>1, ServiceAssumption DEF Answers!NameInDbc, Answers!DbcAssumption
  <2>3. Answers!Decoded(r, Answers!NameInDbc(r)) \in Answers!Response
    BY <2>1, <2>2 DEF Answers!Decoded, Answers!Response
  <2> QED
    BY <1>1, <1>3, <2>3 DEF Answers!Promise
<1> QED
  BY <1>2, <1>3

\* The answer of full caches is one of those promised.
LEMMA WarmAnswerIsPromised ==
  ASSUME NEW r \in Answers!FrameData
  PROVE  WarmAnswer(r) \in Answers!Promise(r)
BY DEF WarmAnswer, Answers!Promise

\* Full caches stay as they are.
LEMMA RememberKeepsCaches ==
  ASSUME Inv, server \in {"running", "stopping"}, NEW r \in Answers!FrameData, Remember(r)
  PROVE  UNCHANGED caches
<1>1. messageCache = Dbc /\ Dbc \in [CanId -> MessageName \cup {NoMessage}]
  BY ServiceAssumption DEF Inv, LifecycleInv, Answers!DbcAssumption
<1>2. [messageCache EXCEPT ![r.id] = Lookup(r.id)] = messageCache
  BY <1>1 DEF Lookup
<1> QED
  BY <1>2 DEF Remember, caches

\* One answer more, that of full caches.
LEMMA AnswerNextAppends ==
  ASSUME Inv, server \in {"running", "stopping"}, NEW c \in Call,
         Len(answered[c]) < Len(asked[c]), AnswerNext(c)
  PROVE  LET r == asked[c][Len(answered[c]) + 1]
             a == WarmAnswer(r)
         IN  /\ a \in Answers!Response /\ a \in Answers!Promise(r)
             /\ answered' = [answered EXCEPT ![c] = Append(@, a)]
             /\ Len(answered'[c]) = Len(answered[c]) + 1
             /\ UNCHANGED <<process, caches, asked>>
<1> DEFINE r == asked[c][Len(answered[c]) + 1]
<1>1. r \in Answers!FrameData
  BY DEF Inv, TypeOK
<1>2. ParseFrame(r) = WarmAnswer(r)
  BY <1>1, ParseFrameIsWarm DEF Inv
<1>3. Remember(r)
  BY DEF AnswerNext
<1>4. UNCHANGED caches
  BY <1>1, <1>3, RememberKeepsCaches
<1>5. WarmAnswer(r) \in Answers!Promise(r) /\ WarmAnswer(r) \in Answers!Response
  BY <1>1, WarmAnswerIsPromised, PromiseIsResponse
<1>6. answered' = [answered EXCEPT ![c] = Append(@, WarmAnswer(r))] /\ UNCHANGED <<process, asked>>
  BY <1>2 DEF AnswerNext
<1>7. Len(answered'[c]) = Len(answered[c]) + 1
  BY <1>5, <1>6 DEF Inv, TypeOK
<1> QED
  BY <1>4, <1>5, <1>6, <1>7

-----------------------------------------------------------------------------
LEMMA InvInit == Init => Inv
<1> SUFFICES ASSUME Init PROVE Inv
  OBVIOUS
<1> USE DEF Init
<1>1. TypeOK
  <2>1. <<>> \in Seq(Answers!FrameData) /\ <<>> \in Seq(Answers!Response)
    OBVIOUS
  <2>2. 0 \in 0 .. MaxStarts
    BY ServiceAssumption
  <2> QED
    BY <2>1, <2>2 DEF TypeOK, Empty
<1>2. LifecycleInv
  BY DEF LifecycleInv, Open, IsOpen
<1>3. CallsInv
  BY DEF CallsInv
<1> QED
  BY <1>1, <1>2, <1>3 DEF Inv

\* The life cycle: calls are only ever ended, caches filled before the server
\* runs and cleared after it has stopped.
LEMMA LifecycleKeepsInv ==
  ASSUME Inv, Lifecycle
  PROVE  Inv'
<1> USE DEF Inv, TypeOK, LifecycleInv, CallsInv, process, caches, calls
<1>1. CASE Start
  BY <1>1, ServiceAssumption DEF Start, Initialize, PreloadAllMessages, StartServer,
     Answers!DbcAssumption, Open
<1>2. CASE StartFails
  BY <1>2, ServiceAssumption DEF StartFails, Open
<1>3. CASE Serve
  BY <1>3 DEF Serve, Open
<1>4. CASE GraceOver
  BY <1>4 DEF GraceOver, FailOpenCalls, Open, IsOpen
<1>5. CASE ServerStopped
  BY <1>5 DEF ServerStopped, Open
<1>6. CASE MainReturns \/ Crash
  <2>1. Exit
    BY <1>6 DEF MainReturns, Crash
  <2>2. stage' \in [Call -> {"none", "ok", "failed"}]
    BY <2>1 DEF Exit, FailOpenCalls, IsOpen
  <2>3. \A c \in Call : stage'[c] = "none" => stage[c] = "none"
    BY <2>1 DEF Exit, FailOpenCalls
  <2>4. Open' = {}
    BY <2>2 DEF Open, IsOpen
  <2>5. LifecycleInv' /\ CallsInv'
    BY <2>1, <2>2, <2>3, <2>4 DEF Exit
  <2>6. TypeOK'
    BY <2>1, <2>2 DEF Exit, Empty
  <2> QED
    BY <2>5, <2>6
<1>7. CASE \E t \in Task : Signal(t)
  BY <1>7 DEF Signal, Open
<1>8. CASE \E t \in Task : Shutdown(t)
  <2>1. PICK t \in Task : Shutdown(t)
    BY <1>8
  <2>2. phase # "down" /\ server # "none"
    BY <2>1 DEF Shutdown
  <2>3. CASE server # "stopped"
    BY <2>1, <2>2, <2>3 DEF Shutdown, StopServer, Open
  <2>4. CASE server = "stopped"
    <3>1. Open' = {} /\ UNCHANGED <<phase, server, loaded, starts, asked, answered, stage>>
      BY <2>1, <2>4 DEF Shutdown, StopServer, Open
    <3>2. running' = FALSE /\ messageCache' = Empty /\ messageNames' = Empty
      BY <2>1, <2>4 DEF Shutdown, Close
    <3>3. task' = [task EXCEPT ![t] = "done"]
      BY <2>1, <2>4 DEF Shutdown
    <3> QED
      BY <2>2, <2>4, <3>1, <3>2, <3>3 DEF Empty
  <2> QED
    BY <2>3, <2>4
<1>9. CASE \E t \in Task : ShutdownEnds(t)
  BY <1>9 DEF ShutdownEnds, Close, Empty, Open
<1> QED
  BY <1>1, <1>2, <1>3, <1>4, <1>5, <1>6, <1>7, <1>8, <1>9 DEF Lifecycle

\* An answer is of the right type and leaves process and caches alone.
LEMMA ParseCallsKeepInv ==
  ASSUME Inv, ParseCalls
  PROVE  Inv'
<1>1. PICK c \in Call : ParseFrameReturns(c) \/ ParseBatchYields(c) \/ ParseBatchReturns(c)
  BY DEF ParseCalls
<1>2. asked \in [Call -> Seq(Answers!FrameData)] /\ answered \in [Call -> Seq(Answers!Response)]
  BY DEF Inv, TypeOK
<1>3. CASE ParseFrameReturns(c) \/ ParseBatchYields(c)
  <2> DEFINE a == WarmAnswer(asked[c][Len(answered[c]) + 1])
  <2>1. Len(answered[c]) < Len(asked[c])
    <3>1. CASE ParseFrameReturns(c)
      BY <3>1 DEF Inv, CallsInv, ParseFrameReturns
    <3>2. CASE ParseBatchYields(c)
      <4>1. Len(answered[c]) \in Nat /\ Len(asked[c]) \in Nat
        BY <1>2
      <4> QED
        BY <3>2, <4>1 DEF Inv, CallsInv, ParseBatchYields, Exhausted
    <3> QED
      BY <1>3, <3>1, <3>2
  <2>2. server \in {"running", "stopping"} /\ AnswerNext(c)
    BY <1>3 DEF ParseFrameReturns, ParseBatchYields
  <2>3. /\ a \in Answers!Response
        /\ answered' = [answered EXCEPT ![c] = Append(@, a)]
        /\ UNCHANGED <<process, caches, asked>>
    BY <2>1, <2>2, AnswerNextAppends
  <2>4. answered' \in [Call -> Seq(Answers!Response)]
    BY <1>2, <2>3
  <2>5. Len(answered'[c]) = Len(answered[c]) + 1 /\ \A d \in Call \ {c} : answered'[d] = answered[d]
    BY <1>2, <2>3
  <2>6. stage' = [stage EXCEPT ![c] = "ok"] \/ (stage' = stage /\ stage[c] = "streaming")
    BY <1>3 DEF ParseFrameReturns, ParseBatchYields, End
  <2>7. stage' \in [Call -> {"none", "unary", "streaming", "ok", "failed"}] /\ Open' \subseteq Open
    BY <2>6 DEF Inv, TypeOK, Open, IsOpen
  <2>8. TypeOK'
    BY <2>3, <2>4, <2>7 DEF Inv, TypeOK, process, caches
  <2>9. LifecycleInv'
    BY <2>3, <2>7 DEF Inv, LifecycleInv, process, caches
  <2>10. CallsInv'
    BY <1>2, <2>1, <2>3, <2>5, <2>6 DEF Inv, TypeOK, CallsInv
  <2> QED
    BY <2>8, <2>9, <2>10 DEF Inv
<1>4. CASE ParseBatchReturns(c)
  BY <1>4 DEF ParseBatchReturns, End, Inv, TypeOK, LifecycleInv, CallsInv, process, caches,
     Open, IsOpen
<1> QED
  BY <1>1, <1>3, <1>4

\* A client opens a call while the server runs, or gives one up.
LEMMA ClientKeepsInv ==
  ASSUME Inv, NEW c \in Call, Client(c)
  PROVE  Inv'
<1> USE DEF Inv, TypeOK, LifecycleInv, CallsInv, process, caches, End
<1>1. CASE \E r \in Answers!FrameData : CallParseFrame(c, r)
  BY <1>1 DEF CallParseFrame, Open, IsOpen
<1>2. CASE \E n \in 0 .. MaxBatch : \E frames \in [1 .. n -> Answers!FrameData] : CallParseBatch(c, frames)
  <2>1. PICK n \in 0 .. MaxBatch : \E frames \in [1 .. n -> Answers!FrameData] : CallParseBatch(c, frames)
    BY <1>2
  <2>2. PICK frames \in [1 .. n -> Answers!FrameData] : CallParseBatch(c, frames)
    BY <2>1
  <2>3. n \in Nat
    BY ServiceAssumption
  <2>4. frames \in Seq(Answers!FrameData)
    BY <2>3
  <2>5. answered[c] = <<>> /\ Len(frames) \in Nat
    BY <2>2, <2>4 DEF CallParseBatch
  <2> QED
    BY <2>2, <2>4, <2>5 DEF CallParseBatch, Open, IsOpen
<1>3. CASE CallRefused(c)
  BY <1>3 DEF CallRefused, Open, IsOpen
<1>4. CASE Cancelled(c)
  BY <1>4 DEF Cancelled, Open, IsOpen
<1> QED
  BY <1>1, <1>2, <1>3, <1>4 DEF Client

LEMMA InvStep == Inv /\ [Next]_vars => Inv'
<1> SUFFICES ASSUME Inv, [Next]_vars PROVE Inv'
  OBVIOUS
<1>1. CASE Lifecycle
  BY <1>1, LifecycleKeepsInv
<1>2. CASE ParseCalls
  BY <1>2, ParseCallsKeepInv
<1>3. CASE \E c \in Call : Client(c)
  BY <1>3, ClientKeepsInv
<1>4. CASE UNCHANGED vars
  BY <1>4 DEF vars, process, caches, calls, Inv, TypeOK, LifecycleInv, CallsInv, Open
<1> QED
  BY <1>1, <1>2, <1>3, <1>4 DEF Next

\* The variables of the DBC service keep their types: in particular every answer
\* is a ParseFrameResponse with a name of the DBC file, "Unknown" or none.
THEOREM TypeCorrect == Spec => []TypeOK
<1>1. Inv => TypeOK
  BY DEF Inv
<1> QED
  BY <1>1, InvInit, InvStep, PTL DEF Spec

\* However signals, shutdown tasks, crashes and the end of main interleave with the
\* calls, a call under way finds the DBC file loaded and the caches full.
THEOREM WarmUntilStopped == Spec => []WarmWhileServing
<1>1. Inv => WarmWhileServing
  BY DEF Inv, TypeOK, LifecycleInv, WarmWhileServing
<1> QED
  BY <1>1, InvInit, InvStep, PTL DEF Spec

-----------------------------------------------------------------------------
\* What a client of FrameAnswers sees of a call.
Outcome(s) == IF IsOpen(s) THEN "open" ELSE s

\* The life cycle shows itself to clients as calls that fail, or not at all.
LEMMA LifecycleFailsCalls ==
  ASSUME Inv, Lifecycle
  PROVE  Answers!Next \/ UNCHANGED Answers!vars
<1>1. CASE GraceOver \/ MainReturns \/ Crash
  <2>1. FailOpenCalls /\ UNCHANGED <<asked, answered>>
    BY <1>1 DEF GraceOver, MainReturns, Crash, Exit
  <2>2. PICK lost \in SUBSET Call : lost = Open
    BY DEF Open
  <2>3. \A c \in lost : Outcome(stage[c]) = "open"
    BY <2>2 DEF Open, Outcome
  <2>4. [c \in Call |-> Outcome(stage'[c])] =
        [c \in Call |-> IF c \in lost THEN "failed" ELSE Outcome(stage[c])]
    BY <2>1, <2>2 DEF FailOpenCalls, Outcome, Open, IsOpen
  <2>5. Answers!Fail(lost)
    BY <2>1, <2>3, <2>4 DEF Answers!Fail, Outcome
  <2> QED
    BY <2>5 DEF Answers!Next
<1>2. CASE Start \/ StartFails \/ Serve \/ ServerStopped
           \/ \E t \in Task : Signal(t) \/ Shutdown(t) \/ ShutdownEnds(t)
  <2>1. UNCHANGED calls
    BY <1>2 DEF Start, StartFails, Serve, ServerStopped, Signal, Shutdown, ShutdownEnds
  <2>2. UNCHANGED Answers!vars
    BY <2>1 DEF calls, Answers!vars
  <2> QED
    BY <2>2
<1> QED
  BY <1>1, <1>2 DEF Lifecycle

\* A step of ParseFrame or ParseBatch is an answer in order, or a good end.
LEMMA ParseCallsAnswer ==
  ASSUME Inv, ParseCalls
  PROVE  Answers!Next
<1>1. PICK c \in Call : ParseFrameReturns(c) \/ ParseBatchYields(c) \/ ParseBatchReturns(c)
  BY DEF ParseCalls
<1>2. /\ asked \in [Call -> Seq(Answers!FrameData)]
      /\ answered \in [Call -> Seq(Answers!Response)]
      /\ stage \in [Call -> {"none", "unary", "streaming", "ok", "failed"}]
  BY DEF Inv, TypeOK
<1>3. Len(answered[c]) \in Nat /\ Len(asked[c]) \in Nat
  BY <1>2
<1>4. CASE ParseFrameReturns(c)
  <2>1. Len(answered[c]) = 0 /\ Len(asked[c]) = 1
    BY <1>4 DEF Inv, CallsInv, ParseFrameReturns
  <2>2. server \in {"running", "stopping"} /\ AnswerNext(c)
    BY <1>4 DEF ParseFrameReturns
  <2>3. /\ \E a \in Answers!Promise(asked[c][Len(answered[c]) + 1]) :
             answered' = [answered EXCEPT ![c] = Append(@, a)]
        /\ UNCHANGED asked
    <3> DEFINE r == asked[c][Len(answered[c]) + 1]
               w == WarmAnswer(r)
    <3>1. w \in Answers!Promise(r) /\ answered' = [answered EXCEPT ![c] = Append(@, w)]
          /\ UNCHANGED asked
      BY <2>1, <2>2, AnswerNextAppends
    <3> HIDE DEF r, w
    <3> QED
      BY <3>1 DEF r
  <2>4. Len(answered'[c]) = Len(asked[c])
    <3>1. Inv /\ Len(answered[c]) < Len(asked[c])
      BY <2>1
    <3>2. Len(answered'[c]) = Len(answered[c]) + 1
      BY <2>2, <3>1, AnswerNextAppends
    <3> QED
      BY <2>1, <3>2
  <2>5. /\ Outcome(stage[c]) = "open"
        /\ [d \in Call |-> Outcome(stage'[d])] =
           [[d \in Call |-> Outcome(stage[d])] EXCEPT ![c] = "ok"]
    BY <1>2, <1>4 DEF ParseFrameReturns, End, Outcome, IsOpen
  <2>6. Answers!Answer(c)
    <3>1. Len(answered[c]) < Len(asked[c])
      BY <2>1
    <3> QED
      BY <2>3, <2>4, <2>5, <3>1, Zenon DEF Answers!Answer, Outcome
  <2> QED
    BY <2>6 DEF Answers!Next
<1>5. CASE ParseBatchYields(c)
  <2>1. Len(answered[c]) < Len(asked[c])
    BY <1>3, <1>5 DEF Inv, CallsInv, ParseBatchYields, Exhausted
  <2>2. server \in {"running", "stopping"} /\ AnswerNext(c)
    BY <1>5 DEF ParseBatchYields
  <2>3. /\ \E a \in Answers!Promise(asked[c][Len(answered[c]) + 1]) :
             answered' = [answered EXCEPT ![c] = Append(@, a)]
        /\ UNCHANGED asked
    <3> DEFINE r == asked[c][Len(answered[c]) + 1]
               w == WarmAnswer(r)
    <3>1. w \in Answers!Promise(r) /\ answered' = [answered EXCEPT ![c] = Append(@, w)]
          /\ UNCHANGED asked
      BY <2>1, <2>2, AnswerNextAppends
    <3> HIDE DEF r, w
    <3> QED
      BY <3>1 DEF r
  <2>4. Outcome(stage[c]) = "open" /\ UNCHANGED stage
    BY <1>5 DEF ParseBatchYields, Outcome, IsOpen
  <2>5. Answers!Answer(c)
    BY <2>1, <2>3, <2>4 DEF Answers!Answer, Outcome
  <2> QED
    BY <2>5 DEF Answers!Next
<1>6. CASE ParseBatchReturns(c)
  <2>1. /\ Outcome(stage[c]) = "open"
        /\ [d \in Call |-> Outcome(stage'[d])] =
           [[d \in Call |-> Outcome(stage[d])] EXCEPT ![c] = "ok"]
    BY <1>2, <1>6 DEF ParseBatchReturns, End, Outcome, IsOpen
  <2>2. Answers!Finish(c)
    BY <1>6, <2>1 DEF ParseBatchReturns, Exhausted, Answers!Finish, Outcome
  <2> QED
    BY <2>2 DEF Answers!Next
<1> QED
  BY <1>1, <1>4, <1>5, <1>6

\* Clients ask, are refused, or give up.
LEMMA ClientAsks ==
  ASSUME Inv, NEW c \in Call, Client(c)
  PROVE  Answers!Next
<1>1. /\ asked \in [Call -> Seq(Answers!FrameData)]
      /\ stage \in [Call -> {"none", "unary", "streaming", "ok", "failed"}]
  BY DEF Inv, TypeOK
<1>2. asked' \in [Call -> Seq(Answers!FrameData)]
  BY ClientKeepsInv DEF Inv, TypeOK
<1>3. CASE Cancelled(c)
  <2>1. [d \in Call |-> Outcome(stage'[d])] =
        [d \in Call |-> IF d \in {c} THEN "failed" ELSE Outcome(stage[d])]
    BY <1>1, <1>3 DEF Cancelled, End, Outcome, IsOpen
  <2>2. Answers!Fail({c})
    BY <1>3, <2>1 DEF Cancelled, Open, Answers!Fail, Outcome
  <2> QED
    BY <2>2 DEF Answers!Next
<1>4. CASE ~Cancelled(c)
  <2>1. /\ stage[c] = "none"
        /\ UNCHANGED answered
        /\ stage' = [stage EXCEPT ![c] = stage'[c]] /\ stage'[c] \in {"unary", "streaming", "failed"}
        /\ asked' = [asked EXCEPT ![c] = asked'[c]]
    BY <1>1, <1>4 DEF Client, CallParseFrame, CallParseBatch, CallRefused, End
  <2>2. /\ Outcome(stage[c]) = "none"
        /\ \E o \in {"open", "failed"} :
             [d \in Call |-> Outcome(stage'[d])] =
             [[d \in Call |-> Outcome(stage[d])] EXCEPT ![c] = o]
    <3>1. /\ Outcome(stage'[c]) \in {"open", "failed"}
          /\ [d \in Call |-> Outcome(stage'[d])] =
             [[d \in Call |-> Outcome(stage[d])] EXCEPT ![c] = Outcome(stage'[c])]
      BY <1>1, <2>1 DEF Outcome, IsOpen
    <3> QED
      BY <2>1, <3>1 DEF Outcome, IsOpen
  <2>3. Answers!Ask(c)
    BY <1>2, <2>1, <2>2 DEF Answers!Ask, Outcome
  <2> QED
    BY <2>3 DEF Answers!Next
<1> QED
  BY <1>3, <1>4

\* Every step of the service is one that its clients were promised, or none.
LEMMA StepIsPromised == Inv /\ [Next]_vars => [Answers!Next]_(Answers!vars)
<1>1. CASE UNCHANGED vars
  BY <1>1 DEF vars, calls, Answers!vars
<1> QED
  BY <1>1, LifecycleFailsCalls, ParseCallsAnswer, ClientAsks DEF Next

\* The DBC service keeps its promise: every frame of a call is answered in order, as
\* its content and the DBC file allow, whatever the caches and the life cycle do.
THEOREM PromiseKept == Spec => AnswersImplemented
<1>1. Init => Answers!Init
  BY DEF Init, Answers!Init, IsOpen
<1> QED
  BY <1>1, StepIsPromised, InvInit, InvStep, PTL DEF Spec, AnswersImplemented, Answers!Spec

\* In order means in order: a step of FrameAnswers adds the next answer, or none.
LEMMA StepKeepsOrder ==
  ASSUME Inv, Answers!AnsweredInOrder, [Answers!Next]_(Answers!vars)
  PROVE  Answers!AnsweredInOrder'
<1> DEFINE outcome == [c \in Call |-> Outcome(stage[c])]
           InOrder(c) ==
             /\ Len(answered[c]) <= Len(asked[c])
             /\ \A i \in 1 .. Len(answered[c]) : answered[c][i] \in Answers!Promise(asked[c][i])
             /\ outcome[c] = "ok" => Len(answered[c]) = Len(asked[c])
<1>1. /\ asked \in [Call -> Seq(Answers!FrameData)]
      /\ answered \in [Call -> Seq(Answers!Response)]
      /\ stage \in [Call -> {"none", "unary", "streaming", "ok", "failed"}]
      /\ \A c \in Call : outcome[c] = "none" => answered[c] = <<>>
  BY DEF Inv, TypeOK, CallsInv, Outcome, IsOpen
<1>2. Answers!AnsweredInOrder <=> \A c \in Call : InOrder(c)
  BY DEF Answers!AnsweredInOrder, Outcome
<1>3. Answers!AnsweredInOrder' <=> \A c \in Call : InOrder(c)'
  BY DEF Answers!AnsweredInOrder, Outcome
<1> SUFFICES ASSUME NEW d \in Call PROVE InOrder(d)'
  BY <1>3
<1>4. CASE UNCHANGED Answers!vars
  BY <1>2, <1>4 DEF Answers!vars, Outcome
<1>5. ASSUME NEW c \in Call, Answers!Ask(c) PROVE InOrder(d)'
  <2>1. /\ outcome[c] = "none" /\ UNCHANGED answered
        /\ asked' = [asked EXCEPT ![c] = asked'[c]] /\ asked'[c] \in Seq(Answers!FrameData)
        /\ \E o \in {"open", "failed"} : outcome' = [outcome EXCEPT ![c] = o]
    BY <1>5 DEF Answers!Ask, Outcome
  <2> HIDE DEF outcome
  <2>2. CASE d = c
    <3>1. answered'[c] = <<>> /\ Len(answered'[c]) = 0 /\ Len(asked'[c]) \in Nat
      BY <1>1, <2>1
    <3>2. outcome'[c] # "ok"
      BY <2>1 DEF outcome
    <3> QED BY <2>2, <3>1, <3>2
  <2>3. CASE d # c
    <3>1. asked'[d] = asked[d] /\ answered'[d] = answered[d] /\ outcome'[d] = outcome[d]
      BY <1>1, <2>1, <2>3 DEF outcome
    <3> QED BY <1>2, <3>1
  <2> QED BY <2>2, <2>3
<1>6. ASSUME NEW c \in Call, Answers!Answer(c) PROVE InOrder(d)'
  <2> DEFINE n == Len(answered[c])
  <2>0. PICK a \in Answers!Promise(asked[c][n + 1]) :
               answered' = [answered EXCEPT ![c] = Append(@, a)]
    BY <1>6 DEF Answers!Answer
  <2>1. /\ n < Len(asked[c]) /\ UNCHANGED asked
        /\ \/ outcome' = outcome
           \/ Len(answered'[c]) = Len(asked[c]) /\ outcome' = [outcome EXCEPT ![c] = "ok"]
        /\ outcome[c] = "open"
    BY <1>6 DEF Answers!Answer, Outcome
  <2> HIDE DEF outcome
  <2>2. CASE d = c
    <3>0. asked[c][n + 1] \in Answers!FrameData
      BY <1>1, <2>1
    <3>1. /\ answered'[c] = Append(answered[c], a) /\ a \in Answers!Response
          /\ answered[c] \in Seq(Answers!Response) /\ n \in Nat /\ Len(asked[c]) \in Nat
      BY <1>1, <2>0, <3>0, PromiseIsResponse
    <3>2. /\ Len(answered'[c]) = n + 1
          /\ answered'[c][n + 1] = a
          /\ \A i \in 1 .. n : answered'[c][i] = answered[c][i]
      BY <3>1
    <3>3. \A i \in 1 .. n + 1 : answered'[c][i] \in Answers!Promise(asked'[c][i])
      BY <1>2, <2>0, <2>1, <3>1, <3>2
    <3>4. outcome'[c] = "ok" => Len(answered'[c]) = Len(asked'[c])
      BY <2>1 DEF outcome
    <3> QED BY <2>1, <2>2, <3>1, <3>2, <3>3, <3>4
  <2>3. CASE d # c
    <3>1. asked'[d] = asked[d] /\ answered'[d] = answered[d] /\ outcome'[d] = outcome[d]
      BY <1>1, <2>0, <2>1, <2>3 DEF outcome
    <3> QED BY <1>2, <3>1
  <2> QED BY <2>2, <2>3
<1>7. ASSUME NEW c \in Call, Answers!Finish(c) PROVE InOrder(d)'
  <2>1. /\ UNCHANGED <<asked, answered>> /\ Len(answered[c]) = Len(asked[c])
        /\ d # c => outcome'[d] = outcome[d]
    BY <1>7 DEF Answers!Finish, Outcome
  <2> HIDE DEF outcome
  <2> QED BY <1>2, <2>1
<1>8. ASSUME NEW lost \in SUBSET Call, Answers!Fail(lost) PROVE InOrder(d)'
  <2>1. /\ UNCHANGED <<asked, answered>>
        /\ outcome'[d] = outcome[d] \/ outcome'[d] = "failed"
    BY <1>8 DEF Answers!Fail, Outcome
  <2> HIDE DEF outcome
  <2> QED BY <1>2, <2>1
<1> QED BY <1>4, <1>5, <1>6, <1>7, <1>8 DEF Answers!Next

\* Every client reads the answers of its frames in their order, each one of those
\* that its frame alone is promised, and a call that ends well has them all.
THEOREM AnswersComeInOrder == Spec => []Answers!AnsweredInOrder
<1>1. Init => Answers!AnsweredInOrder
  <2> SUFFICES ASSUME Init PROVE Answers!AnsweredInOrder
    OBVIOUS
  <2>1. ASSUME NEW c \in Call
        PROVE  /\ Len(answered[c]) <= Len(asked[c])
               /\ 1 .. Len(answered[c]) = {}
    BY DEF Init
  <2>2. ASSUME NEW c \in Call PROVE [d \in Call |-> Outcome(stage[d])][c] # "ok"
    BY DEF Init, Outcome, IsOpen
  <2> QED BY <2>1, <2>2 DEF Answers!AnsweredInOrder, Outcome
<1>2. Inv /\ Answers!AnsweredInOrder /\ [Next]_vars => Answers!AnsweredInOrder'
  BY StepIsPromised, StepKeepsOrder
<1> QED BY <1>1, <1>2, InvInit, InvStep, PTL DEF Spec

-----------------------------------------------------------------------------
\* A handler's call is of one intact frame, its answer that of full caches.
HandlerInv ==
  /\ handler \in [Handler -> {"none", "asking", "returned"}]
  /\ published \subseteq Handler /\ acted \subseteq Handler
  /\ \A c \in published \cup acted : stage[c] = "ok"
  /\ \A c \in acted : answered[c][1].message_name \in Handled
  /\ \A c \in Handler :
       /\ handler[c] = "none" => stage[c] \in {"none", "failed"}
       /\ stage[c] # "streaming"
       /\ stage[c] \in {"unary", "ok"} => asked[c][1] \in CanFrame /\ asked[c][1].intact
       /\ stage[c] = "ok" => answered[c][1] = WarmAnswer(asked[c][1])

PipelineInv == Inv /\ HandlerInv

\* With its clients the service takes the steps it takes on its own.
LEMMA PipelineStep == [PipelineNext]_pipeline => [Next]_vars
<1> SUFFICES ASSUME PipelineNext PROVE [Next]_vars
  BY DEF pipeline
<1>1. CASE Lifecycle \/ ParseCalls
  BY <1>1 DEF Next
<1>2. CASE \E c \in Call \ Handler : Client(c)
  BY <1>2 DEF Next
<1>3. ASSUME NEW c \in Handler, Cancelled(c)
      PROVE  [Next]_vars
  BY <1>3, PipelineAssumption DEF Next, Client
<1>4. ASSUME NEW c \in Handler, NEW r \in CanFrame, HandleMessage(c, r)
      PROVE  [Next]_vars
  BY <1>4, PipelineAssumption DEF HandleMessage, Next, Client, Answers!FrameData
<1>5. ASSUME NEW c \in Handler, ParseFrameRejects(c) \/ ParseFrameResolves(c)
      PROVE  [Next]_vars
  BY <1>5 DEF ParseFrameRejects, ParseFrameResolves
<1> QED
  BY <1>1, <1>2, <1>3, <1>4, <1>5 DEF PipelineNext

LEMMA HandlerInit == PipelineInit => HandlerInv
BY PipelineAssumption DEF PipelineInit, Init, HandlerInv

\* The service ends calls of handlers with that answer or fails them.
LEMMA ServiceKeepsHandlerInv ==
  ASSUME PipelineInv, Lifecycle \/ ParseCalls, UNCHANGED clients
  PROVE  HandlerInv'
<1> USE DEF PipelineInv, HandlerInv, clients
<1>0. /\ Handler \subseteq Call
      /\ asked \in [Call -> Seq(Answers!FrameData)] /\ answered \in [Call -> Seq(Answers!Response)]
      /\ stage \in [Call -> {"none", "unary", "streaming", "ok", "failed"}]
  BY PipelineAssumption DEF Inv, TypeOK
<1>1. CASE Lifecycle
  <2>1. /\ UNCHANGED <<asked, answered>>
        /\ \A c \in Call : stage'[c] = stage[c] \/ (IsOpen(stage[c]) /\ stage'[c] = "failed")
    BY <1>0, <1>1 DEF Lifecycle, Start, StartFails, Serve, GraceOver, ServerStopped, MainReturns,
       Crash, Exit, FailOpenCalls, Signal, Shutdown, ShutdownEnds, calls
  <2> QED
    BY <1>0, <2>1 DEF IsOpen
<1>2. CASE ParseCalls
  <2>1. PICK c \in Call : ParseFrameReturns(c) \/ ParseBatchYields(c) \/ ParseBatchReturns(c)
    BY <1>2 DEF ParseCalls
  <2>2. CASE ParseFrameReturns(c)
    <3>1. Len(asked[c]) = 1 /\ answered[c] = <<>> /\ Len(answered[c]) = 0
      BY <2>2 DEF ParseFrameReturns, Inv, CallsInv
    <3>2. server \in {"running", "stopping"} /\ AnswerNext(c) /\ stage' = [stage EXCEPT ![c] = "ok"]
      BY <2>2 DEF ParseFrameReturns, End
    <3>3. /\ answered' = [answered EXCEPT ![c] = Append(@, WarmAnswer(asked[c][Len(@) + 1]))]
          /\ UNCHANGED asked
      <4>1. Inv /\ Len(answered[c]) < Len(asked[c])
        BY <3>1
      <4> QED
        BY <3>2, <4>1, AnswerNextAppends
    <3>4. answered'[c][1] = WarmAnswer(asked[c][1])
      BY <1>0, <3>1, <3>3
    <3>5. \A d \in Call \ {c} : stage'[d] = stage[d] /\ answered'[d] = answered[d]
      BY <1>0, <3>2, <3>3
    <3>6. c \notin published \cup acted /\ stage[c] = "unary" /\ stage'[c] = "ok"
      BY <1>0, <2>2, <3>2 DEF ParseFrameReturns
    <3> QED
      BY <1>0, <3>3, <3>4, <3>5, <3>6
  <2>3. CASE ParseBatchYields(c) \/ ParseBatchReturns(c)
    <3>1. c \notin Handler
      BY <2>3 DEF ParseBatchYields, ParseBatchReturns
    <3>2. UNCHANGED asked
      BY <2>3 DEF ParseBatchYields, ParseBatchReturns, AnswerNext
    <3>3. \A d \in Handler : stage'[d] = stage[d] /\ answered'[d] = answered[d]
      BY <1>0, <2>3, <3>1 DEF ParseBatchYields, ParseBatchReturns, AnswerNext, End
    <3> QED
      BY <3>2, <3>3
  <2> QED
    BY <2>1, <2>2, <2>3
<1> QED
  BY <1>1, <1>2

\* Clients touch their own call only; a handler asks of an intact frame and reads
\* its own answer.
LEMMA ClientsKeepHandlerInv ==
  ASSUME PipelineInv, PipelineNext, ~((Lifecycle \/ ParseCalls) /\ UNCHANGED clients)
  PROVE  HandlerInv'
<1> USE DEF PipelineInv, HandlerInv, clients
<1>0. /\ Handler \subseteq Call
      /\ asked \in [Call -> Seq(Answers!FrameData)] /\ answered \in [Call -> Seq(Answers!Response)]
      /\ stage \in [Call -> {"none", "unary", "streaming", "ok", "failed"}]
  BY PipelineAssumption DEF Inv, TypeOK
<1>1. ASSUME NEW c \in Call \ Handler, Client(c), UNCHANGED clients
      PROVE  HandlerInv'
  <2>1. \A d \in Handler : stage'[d] = stage[d] /\ asked'[d] = asked[d] /\ answered'[d] = answered[d]
    BY <1>0, <1>1 DEF Client, CallParseFrame, CallParseBatch, CallRefused, Cancelled, End
  <2> QED
    BY <1>1, <2>1
<1>2. ASSUME NEW c \in Handler, Cancelled(c), UNCHANGED clients
      PROVE  HandlerInv'
  BY <1>0, <1>2 DEF Cancelled, End, Open, IsOpen
<1>3. ASSUME NEW c \in Handler, NEW r \in CanFrame, HandleMessage(c, r)
      PROVE  HandlerInv'
  <2>1. /\ r.intact /\ stage[c] = "none" /\ c \notin published \cup acted
        /\ handler' = [handler EXCEPT ![c] = "asking"]
        /\ UNCHANGED <<answered, published, acted>>
    BY <1>3 DEF HandleMessage, ValidateFrame, CallParseFrame, CallRefused
  <2>2. CASE CallParseFrame(c, r)
    BY <1>0, <2>1, <2>2 DEF CallParseFrame, End
  <2>3. CASE CallRefused(c)
    BY <1>0, <2>1, <2>3 DEF CallRefused, End
  <2> QED
    BY <1>3, <2>2, <2>3 DEF HandleMessage
<1>4. ASSUME NEW c \in Handler, ParseFrameRejects(c)
      PROVE  HandlerInv'
  BY <1>4 DEF ParseFrameRejects, vars, calls
<1>5. ASSUME NEW c \in Handler, ParseFrameResolves(c)
      PROVE  HandlerInv'
  BY <1>5 DEF ParseFrameResolves, vars, calls
<1> QED
  BY <1>1, <1>2, <1>3, <1>4, <1>5 DEF PipelineNext

\* An answer to an intact frame whose name processMessage acts on was decoded.
LEMMA HandlerInvSuffices == PipelineInv => ActsOnDecodedFrames
<1> SUFFICES ASSUME PipelineInv PROVE ActsOnDecodedFrames
  OBVIOUS
<1> USE DEF PipelineInv, HandlerInv
<1>1. \A c \in published : asked[c][1].intact
  OBVIOUS
<1>2. ASSUME NEW c \in acted
      PROVE  /\ answered[c][1].message_name = Dbc[asked[c][1].id]
             /\ answered[c][1].device_address = asked[c][1].device
  <2> DEFINE r == asked[c][1]
  <2>1. r \in CanFrame /\ answered[c][1] = WarmAnswer(r)
    OBVIOUS
  <2>2. r \notin Malformed
    BY <2>1, ServiceAssumption DEF Answers!DbcAssumption
  <2>3. answered[c][1] = Answers!Decoded(r, Answers!NameInDbc(r))
    BY <2>1, <2>2 DEF WarmAnswer
  <2>4. answered[c][1].message_name # "Unknown"
    BY PipelineAssumption
  <2> QED
    BY <2>3, <2>4 DEF Answers!Decoded, Answers!NameInDbc
<1> QED
  BY <1>1, <1>2 DEF ActsOnDecodedFrames

\* Although the service calls damaged and undecodable frames parsed, and their CRC
\* valid, the device service publishes intact frames only and acts on none but those
\* that the DBC file decodes, through restarts of the DBC service and lost calls.
THEOREM HandlersActOnDecodedFrames == PipelineSpec => []ActsOnDecodedFrames
<1>1. PipelineInit => PipelineInv
  BY HandlerInit, InvInit DEF PipelineInit, PipelineInv
<1>2. PipelineInv /\ [PipelineNext]_pipeline => PipelineInv'
  <2> SUFFICES ASSUME PipelineInv, [PipelineNext]_pipeline PROVE PipelineInv'
    OBVIOUS
  <2>1. Inv'
    BY PipelineStep, InvStep DEF PipelineInv
  <2>2. CASE PipelineNext
    <3>1. CASE (Lifecycle \/ ParseCalls) /\ UNCHANGED clients
      BY <2>1, <3>1, ServiceKeepsHandlerInv DEF PipelineInv
    <3>2. CASE ~((Lifecycle \/ ParseCalls) /\ UNCHANGED clients)
      BY <2>1, <2>2, <3>2, ClientsKeepHandlerInv DEF PipelineInv
    <3> QED
      BY <3>1, <3>2
  <2>3. CASE UNCHANGED pipeline
    BY <2>1, <2>3 DEF pipeline, vars, calls, clients, PipelineInv, HandlerInv
  <2> QED
    BY <2>2, <2>3
<1> QED
  BY <1>1, <1>2, HandlerInvSuffices, PTL DEF PipelineSpec

-----------------------------------------------------------------------------
\* With handlers of the device service among its clients the DBC service behaves
\* as it does on its own, its event loop included.
THEOREM PipelineIsService == PipelineSpec => Spec
<1>1. PipelineInit => Init
  BY DEF PipelineInit
<1> QED BY <1>1, PipelineStep, PTL DEF PipelineSpec, Spec

\* What is proved of the service holds with the handlers in front of it.
THEOREM ServiceHoldsInPipeline ==
  PipelineSpec => /\ []TypeOK
                  /\ []WarmWhileServing
                  /\ AnswersImplemented
                  /\ []Answers!AnsweredInOrder
BY PipelineIsService, TypeCorrect, WarmUntilStopped, PromiseKept, AnswersComeInOrder, PTL
=============================================================================
