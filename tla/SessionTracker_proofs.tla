------------------------ MODULE SessionTracker_proofs ------------------------
(***************************************************************************)
(* Proofs about SessionTracker, for any devices, ports, sessions and any   *)
(* number of concurrent calls.                                             *)
(*                                                                         *)
(* BackendHoldsAMessage needs the same of the requests on their way to the *)
(* backend (RequestsAreMessages).  SetBackOnlyByOverlap needs to know why  *)
(* a port without overlap cannot be set back: its only request under way   *)
(* is that of its latest message, and the call that sent it still waits    *)
(* (LatestAwaited), so the next message finds nothing in front of it.      *)
(***************************************************************************)
EXTENDS SessionTracker, TLAPS

RequestsAreMessages ==
  \A q \in network : /\ q.seq \in 1 .. Len(readings[q.key])
                     /\ q.reading = readings[q.key][q.seq]

LatestAwaited ==
  \A q \in network : q.key \notin unordered =>
    /\ q.seq = Len(readings[q.key])
    /\ \E c \in Call : saving[c] = q

IInv == TypeOK /\ RequestsAreMessages /\ BackendHoldsAMessage /\ LatestAwaited

-----------------------------------------------------------------------------
\* The request of a new message is one more message of its port.
LEMMA SaveRequestType ==
  ASSUME TypeOK, NEW k \in Key, NEW r \in Reading, Len(readings[k]) < MaxReadings
  PROVE  /\ SaveRequest(k, r) \in Save
         /\ SaveRequest(k, r).key = k
         /\ SaveRequest(k, r).reading = r
         /\ SaveRequest(k, r).seq = Len(readings[k]) + 1
<1>1. Len(readings[k]) \in Nat /\ MaxReadings \in Nat
  BY SessionAssumption DEF TypeOK
<1>2. Len(readings[k]) + 1 \in 1 .. MaxReadings
  BY <1>1
<1> QED
  BY <1>2 DEF SaveRequest, Save

\* The empty map, network and histories have their types.
LEMMA TypeInit == Init => TypeOK
<1> SUFFICES ASSUME Init PROVE TypeOK
  OBVIOUS
<1>1. readings \in [Key -> Seq(Reading)] /\ \A k \in Key : Len(readings[k]) = 0
  BY DEF Init
<1> QED
  BY <1>1, SessionAssumption DEF Init, TypeOK

\* Type correctness of SessionTracker is preserved by every step.
LEMMA TypeStep == TypeOK /\ [Next]_vars => TypeOK'
<1> SUFFICES ASSUME TypeOK, [Next]_vars
             PROVE  TypeOK'
  OBVIOUS
<1>1. CASE UNCHANGED vars
  BY <1>1 DEF vars, TypeOK
<1>2. ASSUME NEW c \in Call, NEW k \in Key, NEW r \in Reading, HandleSessionData(c, k, r)
      PROVE  TypeOK'
  <2> DEFINE q == SaveRequest(k, r)
  <2>1. q \in Save
    BY <1>2, SaveRequestType DEF HandleSessionData
  <2>2. saving' \in [Call -> Save \cup {NoSave}] /\ network' \subseteq Save
    BY <1>2, <2>1 DEF HandleSessionData, TypeOK
  <2>3. activeSessions' \in [Key -> Session \cup {NoSession}]
    <3>1. [sessionId |-> r.sessionId, status |-> "active"] \in Session
      BY DEF Reading, Session
    <3> QED
      BY <1>2, <3>1 DEF HandleSessionData, OpenOrTouch, TypeOK
  <2>4. readings' \in [Key -> Seq(Reading)]
    BY <1>2 DEF HandleSessionData, TypeOK
  <2>5. ASSUME NEW j \in Key
        PROVE  Len(readings'[j]) <= MaxReadings
    <3>1. readings[j] \in Seq(Reading) /\ Len(readings[j]) \in Nat /\ MaxReadings \in Nat
      BY SessionAssumption DEF TypeOK
    <3>2. CASE j = k
      BY <1>2, <3>1, <3>2 DEF HandleSessionData, TypeOK
    <3>3. CASE j # k
      BY <1>2, <3>3 DEF HandleSessionData, TypeOK
    <3> QED
      BY <3>2, <3>3
  <2>6. unordered' \subseteq Key /\ backend' \in [Key -> Saved \cup {NoSave}]
    BY <1>2 DEF HandleSessionData, TypeOK
  <2> QED
    BY <2>2, <2>3, <2>4, <2>5, <2>6 DEF TypeOK
<1>3. ASSUME NEW c \in Call, SaveAnswered(c) \/ SaveFails(c)
      PROVE  TypeOK'
  BY <1>3, SessionAssumption DEF SaveAnswered, SaveFails, TypeOK, Save
<1>4. ASSUME NEW q \in network, SaveStored(q)
      PROVE  TypeOK'
  <2>1. q.key \in Key /\ [reading |-> q.reading, seq |-> q.seq] \in Saved
    BY DEF TypeOK, Save, Saved
  <2> QED
    BY <1>4, <2>1 DEF SaveStored, TypeOK
<1>5. ASSUME NEW q \in network, SaveRefused(q)
      PROVE  TypeOK'
  BY <1>5 DEF SaveRefused, TypeOK
<1>6. ASSUME NEW k \in Key, EndSession(k)
      PROVE  TypeOK'
  BY <1>6 DEF EndSession, TypeOK
<1>7. CASE Restart
  BY <1>7 DEF Restart, TypeOK
<1> QED
  BY <1>1, <1>2, <1>3, <1>4, <1>5, <1>6, <1>7 DEF Next

\* Type correctness, for any number of calls, ports and messages.
THEOREM TypeCorrect == Spec => []TypeOK
<1> QED
  BY TypeInit, TypeStep, PTL DEF Spec

-----------------------------------------------------------------------------
\* A new message is appended to the history of its port: the messages numbered
\* so far keep their numbers.
LEMMA HistoryGrows ==
  ASSUME TypeOK, NEW c \in Call, NEW k \in Key, NEW r \in Reading,
         HandleSessionData(c, k, r), NEW j \in Key
  PROVE  /\ Len(readings[j]) \in Nat
         /\ j # k => readings'[j] = readings[j]
         /\ j = k => /\ Len(readings'[j]) = Len(readings[j]) + 1
                     /\ readings'[j][Len(readings[j]) + 1] = r
         /\ \A i \in 1 .. Len(readings[j]) :
              i \in 1 .. Len(readings'[j]) /\ readings'[j][i] = readings[j][i]
<1>1. readings[j] \in Seq(Reading)
  BY DEF TypeOK
<1>2. readings' = [readings EXCEPT ![k] = Append(@, r)]
  BY DEF HandleSessionData
<1>3. CASE j = k
  <2>1. readings'[j] = Append(readings[j], r)
    BY <1>2, <1>3 DEF TypeOK
  <2> QED
    BY <1>1, <1>3, <2>1
<1>4. CASE j # k
  BY <1>1, <1>2, <1>4 DEF TypeOK
<1> QED
  BY <1>3, <1>4

\* Requests under way and the backend's records stay messages of their port.
LEMMA MessageStep ==
  TypeOK /\ RequestsAreMessages /\ BackendHoldsAMessage /\ [Next]_vars
    => RequestsAreMessages' /\ BackendHoldsAMessage'
<1> SUFFICES ASSUME TypeOK, RequestsAreMessages, BackendHoldsAMessage, [Next]_vars
             PROVE  RequestsAreMessages' /\ BackendHoldsAMessage'
  OBVIOUS
<1> USE DEF RequestsAreMessages, BackendHoldsAMessage
<1>1. CASE UNCHANGED vars
  BY <1>1 DEF vars
<1>2. ASSUME NEW c \in Call, NEW k \in Key, NEW r \in Reading, HandleSessionData(c, k, r)
      PROVE  RequestsAreMessages' /\ BackendHoldsAMessage'
  <2>1. ASSUME NEW q \in network'
        PROVE  /\ q.seq \in 1 .. Len(readings'[q.key])
               /\ q.reading = readings'[q.key][q.seq]
    <3>1. CASE q \in network
      <4>1. q.key \in Key
        BY <3>1 DEF TypeOK, Save
      <4> QED
        BY <1>2, <3>1, <4>1, HistoryGrows
    <3>2. CASE q = SaveRequest(k, r)
      <4>1. q.key = k /\ q.reading = r /\ q.seq = Len(readings[k]) + 1
        BY <1>2, <3>2, SaveRequestType DEF HandleSessionData
      <4> QED
        BY <1>2, <4>1, HistoryGrows
    <3> QED
      BY <1>2, <3>1, <3>2 DEF HandleSessionData
  <2>2. ASSUME NEW j \in Key, backend'[j] # NoSave
        PROVE  /\ backend'[j].seq \in 1 .. Len(readings'[j])
               /\ backend'[j].reading = readings'[j][backend'[j].seq]
    <3>1. backend' = backend
      BY <1>2 DEF HandleSessionData
    <3> QED
      BY <1>2, <2>2, <3>1, HistoryGrows
  <2> QED
    BY <2>1, <2>2
<1>3. ASSUME NEW c \in Call, SaveAnswered(c) \/ SaveFails(c)
      PROVE  RequestsAreMessages' /\ BackendHoldsAMessage'
  BY <1>3 DEF SaveAnswered, SaveFails
<1>4. ASSUME NEW q \in network, SaveStored(q)
      PROVE  RequestsAreMessages' /\ BackendHoldsAMessage'
  <2>1. ASSUME NEW j \in Key, backend'[j] # NoSave
        PROVE  /\ backend'[j].seq \in 1 .. Len(readings'[j])
               /\ backend'[j].reading = readings'[j][backend'[j].seq]
    <3>1. CASE j = q.key
      <4>1. backend'[j] = [reading |-> q.reading, seq |-> q.seq]
        BY <1>4, <3>1 DEF SaveStored, TypeOK
      <4> QED
        BY <1>4, <3>1, <4>1 DEF SaveStored
    <3>2. CASE j # q.key
      BY <1>4, <2>1, <3>2 DEF SaveStored, TypeOK
    <3> QED
      BY <3>1, <3>2
  <2> QED
    BY <1>4, <2>1 DEF SaveStored
<1>5. ASSUME NEW q \in network, SaveRefused(q)
      PROVE  RequestsAreMessages' /\ BackendHoldsAMessage'
  BY <1>5 DEF SaveRefused
<1>6. ASSUME NEW k \in Key, EndSession(k)
      PROVE  RequestsAreMessages' /\ BackendHoldsAMessage'
  BY <1>6 DEF EndSession
<1>7. CASE Restart
  BY <1>7 DEF Restart
<1> QED
  BY <1>1, <1>2, <1>3, <1>4, <1>5, <1>6, <1>7 DEF Next

\* The only request of a port without overlap is its latest, and is awaited.
LEMMA AwaitedStep == IInv /\ [Next]_vars => LatestAwaited'
<1> SUFFICES ASSUME IInv, [Next]_vars, NEW q \in network', q.key \notin unordered'
             PROVE  /\ q.seq = Len(readings'[q.key])
                    /\ \E c \in Call : saving'[c] = q
  BY DEF LatestAwaited
<1> USE DEF IInv
<1>q. ASSUME q \in network
      PROVE  q \in Save /\ q.key \in Key /\ q # NoSave
  BY <1>q, SessionAssumption DEF TypeOK, Save
<1>1. CASE UNCHANGED vars
  BY <1>1 DEF vars, LatestAwaited
<1>2. ASSUME NEW c \in Call, NEW k \in Key, NEW r \in Reading, HandleSessionData(c, k, r)
      PROVE  /\ q.seq = Len(readings'[q.key])
             /\ \E e \in Call : saving'[e] = q
  <2>1. CASE q \in network
    <3>1. q.key \notin unordered
      BY <1>2 DEF HandleSessionData
    <3>2. PICK e \in Call : saving[e] = q
      BY <2>1, <3>1 DEF LatestAwaited
    <3>3. q.key # k
      BY <1>2, <1>q, <2>1, <3>1, <3>2 DEF HandleSessionData
    <3>4. e # c /\ saving'[e] = q
      BY <1>2, <1>q, <2>1, <3>2 DEF HandleSessionData, TypeOK
    <3>5. readings'[q.key] = readings[q.key]
      BY <1>2, <1>q, <2>1, <3>3, HistoryGrows
    <3> QED
      BY <2>1, <3>1, <3>4, <3>5 DEF LatestAwaited
  <2>2. CASE q = SaveRequest(k, r)
    <3>1. q.key = k /\ q.seq = Len(readings[k]) + 1
      BY <1>2, <2>2, SaveRequestType DEF HandleSessionData
    <3>2. saving'[c] = q
      BY <1>2, <2>2 DEF HandleSessionData, TypeOK
    <3> QED
      BY <1>2, <3>1, <3>2, HistoryGrows
  <2> QED
    BY <1>2, <2>1, <2>2 DEF HandleSessionData
<1>3. ASSUME NEW c \in Call, SaveAnswered(c)
      PROVE  /\ q.seq = Len(readings'[q.key])
             /\ \E e \in Call : saving'[e] = q
  <2>1. q \in network /\ q.key \notin unordered /\ readings' = readings
    BY <1>3 DEF SaveAnswered
  <2>2. PICK e \in Call : saving[e] = q
    BY <2>1 DEF LatestAwaited
  <2>3. e # c /\ saving'[e] = q
    BY <1>3, <2>1, <2>2 DEF SaveAnswered, TypeOK
  <2> QED
    BY <2>1, <2>3 DEF LatestAwaited
<1>4. ASSUME NEW c \in Call, SaveFails(c)
      PROVE  /\ q.seq = Len(readings'[q.key])
             /\ \E e \in Call : saving'[e] = q
  <2>1. q \in network /\ q.key \notin unordered /\ readings' = readings
    BY <1>4 DEF SaveFails
  <2>2. PICK e \in Call : saving[e] = q
    BY <2>1 DEF LatestAwaited
  <2>3. e # c
    BY <1>4, <2>2 DEF SaveFails
  <2>4. saving'[e] = q
    BY <1>4, <2>2, <2>3 DEF SaveFails, TypeOK
  <2> QED
    BY <2>1, <2>4 DEF LatestAwaited
<1>5. ASSUME NEW p \in network, SaveStored(p) \/ SaveRefused(p)
      PROVE  /\ q.seq = Len(readings'[q.key])
             /\ \E e \in Call : saving'[e] = q
  BY <1>5 DEF SaveStored, SaveRefused, LatestAwaited
<1>6. ASSUME NEW k \in Key, EndSession(k)
      PROVE  /\ q.seq = Len(readings'[q.key])
             /\ \E e \in Call : saving'[e] = q
  BY <1>6 DEF EndSession, LatestAwaited
<1>7. CASE Restart
  <2>1. q \in network /\ q.key \notin unordered
    BY <1>7 DEF Restart
  <2>2. PICK e \in Call : saving[e] = q
    BY <2>1 DEF LatestAwaited
  <2>3. saving[e] # NoSave /\ saving[e].key = q.key /\ q.key \in Key
    BY <1>q, <2>1, <2>2
  <2>4. q.key \in unordered'
    BY <1>7, <2>3 DEF Restart
  <2> QED
    BY <2>4
<1> QED
  BY <1>1, <1>2, <1>3, <1>4, <1>5, <1>6, <1>7 DEF Next

\* No request and no record exists at the start.
LEMMA InvInit == Init => IInv
BY TypeInit DEF Init, IInv, RequestsAreMessages, BackendHoldsAMessage, LatestAwaited

\* The three parts of the invariant are kept together.
LEMMA InvStep == IInv /\ [Next]_vars => IInv'
BY TypeStep, MessageStep, AwaitedStep DEF IInv

-----------------------------------------------------------------------------
\* Whatever is lost, refused, stored late or cut off by a restart: the backend's
\* record of a port is one message of that port, with its own session id.
THEOREM BackendRecordIsAMessage == Spec => []BackendHoldsAMessage
<1>1. IInv => BackendHoldsAMessage
  BY DEF IInv
<1> QED
  BY <1>1, InvInit, InvStep, PTL DEF Spec

\* A port is set back to an older message only after two of its saves overlapped
\* or one failed.
LEMMA NoSetBackStep ==
  ASSUME IInv, [Next]_vars, NEW k \in Key,
         backend[k] # NoSave, backend'[k] # NoSave, backend'[k].seq < backend[k].seq
  PROVE  k \in unordered
<1> USE DEF IInv
<1>1. backend[k].seq \in 1 .. Len(readings[k]) /\ Len(readings[k]) \in Nat
  BY DEF BackendHoldsAMessage, TypeOK
<1>2. backend' # backend
  BY <1>1
<1>3. PICK q \in network : SaveStored(q)
  BY <1>2 DEF Next, vars, HandleSessionData, SaveAnswered, SaveFails, SaveRefused, EndSession, Restart
<1>4. q.key = k
  BY <1>1, <1>3 DEF SaveStored, TypeOK
<1>5. backend'[k].seq = q.seq
  BY <1>3, <1>4 DEF SaveStored, TypeOK
<1>6. q.seq # Len(readings[k])
  BY <1>1, <1>5
<1> QED
  BY <1>3, <1>4, <1>6 DEF LatestAwaited

\* The action property of the same name, for every instance: only overlap or a
\* failed save lets an older session message replace a newer one.
THEOREM NoSetBackWithoutOverlap == Spec => SetBackOnlyByOverlap
<1>1. IInv /\ [Next]_vars =>
        [\A k \in Key :
           (backend[k] # NoSave /\ backend'[k] # NoSave /\ backend'[k].seq < backend[k].seq)
             => k \in unordered]_vars
  BY NoSetBackStep
<1> QED
  BY <1>1, InvInit, InvStep, PTL DEF Spec, SetBackOnlyByOverlap
=============================================================================
