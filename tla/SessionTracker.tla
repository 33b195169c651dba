---------------------------- MODULE SessionTracker ----------------------------
(***************************************************************************)
(* SessionService: the in-memory map of charging sessions and their copy   *)
(* in the Main Backend.  handleSessionData updates the map without a break *)
(* and then waits for the answer to saveChargingSession; calls are not     *)
(* ordered with one another, so several saves of one port may be under way *)
(* and reach the backend in any order, or not at all.                      *)
(***************************************************************************)
EXTENDS Naturals, Sequences

CONSTANTS Address,      \* device addresses
          Port,         \* session_port_nmb
          SessionId,    \* session_id
          Energy,       \* session_power_used
          Call,         \* concurrent calls of handleSessionData
          NoSession,    \* no entry in the map
          NoSave,       \* no save awaited, nothing saved
          MaxReadings   \* bound: session messages per port

Key == Address \X Port
Session == [sessionId : SessionId, status : {"active", "completed", "error"}]
Reading == [sessionId : SessionId, energy : Energy]
Save == [key : Key, reading : Reading, seq : 1 .. MaxReadings]
Saved == [reading : Reading, seq : 1 .. MaxReadings]

ASSUME SessionAssumption ==
  /\ Address \subseteq Nat
  /\ Port \subseteq {0, 1}
  /\ SessionId \subseteq Nat
  /\ Energy \subseteq Nat
  /\ MaxReadings \in Nat
  /\ NoSession \notin Session
  /\ NoSave \notin Save \cup Saved

VARIABLES activeSessions,  \* the map
          saving,          \* per call, the save it awaits the answer of
          network,         \* save requests the backend has not handled yet
          backend,         \* what the Main Backend holds for each port
          readings,        \* history: readings handled for each port, in order
          unordered        \* history: ports whose saves overlapped or failed

vars == <<activeSessions, saving, network, backend, readings, unordered>>

Init ==
  /\ activeSessions = [k \in Key |-> NoSession]
  /\ saving = [c \in Call |-> NoSave]
  /\ network = {}
  /\ backend = [k \in Key |-> NoSave]
  /\ readings = [k \in Key |-> <<>>]
  /\ unordered = {}

-----------------------------------------------------------------------------
\* Mistake: the message itself goes into the map.
OpenWithMessage(k, r) ==
  IF activeSessions[k] = NoSession
  THEN activeSessions' = [activeSessions EXCEPT ![k] = r]
  ELSE UNCHANGED activeSessions

\* A session is opened for a port that has none; an open one keeps the id it was
\* opened with.
OpenOrTouch(k, r) ==
  IF activeSessions[k] = NoSession
  THEN activeSessions' = [activeSessions EXCEPT
                            ![k] = [sessionId |-> r.sessionId, status |-> "active"]]
  ELSE UNCHANGED activeSessions

\* Mistake: the save takes the session id from the map instead of the message.
SaveRequestOfOpenSession(k, r) ==
  LET id == IF activeSessions[k] = NoSession THEN r.sessionId
                                             ELSE activeSessions[k].sessionId
  IN  [key |-> k, reading |-> [r EXCEPT !.sessionId = id], seq |-> Len(readings[k]) + 1]

\* saveSessionToBackend: the request carries the message, not the map's entry.
SaveRequest(k, r) ==
  [key |-> k, reading |-> r, seq |-> Len(readings[k]) + 1]

\* handleSessionData up to its await.
HandleSessionData(c, k, r) ==
  /\ saving[c] = NoSave
  /\ Len(readings[k]) < MaxReadings
  /\ OpenOrTouch(k, r)
  /\ saving' = [saving EXCEPT ![c] = SaveRequest(k, r)]
  /\ network' = network \cup {SaveRequest(k, r)}
  /\ readings' = [readings EXCEPT ![k] = Append(@, r)]
  /\ unordered' = IF \E e \in Call : saving[e] # NoSave /\ saving[e].key = k
                  THEN unordered \cup {k} ELSE unordered
  /\ UNCHANGED backend

\* The backend stores a record over the one it holds, or refuses it.
SaveStored(q) ==
  /\ q \in network
  /\ network' = network \ {q}
  /\ backend' = [backend EXCEPT ![q.key] = [reading |-> q.reading, seq |-> q.seq]]
  /\ UNCHANGED <<activeSessions, saving, readings, unordered>>

SaveRefused(q) ==
  /\ q \in network
  /\ network' = network \ {q}
  /\ UNCHANGED <<activeSessions, saving, backend, readings, unordered>>

\* Mistake: the call does not await saveChargingSession.
SaveNotAwaited(c) ==
  /\ saving[c] # NoSave
  /\ saving' = [saving EXCEPT ![c] = NoSave]
  /\ UNCHANGED <<activeSessions, network, backend, readings, unordered>>

\* The backend's answer arrives; it is only logged.
SaveAnswered(c) ==
  /\ saving[c] # NoSave
  /\ saving[c] \notin network
  /\ saving' = [saving EXCEPT ![c] = NoSave]
  /\ UNCHANGED <<activeSessions, network, backend, readings, unordered>>

\* The connection fails, whether or not the backend handles the request later.
\* The error is only logged; nothing is retried.
SaveFails(c) ==
  /\ saving[c] # NoSave
  /\ saving' = [saving EXCEPT ![c] = NoSave]
  /\ unordered' = unordered \cup {saving[c].key}
  /\ UNCHANGED <<activeSessions, network, backend, readings>>

EndSession(k) ==
  /\ activeSessions[k] # NoSession
  /\ activeSessions' = [activeSessions EXCEPT ![k] = NoSession]
  /\ UNCHANGED <<saving, network, backend, readings, unordered>>

\* A restart of the process: the map is empty, its calls have failed.
Restart ==
  /\ activeSessions' = [k \in Key |-> NoSession]
  /\ saving' = [c \in Call |-> NoSave]
  /\ unordered' = unordered \cup
       {k \in Key : \E c \in Call : saving[c] # NoSave /\ saving[c].key = k}
  /\ UNCHANGED <<network, backend, readings>>

Next ==
  \/ \E c \in Call :
       \/ \E k \in Key, r \in Reading : HandleSessionData(c, k, r)
       \/ SaveAnswered(c)
       \/ SaveFails(c)
  \/ \E q \in network : SaveStored(q) \/ SaveRefused(q)
  \/ \E k \in Key : EndSession(k)
  \/ Restart

Spec == Init /\ [][Next]_vars

-----------------------------------------------------------------------------
\* Type correctness of the map, the saves under way and the backend's copy.
TypeOK ==
  /\ activeSessions \in [Key -> Session \cup {NoSession}]
  /\ saving \in [Call -> Save \cup {NoSave}]
  /\ network \subseteq Save
  /\ backend \in [Key -> Saved \cup {NoSave}]
  /\ readings \in [Key -> Seq(Reading)]
  /\ \A k \in Key : Len(readings[k]) <= MaxReadings
  /\ unordered \subseteq Key

\* What the backend holds for a port is one whole message of the device: its
\* energy belongs to the session id next to it, although the map entry the call
\* went through may carry the id of an earlier session.
BackendHoldsAMessage ==
  \A k \in Key : backend[k] # NoSave =>
    /\ backend[k].seq \in 1 .. Len(readings[k])
    /\ backend[k].reading = readings[k][backend[k].seq]

\* An older message replaces a newer one in the backend only on a port that had
\* two saves under way at once, or one that failed: a device that waits for each
\* of its session messages to be handled is never set back.
SetBackOnlyByOverlap ==
  [][\A k \in Key :
       (backend[k] # NoSave /\ backend'[k] # NoSave /\ backend'[k].seq < backend[k].seq)
         => k \in unordered]_vars
=============================================================================
