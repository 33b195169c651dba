----------------------------- MODULE FrameAnswers -----------------------------
(***************************************************************************)
(* What the DBC service promises its clients, without its server, caches   *)
(* and life cycle: every frame of a call is answered in order, each as its *)
(* content and the DBC file alone allow, and a call that ends well has an  *)
(* answer for every frame.  Any set of calls may fail at any time.         *)
(***************************************************************************)
EXTENDS Naturals, Sequences

CONSTANTS Call,          \* gRPC calls
          CanId,         \* CAN ids that frames carry
          MessageName,   \* names of messages
          Dbc,           \* the DBC file: per CAN id its message's name or NoMessage
          NoMessage,
          CanFrame,      \* twelve-byte frames
          Malformed      \* strings that are no hex, or not twelve bytes

VARIABLES asked,         \* per call, its frames
          answered,      \* per call, the answers so far
          outcome        \* per call: "none", "open", "ok" or "failed"

vars == <<asked, answered, outcome>>

\* A frame by its address field and whether its checksum is the right one.  The
\* modules that instantiate this one assume it of their constants.
DbcAssumption ==
  /\ NoMessage \notin MessageName
  /\ Dbc \in [CanId -> MessageName \cup {NoMessage}]
  /\ CanFrame \subseteq [device : Nat, id : CanId, intact : BOOLEAN]
  /\ CanFrame \cap Malformed = {}

FrameData == CanFrame \cup Malformed

\* ParseFrameResponse; the strings that depend on the payload are left out.
Response == [parsed : BOOLEAN, crc_valid : BOOLEAN, device_address : Nat,
             message_id : CanId \cup {0}, message_name : MessageName \cup {"Unknown", ""}]

\* An answer that carries an error leaves all else to the defaults of protobuf.
Rejected == [parsed |-> FALSE, crc_valid |-> FALSE, device_address |-> 0,
             message_id |-> 0, message_name |-> ""]

\* An answer that says the frame was parsed and its CRC is valid.
Decoded(f, name) ==
  [parsed |-> TRUE, crc_valid |-> TRUE, device_address |-> f.device,
   message_id |-> f.id, message_name |-> name]

NameInDbc(r) == IF Dbc[r.id] = NoMessage THEN "Unknown" ELSE Dbc[r.id]

\* Code and tests of the repository disagree on a frame whose id the DBC file lacks
\* or whose checksum is wrong: the code calls it parsed, the tests want it
\* reported (BadFrameReported of DbcService).
Disputed(r) == Dbc[r.id] = NoMessage \/ ~r.intact

\* The answers a frame may get; where they are disputed, either will do.
Promise(r) ==
  IF r \in Malformed THEN {Rejected}
  ELSE IF Disputed(r) THEN {Rejected, Decoded(r, NameInDbc(r))}
  ELSE {Decoded(r, NameInDbc(r))}

-----------------------------------------------------------------------------
Init ==
  /\ asked = [c \in Call |-> <<>>]
  /\ answered = [c \in Call |-> <<>>]
  /\ outcome = [c \in Call |-> "none"]

Ask(c) ==
  /\ outcome[c] = "none"
  /\ asked'[c] \in Seq(FrameData)
  /\ asked' = [asked EXCEPT ![c] = asked'[c]]
  /\ \E o \in {"open", "failed"} : outcome' = [outcome EXCEPT ![c] = o]
  /\ UNCHANGED answered

Answer(c) ==
  /\ outcome[c] = "open"
  /\ Len(answered[c]) < Len(asked[c])
  /\ \E a \in Promise(asked[c][Len(answered[c]) + 1]) :
       answered' = [answered EXCEPT ![c] = Append(@, a)]
  /\ \/ UNCHANGED outcome
     \/ /\ Len(answered'[c]) = Len(asked[c])
        /\ outcome' = [outcome EXCEPT ![c] = "ok"]
  /\ UNCHANGED asked

Finish(c) ==
  /\ outcome[c] = "open"
  /\ Len(answered[c]) = Len(asked[c])
  /\ outcome' = [outcome EXCEPT ![c] = "ok"]
  /\ UNCHANGED <<asked, answered>>

Fail(lost) ==
  /\ \A c \in lost : outcome[c] = "open"
  /\ outcome' = [c \in Call |-> IF c \in lost THEN "failed" ELSE outcome[c]]
  /\ UNCHANGED <<asked, answered>>

Next ==
  \/ \E c \in Call : Ask(c) \/ Answer(c) \/ Finish(c)
  \/ \E lost \in SUBSET Call : Fail(lost)

Spec == Init /\ [][Next]_vars

-----------------------------------------------------------------------------
\* The answers of a call are answers to its frames, one each and in their order;
\* a call ends well with all of them.
AnsweredInOrder ==
  \A c \in Call :
    /\ Len(answered[c]) <= Len(asked[c])
    /\ \A i \in 1 .. Len(answered[c]) : answered[c][i] \in Promise(asked[c][i])
    /\ outcome[c] = "ok" => Len(answered[c]) = Len(asked[c])
=============================================================================
