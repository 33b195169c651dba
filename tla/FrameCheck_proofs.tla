--------------------------- MODULE FrameCheck_proofs ---------------------------
(***************************************************************************)
(* Commands travel whole, and damage on the link is found out: for every   *)
(* address, every value a caller passes, and every burst of sixteen bits.  *)
(* The arithmetic is in Frame_proofs; here are the invariants it serves.   *)
(***************************************************************************)
EXTENDS FrameCheck, Frame_proofs

Command == [data_req : {0, 1}, req_msg_id : Nat, charge_cmd_p0 : {0, 17}, charge_cmd_p1 : {0, 17},
            cmd_charge_time_max : Nat, cmd_charge_wh_max : Nat]

Call == [device : DeviceId, op : {"poll", "start", "stop"}, port : Port, command : Command]

\* Every frame on a link was built from the call it is an answer to.
Built(x) ==
  LET call == calls[x.call]
  IN  /\ x.call \in 1 .. Len(calls)
      /\ call.device = x.device
      /\ Fits(call.command)
      /\ x.frame = BuildRemoteCmdFrame(x.device, call.command)

FramesAreBuilt ==
  /\ calls \in Seq(Call)
  /\ \A x \in link : Built(x)

-----------------------------------------------------------------------------
\* The fields of a frame.

\* A field that the content holds is read back from the sealed frame.
LEMMA SealedField ==
  ASSUME NEW n \in Nat, NEW first \in Nat, NEW width \in Nat, Halved(n, width)[width] = 0,
         NEW frame \in SUBSET FrameBit, first + width <= 80,
         (frame \cap ContentBit) \cap (first .. first + width - 1) = BitsOf(n, first, width)
  PROVE  Value(frame, first, width) = n
<1>1. frame \in SUBSET Int
  BY FrameBitFinite
<1>2. \A b \in first .. first + width - 1 : b \in ContentBit
  BY DEF ContentBit
<1>3. frame \cap (first .. first + width - 1) = BitsOf(n, first, width)
  BY <1>2
<1> QED BY <1>1, <1>3, FieldReadBack

\* Whatever the values, a frame is twelve bytes and valid.
LEMMA FrameSealed ==
  ASSUME NEW d, NEW command, NEW frame, frame = BuildRemoteCmdFrame(d, command)
  PROVE  frame \in SUBSET FrameBit /\ Remainder(frame)[96] = {}
<1>1. ASSUME NEW n, NEW first \in Nat, NEW width \in Nat, first + width <= 80
      PROVE  BitsOf(n, first, width) \subseteq ContentBit
  <2>1. BitsOf(n, first, width) \subseteq first .. first + width - 1
    BY BitsOfField
  <2>2. first .. first + width - 1 \subseteq ContentBit
    BY <1>1 DEF ContentBit
  <2> QED BY <2>1, <2>2
<1>2. /\ BitsOf(d % 32, 0, 5) \subseteq ContentBit
      /\ BitsOf(34 % 1024, 5, 10) \subseteq ContentBit
      /\ BitsOf(command.data_req, 16, 8) \subseteq ContentBit
      /\ BitsOf(command.req_msg_id, 24, 8) \subseteq ContentBit
      /\ BitsOf(command.charge_cmd_p0, 32, 8) \subseteq ContentBit
      /\ BitsOf(command.charge_cmd_p1, 40, 8) \subseteq ContentBit
      /\ BitsOf(command.cmd_charge_time_max, 48, 16) \subseteq ContentBit
      /\ BitsOf(command.cmd_charge_wh_max, 64, 16) \subseteq ContentBit
  BY <1>1
<1>3. PICK content \in SUBSET ContentBit : frame = Seal(content)
  BY <1>2 DEF BuildRemoteCmdFrame, CommAddr
<1> QED BY <1>3, SealedIsValid

\* The eight fields of a remote_cmd frame and its reserved bit lie apart, so the
\* service's parser reads the very values that buildRemoteCmdFrame wrote.
LEMMA FrameReadBack ==
  ASSUME NEW d \in 0 .. 31, NEW command \in Command, Fits(command),
         NEW frame, frame = BuildRemoteCmdFrame(d, command)
  PROVE  /\ frame \in SUBSET FrameBit
         /\ Remainder(frame)[96] = {}
         /\ Header(frame) = [dev_addr |-> d, msg_id |-> 34, reserved |-> 0]
         /\ Value(frame, 16, 8) = command.data_req
         /\ Value(frame, 24, 8) = command.req_msg_id
         /\ Value(frame, 32, 8) = command.charge_cmd_p0
         /\ Value(frame, 40, 8) = command.charge_cmd_p1
         /\ Value(frame, 48, 16) = command.cmd_charge_time_max
         /\ Value(frame, 64, 16) = command.cmd_charge_wh_max
<1> DEFINE addr == BitsOf(d, 0, 5)
           msg == BitsOf(34, 5, 10)
           req == BitsOf(command.data_req, 16, 8)
           id == BitsOf(command.req_msg_id, 24, 8)
           p0 == BitsOf(command.charge_cmd_p0, 32, 8)
           p1 == BitsOf(command.charge_cmd_p1, 40, 8)
           time == BitsOf(command.cmd_charge_time_max, 48, 16)
           energy == BitsOf(command.cmd_charge_wh_max, 64, 16)
           content == UNION {addr \cup msg, req, id, p0, p1, time, energy}
<1>1. /\ command.data_req \in Nat /\ command.data_req <= 255
      /\ command.req_msg_id \in Nat /\ command.req_msg_id <= 255
      /\ command.charge_cmd_p0 \in Nat /\ command.charge_cmd_p0 <= 255
      /\ command.charge_cmd_p1 \in Nat /\ command.charge_cmd_p1 <= 255
      /\ command.cmd_charge_time_max \in Nat /\ command.cmd_charge_time_max <= 65535
      /\ command.cmd_charge_wh_max \in Nat /\ command.cmd_charge_wh_max <= 65535
  BY DEF Command, Fits
<1>2. frame = Seal(content)
  <2>1. d % 32 = d /\ 34 % 1024 = 34
    OBVIOUS
  <2>2. CommAddr(d, 34) = addr \cup msg
    BY <2>1 DEF CommAddr
  <2> HIDE DEF addr, msg
  <2> QED BY <2>2 DEF BuildRemoteCmdFrame
<1>3. /\ addr \subseteq 0 .. 4 /\ msg \subseteq 5 .. 14
      /\ req \subseteq 16 .. 23 /\ id \subseteq 24 .. 31
      /\ p0 \subseteq 32 .. 39 /\ p1 \subseteq 40 .. 47
      /\ time \subseteq 48 .. 63 /\ energy \subseteq 64 .. 79
  <2>1. \A n : \A first, width \in Nat : BitsOf(n, first, width) \subseteq first .. first + width - 1
    BY BitsOfField
  <2>2. addr \subseteq 0 .. 0 + 5 - 1 /\ msg \subseteq 5 .. 5 + 10 - 1
    BY <2>1
  <2>3. req \subseteq 16 .. 16 + 8 - 1 /\ id \subseteq 24 .. 24 + 8 - 1
    BY <2>1
  <2>4. p0 \subseteq 32 .. 32 + 8 - 1 /\ p1 \subseteq 40 .. 40 + 8 - 1
    BY <2>1
  <2>5. time \subseteq 48 .. 48 + 16 - 1 /\ energy \subseteq 64 .. 64 + 16 - 1
    BY <2>1
  <2> HIDE DEF addr, msg, req, id, p0, p1, time, energy
  <2> QED BY <2>2, <2>3, <2>4, <2>5
<1> HIDE DEF addr, msg, req, id, p0, p1, time, energy
<1>4. content \in SUBSET ContentBit
  BY <1>3 DEF ContentBit
<1>5. /\ content \cap (0 .. 4) = addr /\ content \cap (5 .. 14) = msg
      /\ content \cap (15 .. 15) = {}
      /\ content \cap (16 .. 23) = req /\ content \cap (24 .. 31) = id
      /\ content \cap (32 .. 39) = p0 /\ content \cap (40 .. 47) = p1
      /\ content \cap (48 .. 63) = time /\ content \cap (64 .. 79) = energy
  <2>1. content = addr \cup msg \cup req \cup id \cup p0 \cup p1 \cup time \cup energy
    OBVIOUS
  <2> HIDE DEF content
  <2>2. content \cap (0 .. 4) = addr
    <3>1. addr \subseteq content /\ addr \subseteq 0 .. 4
      BY <1>3, <2>1
    <3>2. \A b \in 0 .. 4 : b \in content => b \in addr
      BY <1>3, <2>1
    <3> QED BY <3>1, <3>2
  <2>3. content \cap (5 .. 14) = msg
    <3>1. msg \subseteq content /\ msg \subseteq 5 .. 14
      BY <1>3, <2>1
    <3>2. \A b \in 5 .. 14 : b \in content => b \in msg
      BY <1>3, <2>1
    <3> QED BY <3>1, <3>2
  <2>4. content \cap (16 .. 23) = req
    <3>1. req \subseteq content /\ req \subseteq 16 .. 23
      BY <1>3, <2>1
    <3>2. \A b \in 16 .. 23 : b \in content => b \in req
      BY <1>3, <2>1
    <3> QED BY <3>1, <3>2
  <2>5. content \cap (24 .. 31) = id
    <3>1. id \subseteq content /\ id \subseteq 24 .. 31
      BY <1>3, <2>1
    <3>2. \A b \in 24 .. 31 : b \in content => b \in id
      BY <1>3, <2>1
    <3> QED BY <3>1, <3>2
  <2>6. content \cap (32 .. 39) = p0
    <3>1. p0 \subseteq content /\ p0 \subseteq 32 .. 39
      BY <1>3, <2>1
    <3>2. \A b \in 32 .. 39 : b \in content => b \in p0
      BY <1>3, <2>1
    <3> QED BY <3>1, <3>2
  <2>7. content \cap (40 .. 47) = p1
    <3>1. p1 \subseteq content /\ p1 \subseteq 40 .. 47
      BY <1>3, <2>1
    <3>2. \A b \in 40 .. 47 : b \in content => b \in p1
      BY <1>3, <2>1
    <3> QED BY <3>1, <3>2
  <2>8. content \cap (48 .. 63) = time
    <3>1. time \subseteq content /\ time \subseteq 48 .. 63
      BY <1>3, <2>1
    <3>2. \A b \in 48 .. 63 : b \in content => b \in time
      BY <1>3, <2>1
    <3> QED BY <3>1, <3>2
  <2>9. content \cap (64 .. 79) = energy
    <3>1. energy \subseteq content /\ energy \subseteq 64 .. 79
      BY <1>3, <2>1
    <3>2. \A b \in 64 .. 79 : b \in content => b \in energy
      BY <1>3, <2>1
    <3> QED BY <3>1, <3>2
  <2>10. content \cap (15 .. 15) = {}
    <3>1. 15 \notin content
      BY <1>3, <2>1
    <3> QED BY <3>1
  <2> QED BY <2>2, <2>3, <2>4, <2>5, <2>6, <2>7, <2>8, <2>9, <2>10, Zenon
<1> HIDE DEF content
<1>6. /\ frame \in SUBSET FrameBit
      /\ frame \cap ContentBit = content
      /\ Remainder(frame)[96] = {}
  BY <1>2, <1>4, SealedIsValid
<1> DEFINE Held(n, first, width) ==
             content \cap (first .. first + width - 1) = BitsOf(n, first, width)
<1>7. ASSUME NEW n \in Nat, NEW first \in Nat, NEW width \in Nat, first + width <= 80,
             Halved(n, width)[width] = 0, Held(n, first, width)
      PROVE  Value(frame, first, width) = n
  BY <1>6, <1>7, SealedField
<1>8. /\ Held(d, 0, 5) /\ Held(34, 5, 10)
      /\ Held(command.data_req, 16, 8) /\ Held(command.req_msg_id, 24, 8)
      /\ Held(command.charge_cmd_p0, 32, 8) /\ Held(command.charge_cmd_p1, 40, 8)
      /\ Held(command.cmd_charge_time_max, 48, 16) /\ Held(command.cmd_charge_wh_max, 64, 16)
  BY <1>5 DEF addr, msg, req, id, p0, p1, time, energy
<1>9. Held(0, 15, 1) /\ Halved(0, 1)[1] = 0
  <2> DEFINE halved == Halved(0, 1)
  <2>1. halved[0] = 0
    BY HalvedRuns
  <2>2. Halved(0, 1)[1] = 0
    BY HalvedToZero
  <2> HIDE DEF halved
  <2>3. \A i \in 0 .. 1 - 1 : halved[i] % 2 # 1
    BY <2>1
  <2>4. BitsOf(0, 15, 1) = {}
    BY <2>3 DEF BitsOf, halved
  <2> QED BY <1>5, <2>2, <2>4
<1>10. /\ Halved(d, 5)[5] = 0 /\ Halved(34, 10)[10] = 0
       /\ Halved(command.data_req, 8)[8] = 0 /\ Halved(command.req_msg_id, 8)[8] = 0
       /\ Halved(command.charge_cmd_p0, 8)[8] = 0 /\ Halved(command.charge_cmd_p1, 8)[8] = 0
       /\ Halved(command.cmd_charge_time_max, 16)[16] = 0
       /\ Halved(command.cmd_charge_wh_max, 16)[16] = 0
  BY <1>1, HalvedToZero
<1> HIDE DEF Held
<1>11. Value(frame, 0, 5) = d /\ Value(frame, 5, 10) = 34 /\ Value(frame, 15, 1) = 0
  BY <1>7, <1>8, <1>9, <1>10
<1>12. /\ Value(frame, 16, 8) = command.data_req
       /\ Value(frame, 24, 8) = command.req_msg_id
       /\ Value(frame, 32, 8) = command.charge_cmd_p0
       /\ Value(frame, 40, 8) = command.charge_cmd_p1
  BY <1>1, <1>7, <1>8, <1>10
<1>13. /\ Value(frame, 48, 16) = command.cmd_charge_time_max
       /\ Value(frame, 64, 16) = command.cmd_charge_wh_max
  BY <1>1, <1>7, <1>8, <1>10
<1> QED BY <1>6, <1>11, <1>12, <1>13 DEF Header

-----------------------------------------------------------------------------
\* Where a frame may be after n single flips, or one burst.

Damage(D, n) ==
  \/ n = 0 /\ D = {}
  \/ n = 1 /\ \E a \in FrameBit : D = {a}
  \/ n = 2 /\ (D = {} \/ \E a, b \in FrameBit : a < b /\ D = {a, b})
  \/ n = 3 /\ D \subseteq FrameBit /\ Odd(D)
  \/ n = MaxFlips /\ D \in Burst

DamageIsBounded ==
  /\ flips \in 0 .. MaxFlips
  /\ payload \in [length : {0, 11, 12}, bits : SUBSET FrameBit]
  /\ payload.length = 0 => flips = 0
  /\ payload.length = 12 =>
       /\ sent \in SUBSET FrameBit
       /\ Remainder(sent)[96] = {}
       /\ Damage(SymDiff(payload.bits, sent), flips)

-----------------------------------------------------------------------------
\* Every frame on a link is built from its call.

LEMMA InitBuilds == Init => FramesAreBuilt
BY DEF Init, FramesAreBuilt

LEMMA SendBuilds ==
  ASSUME FramesAreBuilt, NEW d \in DeviceId, NEW op \in {"poll", "start", "stop"}, NEW port \in Port,
         NEW command \in Command, SendCommand(d, op, port, command)
  PROVE  FramesAreBuilt'
<1> DEFINE call == [device |-> d, op |-> op, port |-> port, command |-> command]
           x == [device |-> d, call |-> Len(calls) + 1, frame |-> BuildRemoteCmdFrame(d, command)]
<1>1. call \in Call
  BY DEF Call
<1>2. /\ calls \in Seq(Call)
      /\ \A y \in link : Built(y)
  BY DEF FramesAreBuilt
<1>3. /\ calls' \in Seq(Call)
      /\ Len(calls') = Len(calls) + 1
      /\ calls'[Len(calls) + 1] = call
      /\ \A i \in 1 .. Len(calls) : calls'[i] = calls[i]
  BY <1>1, <1>2 DEF SendCommand
<1>4. ASSUME NEW y \in link PROVE Built(y)'
  <2>1. y.call \in 1 .. Len(calls) /\ Len(calls) \in Nat
    BY <1>2 DEF Built
  <2>2. y.call \in 1 .. Len(calls') /\ calls'[y.call] = calls[y.call]
    BY <1>3, <2>1
  <2> QED BY <1>2, <2>2 DEF Built
<1>5. ASSUME NEW y, Fits(command), y = x PROVE Built(y)'
  <2>1. y.call = Len(calls) + 1 /\ y.device = d /\ y.frame = BuildRemoteCmdFrame(d, command)
    BY <1>5
  <2>2. call.device = d /\ call.command = command
    OBVIOUS
  <2>3. y.call \in 1 .. Len(calls') /\ calls'[y.call] = call
    BY <1>2, <1>3, <2>1
  <2> HIDE DEF call
  <2> QED BY <1>5, <2>1, <2>2, <2>3 DEF Built
<1>6. \A y \in link' : y \in link \/ (Fits(command) /\ y = x)
  BY DEF SendCommand
<1>7. ASSUME NEW y \in link' PROVE Built(y)'
  <2>1. CASE y \in link
    BY <1>4, <2>1
  <2>2. CASE Fits(command) /\ y = x
    BY <1>5, <2>2
  <2> HIDE DEF x
  <2> QED BY <1>6, <2>1, <2>2, Zenon
<1> QED BY <1>3, <1>7 DEF FramesAreBuilt

LEMMA KeepBuilds ==
  ASSUME FramesAreBuilt, link' \subseteq link, UNCHANGED calls
  PROVE  FramesAreBuilt'
BY DEF FramesAreBuilt, Built

LEMMA NextBuilds ==
  ASSUME FramesAreBuilt, Next
  PROVE  FramesAreBuilt'
<1>1. DeviceId \subseteq Nat /\ MsgId \subseteq Nat /\ Time \subseteq Nat /\ Energy \subseteq Nat
  BY RemoteCommandAssumption
<1>2. ASSUME NEW d \in DeviceId, NEW m \in MsgId, RequestDeviceData(d, m)
      PROVE  FramesAreBuilt'
  <2> DEFINE command == [NoCommand EXCEPT !.data_req = 1, !.req_msg_id = m]
  <2>1. command \in Command
    BY <1>1 DEF Command, NoCommand
  <2>2. SendCommand(d, "poll", 0, command)
    BY <1>2 DEF RequestDeviceData
  <2> HIDE DEF command
  <2> QED BY <2>1, <2>2, SendBuilds DEF Port
<1>3. ASSUME NEW d \in DeviceId, NEW p \in Port, NEW t \in Time, NEW e \in Energy,
             StartCharging(d, p, t, e)
      PROVE  FramesAreBuilt'
  <2> DEFINE command == [NoCommand EXCEPT !.charge_cmd_p0 = IF p = 0 THEN 17 ELSE 0,
                                          !.charge_cmd_p1 = IF p = 1 THEN 17 ELSE 0,
                                          !.cmd_charge_time_max = t, !.cmd_charge_wh_max = e]
  <2>1. command \in Command
    BY <1>1 DEF Command, NoCommand
  <2>2. SendCommand(d, "start", p, command)
    BY <1>3 DEF StartCharging
  <2> HIDE DEF command
  <2> QED BY <2>1, <2>2, SendBuilds
<1>4. ASSUME NEW d \in DeviceId, NEW p \in Port, StopCharging(d, p)
      PROVE  FramesAreBuilt'
  <2>1. NoCommand \in Command
    BY DEF Command, NoCommand
  <2>2. SendCommand(d, "stop", p, NoCommand)
    BY <1>4 DEF StopCharging
  <2> QED BY <2>1, <2>2, SendBuilds
<1>5. ASSUME NEW x \in link, Obey(x) PROVE FramesAreBuilt'
  BY <1>5, KeepBuilds DEF Obey
<1>6. ASSUME NEW x \in link, Lose(x) PROVE FramesAreBuilt'
  BY <1>6, KeepBuilds DEF Lose
<1> QED BY <1>2, <1>3, <1>4, <1>5, <1>6 DEF Next

LEMMA NoisyNextBuilds ==
  ASSUME FramesAreBuilt, NoisyNext
  PROVE  FramesAreBuilt'
<1>1. CASE Next /\ UNCHANGED noise
  BY <1>1, NextBuilds
<1>2. ASSUME NEW x \in link, SetOut(x) PROVE FramesAreBuilt'
  BY <1>2, KeepBuilds DEF SetOut
<1>3. ASSUME NEW b \in FrameBit, FlipBit(b) PROVE FramesAreBuilt'
  BY <1>3, KeepBuilds DEF FlipBit, vars
<1>4. ASSUME NEW set \in Burst, FlipBurst(set) PROVE FramesAreBuilt'
  BY <1>4, KeepBuilds DEF FlipBurst, vars
<1>5. CASE Truncate
  BY <1>5, KeepBuilds DEF Truncate, vars
<1> QED BY <1>1, <1>2, <1>3, <1>4, <1>5 DEF NoisyNext

\* It is valid.
LEMMA BuiltSealed ==
  ASSUME FramesAreBuilt, NEW x \in link
  PROVE  x.frame \in SUBSET FrameBit /\ Remainder(x.frame)[96] = {}
<1>1. x.frame = BuildRemoteCmdFrame(x.device, calls[x.call].command)
  BY DEF FramesAreBuilt, Built
<1> QED BY <1>1, FrameSealed

\* A frame that is built from a call carries it.
LEMMA BuiltCarries ==
  ASSUME FramesAreBuilt, DeviceId \subseteq 0 .. 31
  PROVE  FrameCarriesCommand
<1> SUFFICES ASSUME NEW x \in link
             PROVE  LET command == calls[x.call].command
                    IN  /\ ValidateFrame([length |-> 12, bits |-> x.frame])
                        /\ Header(x.frame) = [dev_addr |-> x.device, msg_id |-> 34, reserved |-> 0]
                        /\ Value(x.frame, 16, 8) = command.data_req
                        /\ Value(x.frame, 24, 8) = command.req_msg_id
                        /\ Value(x.frame, 32, 8) = command.charge_cmd_p0
                        /\ Value(x.frame, 40, 8) = command.charge_cmd_p1
                        /\ Value(x.frame, 48, 16) = command.cmd_charge_time_max
                        /\ Value(x.frame, 64, 16) = command.cmd_charge_wh_max
  BY DEF FrameCarriesCommand
<1> DEFINE command == calls[x.call].command
           p == [length |-> 12, bits |-> x.frame]
<1>1. Built(x) /\ calls \in Seq(Call)
  BY DEF FramesAreBuilt
<1>2. /\ command \in Command /\ x.device \in 0 .. 31 /\ Fits(command)
      /\ x.frame = BuildRemoteCmdFrame(x.device, command)
  <2>1. calls[x.call] \in Call
    BY <1>1 DEF Built
  <2> QED BY <1>1, <2>1 DEF Built, Call
<1> HIDE DEF command
<1>3. /\ x.frame \in SUBSET FrameBit
      /\ Remainder(x.frame)[96] = {}
      /\ Header(x.frame) = [dev_addr |-> x.device, msg_id |-> 34, reserved |-> 0]
      /\ Value(x.frame, 16, 8) = command.data_req
      /\ Value(x.frame, 24, 8) = command.req_msg_id
      /\ Value(x.frame, 32, 8) = command.charge_cmd_p0
      /\ Value(x.frame, 40, 8) = command.charge_cmd_p1
      /\ Value(x.frame, 48, 16) = command.cmd_charge_time_max
      /\ Value(x.frame, 64, 16) = command.cmd_charge_wh_max
  BY <1>2, FrameReadBack
<1>4. ValidateFrame(p)
  <2>1. p.length = 12 /\ p.bits = x.frame
    OBVIOUS
  <2> HIDE DEF p
  <2> QED BY <1>3, <2>1, ValidIffNoRemainder
<1> QED BY <1>3, <1>4 DEF command

\* A command travels whole or not at all, for every address of five bits and
\* whatever values the callers of MqttService pass.
THEOREM CommandsTravelWhole ==
  ASSUME DeviceId \subseteq 0 .. 31
  PROVE  Spec => []FrameCarriesCommand
<1>1. FramesAreBuilt /\ [Next]_vars => FramesAreBuilt'
  BY NextBuilds, KeepBuilds DEF vars
<1>2. FramesAreBuilt => FrameCarriesCommand
  BY BuiltCarries
<1> QED BY <1>1, <1>2, InitBuilds, PTL DEF Spec

\* The same on the noisy link, up to the moment a frame sets out.
THEOREM CommandsTravelWholeOnNoisyLink ==
  ASSUME DeviceId \subseteq 0 .. 31
  PROVE  NoisySpec => []FrameCarriesCommand
<1>1. NoisyInit => FramesAreBuilt
  BY InitBuilds DEF NoisyInit
<1>2. FramesAreBuilt /\ [NoisyNext]_allVars => FramesAreBuilt'
  BY NoisyNextBuilds, KeepBuilds DEF vars, allVars
<1>3. FramesAreBuilt => FrameCarriesCommand
  BY BuiltCarries
<1> QED BY <1>1, <1>2, <1>3, PTL DEF NoisySpec

-----------------------------------------------------------------------------
\* Damage stays bounded.

LEMMA SymDiffSelf ==
  ASSUME NEW A, NEW B, NEW C
  PROVE  /\ SymDiff(A, A) = {}
         /\ SymDiff(SymDiff(A, C), B) = SymDiff(SymDiff(A, B), C)
         /\ SymDiff(A, B) = {} <=> A = B
         /\ A = SymDiff(SymDiff(A, B), B)
<1>1. \A k : k \in SymDiff(SymDiff(A, C), B) <=> k \in SymDiff(SymDiff(A, B), C)
  BY DEF SymDiff
<1>2. \A k : k \in SymDiff(SymDiff(A, B), B) <=> k \in A
  BY SymDiffMember, Zenon
<1>3. \A k : k \notin SymDiff(A, A)
  BY SymDiffMember, Zenon
<1>4. SymDiff(A, B) = {} <=> \A k : k \in A <=> k \in B
  BY DEF SymDiff
<1> QED BY <1>1, <1>2, <1>3, <1>4

\* One more bit.
LEMMA DamageGrows ==
  ASSUME MaxFlips <= 3, NEW n \in Nat, n < MaxFlips, NEW D, Damage(D, n), NEW b \in FrameBit
  PROVE  Damage(SymDiff(D, {b}), n + 1)
<1> DEFINE E == SymDiff(D, {b})
<1>1. MaxFlips \in Nat /\ n \in {0, 1, 2} /\ n # MaxFlips
  BY FrameCheckAssumption
<1>2. CASE n = 0
  <2>1. E = {b}
    BY <1>1, <1>2 DEF Damage, SymDiff
  <2> QED BY <1>2, <2>1 DEF Damage
<1>3. CASE n = 1
  <2>1. PICK a \in FrameBit : D = {a}
    BY <1>1, <1>3 DEF Damage
  <2>2. CASE a = b
    <3>1. E = {}
      BY <2>1, <2>2 DEF SymDiff
    <3> QED BY <1>3, <3>1 DEF Damage
  <2>3. CASE a # b
    <3>1. E = {a, b} /\ E = {b, a}
      BY <2>1, <2>3 DEF SymDiff
    <3>2. a < b \/ b < a
      BY <2>3 DEF FrameBit
    <3> HIDE DEF E
    <3>3. \E low, high \in FrameBit : low < high /\ E = {low, high}
      BY <3>1, <3>2
    <3> QED BY <1>3, <3>3 DEF Damage, E
  <2> QED BY <2>2, <2>3
<1>4. CASE n = 2
  <2>1. D = {} \/ \E a, c \in FrameBit : a < c /\ D = {a, c}
    BY <1>1, <1>4 DEF Damage
  <2>2. IsFiniteSet(D) /\ ~Odd(D) /\ D \subseteq FrameBit
    <3>1. CASE D = {}
      BY <3>1, OddSmall, FS_EmptySet
    <3>2. ASSUME NEW a \in FrameBit, NEW c \in FrameBit, a < c, D = {a, c}
          PROVE  IsFiniteSet(D) /\ ~Odd(D) /\ D \subseteq FrameBit
      <4>1. a # c
        BY <3>2 DEF FrameBit
      <4> QED BY <3>2, <4>1, OddPair
    <3> QED BY <2>1, <3>1, <3>2
  <2>3. IsFiniteSet({b}) /\ Odd({b})
    BY OddSmall, FS_Singleton
  <2>4. Odd(E)
    BY <2>2, <2>3, OddSymDiff
  <2>5. E \subseteq FrameBit
    BY <2>2 DEF SymDiff
  <2> QED BY <1>4, <2>4, <2>5 DEF Damage
<1> QED BY <1>1, <1>2, <1>3, <1>4

\* Damage that is left shows.
LEMMA DamageShows ==
  ASSUME \A set \in Burst : \A a, b \in set : a - b <= 15,
         NEW n, NEW D, Damage(D, n), D # {}
  PROVE  D \in SUBSET FrameBit /\ Remainder(D)[96] # {}
<1>1. Burst \subseteq SUBSET FrameBit
  BY FrameCheckAssumption
<1>2. ASSUME NEW a \in FrameBit, D = {a} PROVE Remainder(D)[96] # {}
  <2>1. Odd(D) /\ D \in SUBSET FrameBit
    BY <1>2, OddSmall
  <2> QED BY <2>1, OddDamageShows
<1>3. ASSUME NEW a \in FrameBit, NEW b \in FrameBit, a < b, D = {a, b}
      PROVE  Remainder(D)[96] # {}
  BY <1>3, PairShows
<1>4. ASSUME D \subseteq FrameBit, Odd(D) PROVE Remainder(D)[96] # {}
  BY <1>4, OddDamageShows
<1>5. ASSUME D \in Burst PROVE Remainder(D)[96] # {}
  BY <1>1, <1>5, BurstShows
<1>6. D \in SUBSET FrameBit
  BY <1>1 DEF Damage
<1> QED BY <1>2, <1>3, <1>4, <1>5, <1>6 DEF Damage

LEMMA InitUndamaged == NoisyInit => DamageIsBounded
BY FrameCheckAssumption DEF NoisyInit, DamageIsBounded

LEMMA NextDamages ==
  ASSUME MaxFlips <= 3, FramesAreBuilt, DamageIsBounded, NoisyNext
  PROVE  DamageIsBounded'
<1>1. MaxFlips \in Nat /\ Burst \subseteq SUBSET FrameBit
  BY FrameCheckAssumption
<1>2. CASE Next /\ UNCHANGED noise
  BY <1>2 DEF DamageIsBounded, noise
<1>3. ASSUME NEW x \in link, SetOut(x) PROVE DamageIsBounded'
  <2>1. x.frame \in SUBSET FrameBit /\ Remainder(x.frame)[96] = {}
    BY BuiltSealed
  <2>2. SymDiff(x.frame, x.frame) = {}
    BY SymDiffSelf
  <2>3. /\ payload' = [length |-> 12, bits |-> x.frame] /\ sent' = x.frame
        /\ flips = 0 /\ flips' = 0 /\ flips \in 0 .. MaxFlips
    BY <1>3 DEF SetOut, DamageIsBounded
  <2>4. payload'.length = 12 /\ payload'.bits = x.frame
    BY <2>3
  <2>5. payload' \in [length : {0, 11, 12}, bits : SUBSET FrameBit]
    BY <2>1, <2>3
  <2>6. SymDiff(payload'.bits, sent') = {}
    BY <2>2, <2>3, <2>4
  <2>7. sent' \in SUBSET FrameBit /\ Remainder(sent')[96] = {}
    BY <2>1, <2>3
  <2>8. flips' \in 0 .. MaxFlips /\ flips' = 0
    BY <2>3
  <2>9. Damage(SymDiff(payload'.bits, sent'), flips')
    BY <2>6, <2>8 DEF Damage
  <2> QED BY <2>4, <2>5, <2>7, <2>8, <2>9 DEF DamageIsBounded
<1>4. ASSUME NEW b \in FrameBit, FlipBit(b) PROVE DamageIsBounded'
  <2>1. /\ payload.length = 12 /\ payload'.length = 12 /\ flips < MaxFlips
        /\ flips' = flips + 1 /\ payload'.bits = SymDiff(payload.bits, {b}) /\ sent' = sent
        /\ payload' \in [length : {0, 11, 12}, bits : SUBSET FrameBit]
    <3>1. SymDiff(payload.bits, {b}) \subseteq FrameBit
      BY DEF DamageIsBounded, SymDiff
    <3> QED BY <1>4, <3>1 DEF FlipBit, Flip, DamageIsBounded
  <2>2. flips \in Nat /\ flips + 1 \in 0 .. MaxFlips
    BY <1>1, <2>1 DEF DamageIsBounded
  <2>3. Damage(SymDiff(payload.bits, sent), flips)
    BY <2>1 DEF DamageIsBounded
  <2>4. Damage(SymDiff(SymDiff(payload.bits, sent), {b}), flips + 1)
    BY <2>1, <2>2, <2>3, DamageGrows
  <2>5. Damage(SymDiff(payload'.bits, sent), flips + 1)
    BY <2>1, <2>4, SymDiffSelf
  <2>6. sent \in SUBSET FrameBit /\ Remainder(sent)[96] = {}
    BY <2>1 DEF DamageIsBounded
  <2>7. Damage(SymDiff(payload'.bits, sent'), flips')
    BY <2>1, <2>5
  <2> QED BY <2>1, <2>2, <2>6, <2>7 DEF DamageIsBounded
<1>5. ASSUME NEW set \in Burst, FlipBurst(set) PROVE DamageIsBounded'
  <2>1. /\ payload.length = 12 /\ payload'.length = 12 /\ flips' = MaxFlips
        /\ payload'.bits = SymDiff(sent, set) /\ sent' = sent
        /\ payload' \in [length : {0, 11, 12}, bits : SUBSET FrameBit]
    <3>1. SymDiff(payload.bits, set) \subseteq FrameBit
      BY <1>1 DEF DamageIsBounded, SymDiff
    <3> QED BY <1>5, <3>1 DEF FlipBurst, Flip, DamageIsBounded
  <2>2. SymDiff(SymDiff(sent, set), sent) = set
    BY DEF SymDiff
  <2>3. sent \in SUBSET FrameBit /\ Remainder(sent)[96] = {}
    BY <2>1 DEF DamageIsBounded
  <2> QED BY <1>1, <2>1, <2>2, <2>3 DEF DamageIsBounded, Damage
<1>6. CASE Truncate
  BY <1>6 DEF Truncate, DamageIsBounded
<1> QED BY <1>2, <1>3, <1>4, <1>5, <1>6 DEF NoisyNext

-----------------------------------------------------------------------------
\* The two invariants together.

NoisyInv == FramesAreBuilt /\ DamageIsBounded

LEMMA NoisyInvHolds ==
  ASSUME MaxFlips <= 3
  PROVE  NoisySpec => []NoisyInv
<1>1. NoisyInit => NoisyInv
  BY InitBuilds, InitUndamaged DEF NoisyInit, NoisyInv
<1>2. NoisyInv /\ [NoisyNext]_allVars => NoisyInv'
  <2> SUFFICES ASSUME NoisyInv, [NoisyNext]_allVars PROVE NoisyInv'
    OBVIOUS
  <2>1. CASE NoisyNext
    BY <2>1, NoisyNextBuilds, NextDamages DEF NoisyInv
  <2>2. CASE UNCHANGED allVars
    <3>1. FramesAreBuilt'
      BY <2>2, KeepBuilds DEF NoisyInv, allVars, vars
    <3>2. DamageIsBounded'
      BY <2>2 DEF NoisyInv, DamageIsBounded, allVars, noise
    <3> QED BY <3>1, <3>2 DEF NoisyInv
  <2> QED BY <2>1, <2>2
<1> QED BY <1>1, <1>2, PTL DEF NoisySpec

\* validateFrame accepts a payload iff it is a codeword of CRC-16/ARC, whatever
\* happened to it on the link.
THEOREM ValidPayloadsAreCodewords ==
  NoisySpec => []ValidIffCodeword
<1> DEFINE Inv == FramesAreBuilt /\ payload \in [length : Nat, bits : SUBSET FrameBit]
<1>1. NoisyInit => Inv
  BY InitBuilds DEF NoisyInit
<1>2. Inv /\ [NoisyNext]_allVars => Inv'
  <2> SUFFICES ASSUME Inv, [NoisyNext]_allVars PROVE Inv'
    OBVIOUS
  <2>1. FramesAreBuilt'
    BY NoisyNextBuilds, KeepBuilds DEF vars, allVars
  <2>2. CASE Next /\ UNCHANGED noise
    BY <2>1, <2>2 DEF noise
  <2>3. ASSUME NEW x \in link, SetOut(x) PROVE Inv'
    BY <2>1, <2>3, BuiltSealed DEF SetOut
  <2>4. ASSUME NEW set \in SUBSET FrameBit, Flip(set) PROVE Inv'
    <3>1. SymDiff(payload.bits, set) \subseteq FrameBit
      BY DEF SymDiff
    <3> QED BY <2>1, <2>4, <3>1 DEF Flip
  <2>5. ASSUME NEW b \in FrameBit, FlipBit(b) PROVE Inv'
    BY <2>4, <2>5 DEF FlipBit
  <2>6. ASSUME NEW set \in Burst, FlipBurst(set) PROVE Inv'
    BY <2>4, <2>6, FrameCheckAssumption DEF FlipBurst
  <2>7. CASE Truncate
    BY <2>1, <2>7 DEF Truncate
  <2>8. CASE UNCHANGED allVars
    BY <2>1, <2>8 DEF allVars, noise
  <2> QED BY <2>2, <2>3, <2>5, <2>6, <2>7, <2>8 DEF NoisyNext
<1>3. Inv => ValidIffCodeword
  BY ValidateFrameIsCodeword DEF ValidIffCodeword, Payload
<1> QED BY <1>1, <1>2, <1>3, PTL DEF NoisySpec

\* Up to three flipped bits, any burst of flips within sixteen bits, and a byte cut
\* off are found out by validateFrame, wherever they strike.
THEOREM DamageIsFoundOut ==
  ASSUME MaxFlips <= 3,
         \A set \in Burst : \A a, b \in set : a - b <= 15
  PROVE  NoisySpec => []DamageIsDetected
<1>1. NoisyInv => DamageIsDetected
  <2> SUFFICES ASSUME NoisyInv PROVE DamageIsDetected
    OBVIOUS
  <2> DEFINE D == SymDiff(payload.bits, sent)
  <2>1. /\ payload \in [length : {0, 11, 12}, bits : SUBSET FrameBit]
        /\ payload.length = 12 => /\ sent \in SUBSET FrameBit
                                  /\ Remainder(sent)[96] = {}
                                  /\ Damage(D, flips)
    BY DEF NoisyInv, DamageIsBounded
  <2>2. CASE payload.length # 12
    BY <2>2 DEF DamageIsDetected, ValidateFrame
  <2>3. CASE payload.length = 12
    <3> HIDE DEF D
    <3>1. ValidateFrame(payload) <=> Remainder(payload.bits)[96] = {}
      BY <2>1, <2>3, ValidIffNoRemainder
    <3>2. payload.bits = sent => Remainder(payload.bits)[96] = {}
      BY <2>1, <2>3
    <3>3. payload.bits # sent => D # {}
      BY SymDiffSelf DEF D
    <3>4. D # {} => D \in SUBSET FrameBit /\ Remainder(D)[96] # {}
      BY <2>1, <2>3, DamageShows
    <3>5. D # {} => Remainder(payload.bits)[96] # {}
      <4> SUFFICES ASSUME D # {} PROVE Remainder(payload.bits)[96] # {}
        OBVIOUS
      <4>1. D \in SUBSET Int /\ sent \in SUBSET Int /\ 96 \in 0 .. 96
        BY <2>1, <2>3, <3>4, FrameBitFinite
      <4>2. payload.bits = SymDiff(D, sent)
        BY SymDiffSelf DEF D
      <4>3. Remainder(payload.bits)[96] = SymDiff(Remainder(D)[96], Remainder(sent)[96])
        BY <4>1, <4>2, RemainderSymDiff
      <4> QED BY <2>1, <2>3, <3>4, <4>3 DEF SymDiff
    <3>6. payload = [length |-> 12, bits |-> sent] <=> payload.bits = sent
      BY <2>1, <2>3
    <3> QED BY <3>1, <3>2, <3>3, <3>5, <3>6 DEF DamageIsDetected
  <2> QED BY <2>2, <2>3
<1>2. NoisySpec => []NoisyInv
  BY NoisyInvHolds
<1> QED BY <1>1, <1>2, PTL
=============================================================================
