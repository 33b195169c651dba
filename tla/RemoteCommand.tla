----------------------------- MODULE RemoteCommand -----------------------------
(***************************************************************************)
(* The commands MqttService sends to devices (requestDeviceData,           *)
(* startCharging, stopCharging), the frames they become, and a device that *)
(* reads them as the DBC file describes message 34, remote_cmd.  The       *)
(* device is not part of the repository: what is modelled of it is the DBC *)
(* file's layout and the meaning the file gives to the signals.            *)
(***************************************************************************)
EXTENDS Frame, Sequences

CONSTANTS DeviceId,      \* ids of devices that commands are sent to
          MsgId, Time, Energy,   \* arguments callers pass
          MaxCalls       \* bound: commands sent or refused

Port == {0, 1}

VARIABLES link,          \* frames on the OUTBOX topics
          charging,      \* per device, the ports that follow a START command
          calls          \* history: the calls made

vars == <<link, charging, calls>>

ASSUME RemoteCommandAssumption ==
  /\ DeviceId \cup MsgId \cup Time \cup Energy \subseteq Nat
  /\ MaxCalls \in Nat

NoCommand == [data_req |-> 0, req_msg_id |-> 0, charge_cmd_p0 |-> 0, charge_cmd_p1 |-> 0,
              cmd_charge_time_max |-> 0, cmd_charge_wh_max |-> 0]

Init ==
  /\ link = {}
  /\ charging = [d \in DeviceId |-> {}]
  /\ calls = <<>>

-----------------------------------------------------------------------------
\* Mistake: nobody checks that a value fits, the excess bits are cut off.
AlwaysFits(command) == TRUE

\* writeUInt8 and writeUInt16LE throw a RangeError for a value that is too large.
Fits(command) ==
  /\ command.req_msg_id <= 255
  /\ command.cmd_charge_time_max <= 65535
  /\ command.cmd_charge_wh_max <= 65535

BuildRemoteCmdFrame(deviceId, command) ==
  Seal(UNION { CommAddr(deviceId, 34),
               BitsOf(command.data_req, 16, 8),
               BitsOf(command.req_msg_id, 24, 8),
               BitsOf(command.charge_cmd_p0, 32, 8),
               BitsOf(command.charge_cmd_p1, 40, 8),
               BitsOf(command.cmd_charge_time_max, 48, 16),
               BitsOf(command.cmd_charge_wh_max, 64, 16) })

\* A frame that cannot be built is not sent, and the call rejects.
SendCommand(d, op, port, command) ==
  /\ Len(calls) < MaxCalls
  /\ link' = IF Fits(command)
             THEN link \cup {[device |-> d, call |-> Len(calls) + 1,
                              frame |-> BuildRemoteCmdFrame(d, command)]}
             ELSE link
  /\ calls' = Append(calls, [device |-> d, op |-> op, port |-> port, command |-> command])
  /\ UNCHANGED charging

RequestDeviceData(d, m) ==
  SendCommand(d, "poll", 0, [NoCommand EXCEPT !.data_req = 1, !.req_msg_id = m])

\* 0x11 for the port that is started, 0 for the other.
StartCharging(d, port, t, e) ==
  SendCommand(d, "start", port,
    [NoCommand EXCEPT !.charge_cmd_p0 = IF port = 0 THEN 17 ELSE 0,
                      !.charge_cmd_p1 = IF port = 1 THEN 17 ELSE 0,
                      !.cmd_charge_time_max = t, !.cmd_charge_wh_max = e])

\* 0 for the port that is stopped, and by default for the other.
StopCharging(d, port) == SendCommand(d, "stop", port, NoCommand)

-----------------------------------------------------------------------------
\* What the DBC file says of remote_cmd: the signals' places in the data.
Decoded(bits) ==
  [charge_cmd |-> [p \in Port |-> Value(bits, 16 + p, 1)],
   data_req |-> Value(bits, 18, 1),
   req_msg_id |-> Value(bits, 19, 10),
   cmd_charge_time_max |-> Value(bits, 29, 11),
   cmd_charge_wh_max |-> Value(bits, 40, 17)]

\* The device: a data request is no command; a command starts and stops ports.
Obey(x) ==
  /\ x \in link
  /\ link' = link \ {x}
  /\ LET signals == Decoded(x.frame)
     IN  charging' = IF signals.data_req = 1 THEN charging
                     ELSE [charging EXCEPT ![x.device] = {p \in Port : signals.charge_cmd[p] = 1}]
  /\ UNCHANGED calls

Lose(x) ==
  /\ x \in link
  /\ link' = link \ {x}
  /\ UNCHANGED <<charging, calls>>

Next ==
  \/ \E d \in DeviceId :
       \/ \E m \in MsgId : RequestDeviceData(d, m)
       \/ \E p \in Port, t \in Time, e \in Energy : StartCharging(d, p, t, e)
       \/ \E p \in Port : StopCharging(d, p)
  \/ \E x \in link : Obey(x) \/ Lose(x)

Spec == Init /\ [][Next]_vars

-----------------------------------------------------------------------------
\* A command travels whole or not at all: the frame of a call is valid, its
\* header names the device of its topic and message 34 to the DBC service's
\* parser, and the bytes hold the very values of the call, none cut short.
FrameCarriesCommand ==
  \A x \in link :
    LET command == calls[x.call].command
    IN  /\ ValidateFrame([length |-> 12, bits |-> x.frame])
        /\ Header(x.frame) = [dev_addr |-> x.device, msg_id |-> 34, reserved |-> 0]
        /\ Value(x.frame, 16, 8) = command.data_req
        /\ Value(x.frame, 24, 8) = command.req_msg_id
        /\ Value(x.frame, 32, 8) = command.charge_cmd_p0
        /\ Value(x.frame, 40, 8) = command.charge_cmd_p1
        /\ Value(x.frame, 48, 16) = command.cmd_charge_time_max
        /\ Value(x.frame, 64, 16) = command.cmd_charge_wh_max

-----------------------------------------------------------------------------
\* What the DBC file says, and the code does not do.

\* charging_station.dbc on data_req, "0 - command, 1 - data request": a port
\* begins to charge only if the service was asked to start it.
OnlyStartStarts ==
  \A d \in DeviceId, p \in Port : p \in charging[d] =>
    \E i \in 1 .. Len(calls) :
      calls[i].device = d /\ calls[i].op = "start" /\ calls[i].port = p
=============================================================================
