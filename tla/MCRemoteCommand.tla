---------------------------- MODULE MCRemoteCommand ----------------------------
(* Instances of RemoteCommand for TLC.                                       *)
EXTENDS RemoteCommand

\* The heartbeat's two message ids, and one that needs the ninth bit.
MCMsgId == {16, 20, 257}

\* 30000 Wh, and a value the DBC file allows and a 16-bit field does not hold.
MCEnergy == {30000, 100000}
=============================================================================
