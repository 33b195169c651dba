--------------------------- MODULE MCDeviceRegistry ---------------------------
(* Instances of DeviceRegistry for TLC.                                      *)
EXTENDS DeviceRegistry, TLC

\* No fault; one silent bit; a high one (contactor); a silent bit next to a
\* critical one.
MCFaultCode == {{}, {7}, {8}, {7, 10}}

MCReadySignals == {{}, {0, 1}}

\* Single bits that the code and the DBC file may name differently.
MCDbcFaultCode == {{}, {1}, {2}, {6}, {7}}

CallSymmetry == Permutations(Call)
=============================================================================
