-------------------------- MODULE MCMessageHandling --------------------------
(* Instances of MessageHandling for TLC.                                     *)
EXTENDS MessageHandling

\* No fault and a severe one (contactor).
MCFaultCode == {{}, {8}}
=============================================================================
