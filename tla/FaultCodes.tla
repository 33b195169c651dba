------------------------------ MODULE FaultCodes ------------------------------
(***************************************************************************)
(* The fault code of an evse_state message, as DeviceService reads it.  A  *)
(* 16-bit code is the set of its bits; a mask test `code & mask` is a      *)
(* non-empty intersection.                                                 *)
(***************************************************************************)
EXTENDS Naturals

Bit == 0 .. 15

\* parseErrorCode: the name of each bit that has one.
ErrorName ==
  [b \in 0 .. 10 |->
     CASE b = 0  -> "OVERCURRENT_L1"
       [] b = 1  -> "OVERCURRENT_L2"
       [] b = 2  -> "OVERCURRENT_L3"
       [] b = 3  -> "OVERVOLTAGE"
       [] b = 4  -> "UNDERVOLTAGE"
       [] b = 5  -> "OVERTEMPERATURE"
       [] b = 6  -> "GROUND_FAULT"
       [] b = 7  -> "COMMUNICATION_ERROR"
       [] b = 8  -> "CONTACTOR_FAULT"
       [] b = 9  -> "PILOT_FAULT"
       [] b = 10 -> "EMERGENCY_STOP"]

ParseErrorCode(code) ==
  IF code \cap DOMAIN ErrorName = {}
  THEN {"UNKNOWN_ERROR"}
  ELSE {ErrorName[b] : b \in code \cap DOMAIN ErrorName}

CriticalMask == {5, 6, 10}         \* 0x460
MediumMask   == {7}                \* 0x80

\* Mistake: the mask 0x1F, without the contactor bit.
HighMaskTooNarrow == {0, 1, 2, 3, 4}

HighMask     == {0, 1, 2, 3, 4, 8} \* 0x11F

DetermineSeverity(code) ==
  CASE code \cap CriticalMask # {} -> "critical"
    [] code \cap CriticalMask = {} /\ code \cap HighMask # {} -> "high"
    [] code \cap (CriticalMask \cup HighMask) = {} /\ code \cap MediumMask # {} -> "medium"
    [] OTHER -> "low"

\* The condition under which handleDeviceError calls the Main Backend.
Reportable(code) == DetermineSeverity(code) \in {"critical", "high"}

\* What the DBC file says the bits mean (CM_ SG_ 16 fault_code), for the bits
\* whose meaning has a name in parseErrorCode too.
DbcMeaning ==
  [b \in {1, 2, 6, 7} |->
     CASE b = 1 -> "OVERVOLTAGE"    \* EVSE_FLT_OVP
       [] b = 2 -> "UNDERVOLTAGE"   \* EVSE_FLT_UVP
       [] b = 6 -> "GROUND_FAULT"   \* EVSE_FLT_GFCI
       [] b = 7 -> "PILOT_FAULT"]   \* EVSE_FLT_PILOT
=============================================================================
