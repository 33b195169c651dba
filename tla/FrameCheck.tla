------------------------------ MODULE FrameCheck ------------------------------
(***************************************************************************)
(* Remote commands on a noisy link: a frame sealed by buildRemoteCmdFrame, *)
(* damaged on its way, and validated at the other end as                   *)
(* MqttService.validateFrame does (a station is expected to do the same).  *)
(* RetryLoop takes for granted that damaged frames are found out; here is  *)
(* how much damage that covers.                                            *)
(***************************************************************************)
EXTENDS RemoteCommand

CONSTANTS Noisy,         \* devices whose link is noisy
          MaxFlips,      \* bound: single bits flipped on the link
          Burst          \* bursts: sets of bits flipped together

VARIABLES sent,          \* the frame on the noisy link, as sealed
          payload,       \* the payload as it stands there
          flips          \* history: bits flipped one by one

noise == <<sent, payload, flips>>
allVars == <<vars, noise>>

ASSUME FrameCheckAssumption ==
  /\ Noisy \subseteq DeviceId
  /\ MaxFlips \in Nat
  /\ Burst \subseteq SUBSET FrameBit

NoisyInit ==
  /\ Init
  /\ sent = {}
  /\ payload = [length |-> 0, bits |-> {}]
  /\ flips = 0

\* A command sets out on the noisy link.
SetOut(x) ==
  /\ x \in link
  /\ x.device \in Noisy
  /\ payload.length = 0
  /\ link' = link \ {x}
  /\ sent' = x.frame
  /\ payload' = [length |-> 12, bits |-> x.frame]
  /\ UNCHANGED <<charging, calls, flips>>

Flip(set) == payload' = [payload EXCEPT !.bits = SymDiff(@, set)]

FlipBit(b) ==
  /\ payload.length = 12
  /\ flips < MaxFlips
  /\ flips' = flips + 1
  /\ Flip({b})
  /\ UNCHANGED <<vars, sent>>

FlipBurst(set) ==
  /\ payload.length = 12
  /\ payload.bits = sent
  /\ flips' = MaxFlips
  /\ Flip(set)
  /\ UNCHANGED <<vars, sent>>

\* The last byte is cut off.
Truncate ==
  /\ payload.length = 12
  /\ payload' = [length |-> 11, bits |-> payload.bits \cap (0 .. 87)]
  /\ UNCHANGED <<vars, sent, flips>>

NoisyNext ==
  \/ Next /\ UNCHANGED noise
  \/ \E x \in link : SetOut(x)
  \/ \E b \in FrameBit : FlipBit(b)
  \/ \E set \in Burst : FlipBurst(set)
  \/ Truncate

NoisySpec == NoisyInit /\ [][NoisyNext]_allVars

-----------------------------------------------------------------------------
\* The bitwise loop of CRC16.calculate, the byte order in which the service
\* writes and reads the checksum, and the division of polynomials it stands for
\* agree: a twelve-byte payload is valid iff it is a codeword.
ValidIffCodeword ==
  ValidateFrame(payload) <=> payload.length = 12 /\ Codeword(payload.bits)

\* Up to MaxFlips single-bit errors and any burst of Burst are found out,
\* wherever they strike, the checksum included; so is a lost byte.
DamageIsDetected ==
  ValidateFrame(payload) <=> payload = [length |-> 12, bits |-> sent]
=============================================================================
