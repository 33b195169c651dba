----------------------------- MODULE MCFrameCheck -----------------------------
(* Instances of FrameCheck for TLC.                                          *)
EXTENDS FrameCheck

\* A heartbeat's message id, and one that needs the ninth bit.
MCMsgId == {20, 257}

\* 30000 Wh, and a value the DBC file allows and a 16-bit field does not hold.
MCEnergy == {30000, 100000}

\* Bursts of two to sixteen bits, solid ones and ones with holes.
MCWindow == {w \in FrameBit \X FrameBit : w[2] - w[1] \in 1 .. 15}
MCBurst == {w[1] .. w[2] : w \in MCWindow}
           \cup {{b \in w[1] .. w[2] : (b - w[1]) % 3 = 0} : w \in MCWindow}
=============================================================================
