--------------------------------- MODULE Frame ---------------------------------
(***************************************************************************)
(* The twelve-byte frames that devices and the service exchange:           *)
(*   bits  0 ..  4   device address                                        *)
(*   bits  5 .. 14   message id (bit 15 is reserved)                       *)
(*   bits 16 .. 79   eight bytes of CAN data                               *)
(*   bits 80 .. 95   CRC16 of the bytes before                             *)
(* A frame is the set of its bits that are 1; bit k of byte b is bit       *)
(* 8b + k, so every multi-byte field is little endian, as in the code.     *)
(* A 16-bit word is a set of bits too, and exclusive or is SymDiff.        *)
(***************************************************************************)
EXTENDS FiniteSetsExt, Integers

FrameBit == 0 .. 95
ContentBit == 0 .. 79

\* A payload received: its length in bytes and its bits.
Payload == [length : Nat, bits : SUBSET FrameBit]

-----------------------------------------------------------------------------
BitAt(bits, b) == IF b \in bits THEN 1 ELSE 0

\* The number in a field, its bits taken from the highest down.
ValueFromTop(bits, first, width) ==
  LET value[i \in 0 .. width] ==
        IF i = 0 THEN 0 ELSE 2 * value[i - 1] + BitAt(bits, first + width - i)
  IN  value

Value(bits, first, width) == ValueFromTop(bits, first, width)[width]

\* The bits of a field that holds a number, which is halved from bit to bit.
Halved(n, width) ==
  LET halved[i \in 0 .. width] == IF i = 0 THEN n ELSE halved[i - 1] \div 2
  IN  halved

BitsOf(n, first, width) ==
  {first + k : k \in {i \in 0 .. width - 1 : Halved(n, width)[i] % 2 = 1}}

ByteOf(bits, b) == {k \in 0 .. 7 : 8 * b + k \in bits}

-----------------------------------------------------------------------------
\* Mistake: 0x8005, the polynomial of a CRC that shifts to the left.
PolynomialMirrored == {0, 2, 15}

\* 0xA001, the reflected polynomial of CRC-16/ARC.
Polynomial == {0, 13, 15}

ShiftRight(word) == {k - 1 : k \in word \ {0}}

CrcBit(crc) ==
  IF 0 \in crc THEN SymDiff(ShiftRight(crc), Polynomial) ELSE ShiftRight(crc)

\* The inner loop, eight turns for a byte, and the outer one over the bytes.
CrcTurns(word) ==
  LET crc[i \in 0 .. 8] == IF i = 0 THEN word ELSE CrcBit(crc[i - 1])
  IN  crc

CrcByte(crc, byte) == CrcTurns(SymDiff(crc, byte))[8]

CrcBytes(bits, n) ==
  LET crc[i \in 0 .. n] == IF i = 0 THEN {} ELSE CrcByte(crc[i - 1], ByteOf(bits, i - 1))
  IN  crc

\* CRC16.calculate of the first n bytes.
Calculate(bits, n) == CrcBytes(bits, n)[n]

\* Address, data and the CRC of both.
Seal(content) == content \cup {80 + k : k \in Calculate(content, 10)}

\* Mistake: only the low byte of the CRC is compared.
ValidateLowByte(p) ==
  /\ p.length = 12
  /\ ByteOf(p.bits, 10) = Calculate(p.bits, 10) \cap (0 .. 7)

ValidateFrame(p) ==
  /\ p.length = 12
  /\ {k - 80 : k \in p.bits \cap (80 .. 95)} = Calculate(p.bits, 10)

-----------------------------------------------------------------------------
\* The header as buildRemoteCmdFrame writes it and as the DBC service reads it.
CommAddr(deviceId, msgId) == BitsOf(deviceId % 32, 0, 5) \cup BitsOf(msgId % 1024, 5, 10)

Header(bits) ==
  [dev_addr |-> Value(bits, 0, 5), msg_id |-> Value(bits, 5, 10), reserved |-> Value(bits, 15, 1)]

-----------------------------------------------------------------------------
\* What the CRC is meant to be.  The bits of a frame in the order of sending are
\* the coefficients of a polynomial over GF(2), bit 0 that of x^95; the frame is
\* a codeword iff x^16 + x^15 + x^2 + 1 divides it.  Residue[e] is x^e modulo
\* that polynomial, as the set of its exponents.
TimesX(word) ==
  LET shifted == {k + 1 : k \in word}
  IN  IF 16 \in shifted THEN SymDiff(shifted \ {16}, {15, 2, 0}) ELSE shifted

Residue[e \in 0 .. 95] == IF e = 0 THEN {0} ELSE TimesX(Residue[e - 1])

ResidueOfBit == [b \in FrameBit |-> Residue[95 - b]]

Codeword(bits) ==
  \A k \in 0 .. 15 : Cardinality({b \in bits : k \in ResidueOfBit[b]}) % 2 = 0
=============================================================================
