------------------------------- MODULE Crc16 --------------------------------
(***************************************************************************)
(* The checksum of SLAP packets, src/aj_crc16.c, over bytes 0..255.        *)
(***************************************************************************)
EXTENDS Integers, Sequences, SequencesExt

Byte == 0..255

\* AJ_SERIAL_CRC_INIT
CrcInit == 65535

\* The exclusive or of C, of numbers of 16 bits; k is the weight of a bit, or of the lowest of four.
Xor(a, b) ==
  LET bit(k)  == k * (((a \div k) + (b \div k)) % 2)
      four(k) == bit(k) + bit(2 * k) + bit(4 * k) + bit(8 * k)
  IN  four(1) + four(16) + four(256) + four(4096)

\* Division of one bit by the polynomial 0x8408 (x^16 + x^12 + x^5 + 1, low bit first).
CrcBit(c) == IF c % 2 = 1 THEN Xor(c \div 2, 33800) ELSE c \div 2

\* The table of the source: what eight bits of division make of every byte.
crc16 ==
  LET divided(b) == LET after[i \in 0..8] == IF i = 0 THEN b ELSE CrcBit(after[i - 1]) IN after[8]
  IN  [b \in Byte |-> divided(b)]

AJ_CRC16_Compute(bytes, crc) ==
  LET next(c, b) == Xor(crc16[Xor(c % 256, b)], c \div 256)
      after[i \in 0..Len(bytes)] == IF i = 0 THEN crc ELSE next(after[i - 1], bytes[i])
  IN  after[Len(bytes)]

\* The four bits of n in the opposite order.
rev(n) == (n % 2) * 8 + ((n \div 2) % 2) * 4 + ((n \div 4) % 2) * 2 + (n \div 8)

\* The two bytes sent: the bits of the remainder in the opposite order.
AJ_CRC16_Complete(crc) ==
  LET nibble(k) == rev((crc \div k) % 16)
  IN  <<16 * nibble(1) + nibble(16), 16 * nibble(256) + nibble(4096)>>

CrcBytes(bytes) == AJ_CRC16_Complete(AJ_CRC16_Compute(bytes, CrcInit))
=============================================================================
