----------------------------- MODULE SlipProofs -----------------------------
(***************************************************************************)
(* Theorems about Slip and SlipLine for any packet size, payload, script,  *)
(* number of buffers and damage: no buffer or packet is ever lost, the     *)
(* decoder finds in the bytes of an undamaged frame the packet they were   *)
(* made from, and damage costs no more than a frame and the next one.      *)
(***************************************************************************)
EXTENDS SlipLine, WellFoundedInduction, SequenceTheorems, TLAPS

-----------------------------------------------------------------------------
\* Definitions by recursion on 0..n.

\* What holds of 0, and of i whenever of i - 1, holds up to n.
LEMMA Induct ==
  ASSUME NEW n \in Nat, NEW S, 0 \in S, \A i \in 1..n : i - 1 \in S => i \in S
  PROVE  \A i \in 0..n : i \in S
<1> DEFINE less == OpToRel(<, Nat)
           T == (0..n) \ S
<1>1. \A i, j \in Nat : <<i, j>> \in less <=> i < j
  BY DEF OpToRel
<1>2. IsWellFoundedOn(less, Nat)
  BY NatLessThanWellFounded
<1>3. T \subseteq Nat
  OBVIOUS
<1> SUFFICES ASSUME T # {} PROVE FALSE
  OBVIOUS
<1> HIDE DEF less
<1>4. PICK i \in T : \A j \in T : <<j, i>> \notin less
  <2> HIDE DEF T
  <2> QED
    BY <1>2, <1>3, WFMin, Zenon
<1>5. i \in 1..n
  BY <1>4
<1>6. i - 1 \in T
  BY <1>4, <1>5
<1>7. i - 1 \in Nat /\ i \in Nat /\ i - 1 < i
  BY <1>5
<1>8. <<i - 1, i>> \in less
  BY <1>1, <1>7
<1> QED
  BY <1>4, <1>6, <1>8

\* The values f[0], ..., f[n] start with base and go on by step.
Iterates(f, n, base, step) == f[0] = base /\ \A i \in 1..n : f[i] = step[<<i, f[i - 1]>>]

\* A function that begins with base and goes on by step exists, and has the type of the step.
LEMMA Iterated ==
  ASSUME NEW n \in Nat, NEW T, NEW base \in T, NEW step \in [(1..n) \X T -> T]
  PROVE  \E f \in [0..n -> T] : Iterates(f, n, base, step)
<1> DEFINE Good(m, f) == Iterates(f, m, base, step)
           S == {m \in 0..n : \E f \in [0..m -> T] : Good(m, f)}
<1>1. 0 \in S
  <2>1. [i \in 0..0 |-> base] \in [0..0 -> T] /\ Good(0, [i \in 0..0 |-> base])
    BY DEF Iterates
  <2>2. \E f \in [0..0 -> T] : Good(0, f)
    BY <2>1
  <2> HIDE DEF Good
  <2> QED
    BY <2>2
<1>2. ASSUME NEW m \in 1..n, m - 1 \in S PROVE m \in S
  <2>1. PICK f \in [0..(m - 1) -> T] : Good(m - 1, f)
    BY <1>2
  <2>2. f[m - 1] \in T
    BY <2>1 DEF Iterates
  <2>3. step[<<m, f[m - 1]>>] \in T
    BY <2>2
  <2> DEFINE g == [i \in 0..m |-> IF i = m THEN step[<<m, f[m - 1]>>] ELSE f[i]]
  <2>4. g \in [0..m -> T]
    BY <2>1, <2>3
  <2>5. g[0] = base
    BY <2>1 DEF Iterates
  <2>6. ASSUME NEW i \in 1..m PROVE g[i] = step[<<i, g[i - 1]>>]
    <3>1. g[i - 1] = f[i - 1]
      BY <2>6
    <3>2. CASE i = m
      <4>1. g[m] = step[<<m, f[m - 1]>>]
        OBVIOUS
      <4> QED
        BY <4>1, <3>1, <3>2
    <3>3. CASE i # m
      <4>1. i \in 1..(m - 1) /\ i \in 0..m
        BY <3>3
      <4>2. f[i] = step[<<i, f[i - 1]>>]
        BY <4>1, <2>1 DEF Iterates
      <4> QED
        BY <4>1, <4>2, <3>1, <3>3
    <3> QED
      BY <3>2, <3>3
  <2>7. Good(m, g)
    BY <2>5, <2>6 DEF Iterates
  <2>8. \E h \in [0..m -> T] : Good(m, h)
    <3> HIDE DEF g, Good
    <3> QED
      BY <2>4, <2>7
  <2> HIDE DEF Good
  <2> QED
    BY <2>8
<1>3. \A m \in 1..n : m - 1 \in S => m \in S
  BY <1>2
<1>4. n \in S
  <2> HIDE DEF S
  <2> QED
    BY <1>1, <1>3, Induct
<1> QED
  BY <1>4

-----------------------------------------------------------------------------
\* The checksum is two bytes.
Word == {n \in Nat : n < 65536}

\* Quotients of natural numbers.
LEMMA DivFacts ==
  ASSUME NEW a \in Nat, NEW k \in Nat \ {0}
  PROVE  /\ a \div k \in Nat /\ a \div k <= a
         /\ a < k => a \div k = 0
OBVIOUS

\* What Xor makes of a bit.
XorBit(a, b, k) == k * (((a \div k) + (b \div k)) % 2)

\* One bit of the exclusive or, and then four.
LEMMA XorBitFacts ==
  ASSUME NEW a \in Nat, NEW b \in Nat, NEW k \in Nat \ {0}
  PROVE  /\ XorBit(a, b, k) \in Nat /\ XorBit(a, b, k) <= k
         /\ a < k /\ b < k => XorBit(a, b, k) = 0
<1> DEFINE x == ((a \div k) + (b \div k)) % 2
<1>1. a \div k \in Nat /\ b \div k \in Nat
  BY DivFacts
<1>2. x \in {0, 1}
  BY <1>1
<1>3. a < k /\ b < k => x = 0
  BY DivFacts
<1>4. XorBit(a, b, k) = k * x
  BY DEF XorBit
<1> HIDE DEF x
<1> QED
  BY <1>2, <1>3, <1>4

XorFour(a, b, k) ==
  XorBit(a, b, k) + XorBit(a, b, 2 * k) + XorBit(a, b, 4 * k) + XorBit(a, b, 8 * k)

LEMMA XorFourFacts ==
  ASSUME NEW a \in Nat, NEW b \in Nat, NEW k \in Nat \ {0}
  PROVE  /\ XorFour(a, b, k) \in Nat /\ XorFour(a, b, k) <= 15 * k
         /\ a < k /\ b < k => XorFour(a, b, k) = 0
<1> DEFINE bit(j) == XorBit(a, b, j)
<1>1. \A j \in Nat \ {0} : /\ bit(j) \in Nat /\ bit(j) <= j
                           /\ a < j /\ b < j => bit(j) = 0
  BY XorBitFacts
<1>2. XorFour(a, b, k) = bit(k) + bit(2 * k) + bit(4 * k) + bit(8 * k)
  BY DEF XorFour
<1>3. 2 * k \in Nat \ {0} /\ 4 * k \in Nat \ {0} /\ 8 * k \in Nat \ {0}
  OBVIOUS
<1> HIDE DEF bit
<1>4. /\ bit(k) \in Nat /\ bit(k) <= k /\ bit(2 * k) \in Nat /\ bit(2 * k) <= 2 * k
      /\ bit(4 * k) \in Nat /\ bit(4 * k) <= 4 * k /\ bit(8 * k) \in Nat /\ bit(8 * k) <= 8 * k
  BY <1>1, <1>3
<1>5. a < k /\ b < k => bit(k) = 0 /\ bit(2 * k) = 0 /\ bit(4 * k) = 0 /\ bit(8 * k) = 0
  BY <1>1, <1>3
<1> QED
  BY <1>2, <1>4, <1>5

LEMMA XorSum ==
  ASSUME NEW a, NEW b
  PROVE  Xor(a, b) = XorFour(a, b, 1) + XorFour(a, b, 16) + XorFour(a, b, 256) + XorFour(a, b, 4096)
BY DEF Xor, XorFour, XorBit

\* The exclusive or of words is a word, and that of bytes a byte.
LEMMA XorTypes ==
  ASSUME NEW a \in Nat, NEW b \in Nat
  PROVE  /\ Xor(a, b) \in Word
         /\ a < 256 /\ b < 256 => Xor(a, b) \in Byte
<1>1. /\ XorFour(a, b, 1) \in Nat /\ XorFour(a, b, 1) <= 15 * 1
      /\ XorFour(a, b, 16) \in Nat /\ XorFour(a, b, 16) <= 15 * 16
  <2>1. 1 \in Nat \ {0} /\ 16 \in Nat \ {0}
    OBVIOUS
  <2> QED
    BY <2>1, XorFourFacts, Zenon
<1>2. /\ XorFour(a, b, 256) \in Nat /\ XorFour(a, b, 256) <= 15 * 256
      /\ XorFour(a, b, 4096) \in Nat /\ XorFour(a, b, 4096) <= 15 * 4096
  <2>1. \A k \in Nat \ {0} : XorFour(a, b, k) \in Nat /\ XorFour(a, b, k) <= 15 * k
    BY XorFourFacts, Zenon
  <2>2. XorFour(a, b, 256) \in Nat /\ XorFour(a, b, 256) <= 15 * 256
    BY <2>1
  <2>3. XorFour(a, b, 4096) \in Nat /\ XorFour(a, b, 4096) <= 15 * 4096
    BY <2>1
  <2> QED
    BY <2>2, <2>3
<1>3. ASSUME a < 256, b < 256 PROVE XorFour(a, b, 256) = 0 /\ XorFour(a, b, 4096) = 0
  <2>1. a < 4096 /\ b < 4096
    BY <1>3
  <2> QED
    BY <1>3, <2>1, XorFourFacts
<1>4. Xor(a, b) = XorFour(a, b, 1) + XorFour(a, b, 16) + XorFour(a, b, 256) + XorFour(a, b, 4096)
  BY XorSum
<1>5. Xor(a, b) \in Word
  BY <1>1, <1>2, <1>4 DEF Word
<1>6. a < 256 /\ b < 256 => Xor(a, b) \in Byte
  BY <1>1, <1>3, <1>4 DEF Byte
<1> QED
  BY <1>5, <1>6

\* The checksum keeps to sixteen bits, whatever the bytes.
LEMMA CrcBitWord ==
  ASSUME NEW c \in Word
  PROVE  CrcBit(c) \in Word
<1>1. c \in Nat /\ c <= 65535
  BY DEF Word
<1>2. c \div 2 \in Nat /\ c \div 2 <= c
  BY <1>1, DivFacts
<1>3. Xor(c \div 2, 33800) \in Word
  BY <1>2, XorTypes
<1>4. c \div 2 \in Word
  BY <1>1, <1>2 DEF Word
<1> QED
  BY <1>3, <1>4 DEF CrcBit

\* The table has a word for every byte.
LEMMA Crc16Word ==
  ASSUME NEW b \in Byte
  PROVE  crc16[b] \in Word
<1> DEFINE next == [z \in (1..8) \X Word |-> CrcBit(z[2])]
           value(f) == [i \in 0..8 |-> IF i = 0 THEN b ELSE CrcBit(f[i - 1])]
           after == CHOOSE f : f = value(f)
<1>1. crc16[b] = after[8]
  BY DEF crc16
<1>2. b \in Word
  BY DEF Byte, Word
<1>3. next \in [(1..8) \X Word -> Word]
  BY CrcBitWord
<1>4. PICK f \in [0..8 -> Word] : Iterates(f, 8, b, next)
  <2> HIDE DEF next
  <2> QED
    BY <1>2, <1>3, Iterated
<1>5. f = value(f)
  <2>1. \A i \in 1..8 : f[i] = CrcBit(f[i - 1])
    BY <1>4 DEF Iterates
  <2> QED
    BY <1>4, <2>1 DEF Iterates
<1>6. after = value(after)
  <2> HIDE DEF value
  <2> QED
    BY <1>5
<1> HIDE DEF after
<1>7. after[0] \in Word
  BY <1>2, <1>6
<1>8. \A i \in 1..8 : after[i] = CrcBit(after[i - 1])
  BY <1>6
<1> DEFINE S == {i \in 0..8 : after[i] \in Word}
<1>9. 0 \in S /\ \A i \in 1..8 : i - 1 \in S => i \in S
  BY <1>7, <1>8, CrcBitWord
<1>10. 8 \in S
  <2> HIDE DEF S
  <2> QED
    BY <1>9, Induct
<1> QED
  BY <1>1, <1>10

LEMMA ComputeWord ==
  ASSUME NEW bytes \in Seq(Byte), NEW crc \in Word
  PROVE  AJ_CRC16_Compute(bytes, crc) \in Word
<1> DEFINE n == Len(bytes)
           next(c, b) == Xor(crc16[Xor(c % 256, b)], c \div 256)
           step == [z \in (1..n) \X Word |-> next(z[2], bytes[z[1]])]
           value(f) == [i \in 0..n |-> IF i = 0 THEN crc ELSE next(f[i - 1], bytes[i])]
           after == CHOOSE f : f = value(f)
<1>1. AJ_CRC16_Compute(bytes, crc) = after[n]
  BY DEF AJ_CRC16_Compute
<1>2. n \in Nat /\ \A i \in 1..n : bytes[i] \in Byte
  BY ElementOfSeq
<1>3. \A c \in Word, b \in Byte : next(c, b) \in Word
  <2> SUFFICES ASSUME NEW c \in Word, NEW b \in Byte PROVE next(c, b) \in Word
    OBVIOUS
  <2>1. c \in Nat /\ b \in Nat /\ b < 256
    BY DEF Word, Byte
  <2>2. c % 256 \in Nat /\ c % 256 < 256
    BY <2>1
  <2>3. Xor(c % 256, b) \in Byte
    BY <2>1, <2>2, XorTypes
  <2>4. crc16[Xor(c % 256, b)] \in Nat
    BY <2>3, Crc16Word DEF Word
  <2>5. c \div 256 \in Nat
    BY <2>1, DivFacts
  <2> QED
    BY <2>4, <2>5, XorTypes
<1>4. step \in [(1..n) \X Word -> Word]
  <2> HIDE DEF next
  <2> QED
    BY <1>2, <1>3
<1> HIDE DEF next, n
<1>5. PICK f \in [0..n -> Word] : Iterates(f, n, crc, step)
  <2> HIDE DEF step
  <2> QED
    BY <1>2, <1>4, Iterated
<1>6. f = value(f)
  <2>1. \A i \in 1..n : f[i - 1] \in Word /\ <<i, f[i - 1]>> \in (1..n) \X Word
    BY <1>2
  <2>2. \A i \in 1..n : f[i] = next(f[i - 1], bytes[i])
    BY <1>5, <2>1 DEF Iterates
  <2> QED
    BY <1>2, <1>5, <2>2 DEF Iterates
<1>7. after = value(after)
  <2> HIDE DEF value
  <2> QED
    BY <1>6
<1> HIDE DEF after
<1>8. after[0] \in Word
  BY <1>2, <1>7
<1>9. \A i \in 1..n : after[i] = next(after[i - 1], bytes[i])
  BY <1>2, <1>7
<1> DEFINE S == {i \in 0..n : after[i] \in Word}
<1>10. 0 \in S /\ \A i \in 1..n : i - 1 \in S => i \in S
  BY <1>2, <1>3, <1>8, <1>9, SMTT(30)
<1>11. n \in S
  <2> HIDE DEF S
  <2>1. n \in Nat /\ n \in 0..n
    BY <1>2
  <2>2. \A i \in 0..n : i \in S
    BY <2>1, <1>10, Induct
  <2> QED
    BY <2>1, <2>2
<1> QED
  BY <1>1, <1>11

\* So what is sent of it is two bytes.
LEMMA CrcBytesType ==
  ASSUME NEW bytes \in Seq(Byte)
  PROVE  CrcBytes(bytes) \in Seq(Byte) /\ Len(CrcBytes(bytes)) = 2
<1> DEFINE crc == AJ_CRC16_Compute(bytes, CrcInit)
           nibble(k) == rev((crc \div k) % 16)
<1>1. crc \in Nat
  <2>1. CrcInit \in Word
    BY DEF CrcInit, Word
  <2> QED
    BY <2>1, ComputeWord DEF Word
<1> HIDE DEF crc
<1>2. \A m \in 0..15 : rev(m) \in 0..15
  BY DEF rev
<1>3. \A k \in Nat \ {0} : nibble(k) \in 0..15
  <2> SUFFICES ASSUME NEW k \in Nat \ {0} PROVE nibble(k) \in 0..15
    OBVIOUS
  <2>1. crc \div k \in Nat
    BY <1>1, DivFacts
  <2>2. \A m \in Nat : m % 16 \in 0..15
    OBVIOUS
  <2> QED
    BY <1>2, <2>1, <2>2, Zenon
<1>4. CrcBytes(bytes) = <<16 * nibble(1) + nibble(16), 16 * nibble(256) + nibble(4096)>>
  BY DEF CrcBytes, AJ_CRC16_Complete, crc
<1> HIDE DEF nibble
<1>5. nibble(1) \in 0..15 /\ nibble(16) \in 0..15
  BY <1>3
<1>6. nibble(256) \in 0..15 /\ nibble(4096) \in 0..15
  BY <1>3
<1>7. 16 * nibble(1) + nibble(16) \in Byte /\ 16 * nibble(256) + nibble(4096) \in Byte
  <2>1. ASSUME NEW x \in 0..15, NEW y \in 0..15 PROVE 16 * x + y \in Byte
    <3>1. 16 * x + y \in Nat /\ 16 * x + y <= 255
      OBVIOUS
    <3> QED
      BY <3>1 DEF Byte
  <2> QED
    <3>1. 16 * nibble(1) + nibble(16) \in Byte
      BY <1>5, <2>1, Zenon
    <3>2. 16 * nibble(256) + nibble(4096) \in Byte
      <4>1. PICK x \in 0..15 : x = nibble(256)
        BY <1>6
      <4>2. PICK y \in 0..15 : y = nibble(4096)
        BY <1>6
      <4>3. 16 * x + y \in Byte
        BY <2>1
      <4> QED
        BY <4>1, <4>2, <4>3
    <3> QED
      BY <3>1, <3>2
<1> QED
  BY <1>4, <1>7

-----------------------------------------------------------------------------
\* Sequences.

Regroups(x, y, z) == (x \o y) \o z = x \o (y \o z)

\* Concatenation can be regrouped; the name keeps the equation from the provers until it is wanted.
LEMMA Assoc ==
  ASSUME NEW E
  PROVE  \A x, y, z \in Seq(E) : Regroups(x, y, z)
BY ConcatAssociative DEF Regroups

LEMMA ByteAssoc == \A x, y, z \in Seq(Byte) : Regroups(x, y, z)
  BY Assoc, Zenon

\* What holds of <<>>, and of Append(s, e) whenever of s, holds of every sequence.
LEMMA SeqInduct ==
  ASSUME NEW E, NEW S, <<>> \in S,
         \A s \in Seq(E), e \in E : s \in S => Append(s, e) \in S,
         NEW seq \in Seq(E)
  PROVE  seq \in S
<1> DEFINE n == Len(seq)
           T == {i \in 0..n : SubSeq(seq, 1, i) \in S}
<1>1. n \in Nat /\ n \in 0..n
  OBVIOUS
<1>2. 0 \in T
  <2>1. SubSeq(seq, 1, 0) = <<>>
    OBVIOUS
  <2>2. 0 \in 0..n
    BY <1>1
  <2>3. SubSeq(seq, 1, 0) \in S
    BY <2>1, Zenon
  <2> HIDE DEF n
  <2> QED
    BY <2>2, <2>3, Zenon
<1>3. ASSUME NEW i \in 1..n, i - 1 \in T PROVE i \in T
  <2> DEFINE s == SubSeq(seq, 1, i - 1)
  <2>1. s \in Seq(E) /\ seq[i] \in E
    BY SubSeqProperties
  <2>2. SubSeq(seq, 1, i) = s \o <<seq[i]>>
    BY SubSeqRecursiveSecond
  <2>3. Append(s, seq[i]) = s \o <<seq[i]>>
    <3> HIDE DEF s
    <3> QED
      BY <2>1, AppendIsConcat
  <2>4. s \in S
    BY <1>3
  <2>5. Append(s, seq[i]) \in S
    <3> HIDE DEF s
    <3> QED
      BY <2>1, <2>4
  <2>6. SubSeq(seq, 1, i) \in S /\ i \in 0..n
    <3>1. i \in 0..n
      BY <1>1
    <3> HIDE DEF s
    <3>2. SubSeq(seq, 1, i) \in S
      BY <2>2, <2>3, <2>5, Zenon
    <3> QED
      BY <3>1, <3>2
  <2> HIDE DEF n
  <2> QED
    BY <2>6, Zenon
<1>4. \A i \in 1..n : i - 1 \in T => i \in T
  BY <1>3
<1>5. n \in T
  <2> HIDE DEF T, n
  <2>1. \A i \in 0..n : i \in T
    BY <1>1, <1>2, <1>4, Induct
  <2> QED
    BY <1>1, <2>1
<1>6. SubSeq(seq, 1, n) = seq
  BY SubSeqFull
<1> QED
  BY <1>5, <1>6

\* The concatenations of the first elements of s.
Partial(E, s) ==
  {f \in [0..Len(s) -> Seq(E)] :
     f[0] = <<>> /\ \A i \in 1..Len(s) : f[i] = f[i - 1] \o s[i]}

\* FlattenSeq, defined by recursion, has the value its recursion says.
LEMMA FlattenPartial ==
  ASSUME NEW E, NEW s \in Seq(Seq(E))
  PROVE  \E f \in Partial(E, s) : FlattenSeq(s) = f[Len(s)]
<1> DEFINE n == Len(s)
           step == [z \in (1..n) \X Seq(E) |-> z[2] \o s[z[1]]]
<1>1. n \in Nat /\ \A i \in 1..n : s[i] \in Seq(E)
  BY ElementOfSeq
<1>2. step \in [(1..n) \X Seq(E) -> Seq(E)]
  <2> HIDE DEF n
  <2> QED
    BY <1>1
<1>3. PICK f \in [0..n -> Seq(E)] : Iterates(f, n, <<>>, step)
  <2> HIDE DEF n, step
  <2>1. <<>> \in Seq(E)
    OBVIOUS
  <2> QED
    BY <1>1, <1>2, <2>1, Iterated
<1>4. \A i \in 1..n : f[i] = f[i - 1] \o s[i]
  <2> HIDE DEF n
  <2>1. \A i \in 1..n : f[i - 1] \in Seq(E) /\ <<i, f[i - 1]>> \in (1..n) \X Seq(E)
    BY <1>1
  <2> QED
    BY <1>3, <2>1 DEF Iterates
<1>5. f[0] = <<>>
  BY <1>3 DEF Iterates
<1>6. f \in Partial(E, s)
  BY <1>4, <1>5 DEF Partial
<1>7. FlattenSeq(s) = f[n]
  <2>1. CASE n = 0
    <3>1. s = <<>>
      BY <2>1
    <3> QED
      BY <2>1, <3>1, <1>5 DEF FlattenSeq
  <2>2. CASE n # 0
    <3> DEFINE value(g) == [i \in 1..n |-> IF i = 1 THEN s[i] ELSE g[i - 1] \o s[i]]
               flatten == CHOOSE g : g = value(g)
               h == [i \in 1..n |-> f[i]]
    <3>1. FlattenSeq(s) = flatten[n]
      BY <2>2 DEF FlattenSeq
    <3>2. f[1] = s[1]
      <4>1. f[1] = f[1 - 1] \o s[1]
        <5>1. 1 \in 1..n
          BY <1>1, <2>2
        <5> HIDE DEF n
        <5> QED
          BY <1>4, <5>1
      <4>2. s[1] \in Seq(E)
        BY <1>1, <2>2
      <4>3. f[1] = <<>> \o s[1]
        BY <1>5, <4>1
      <4> QED
        BY <4>2, <4>3, ConcatEmptySeq
    <3>3. h = value(h)
      <4> HIDE DEF n
      <4>1. ASSUME NEW i \in 1..n PROVE f[i] = IF i = 1 THEN s[i] ELSE h[i - 1] \o s[i]
        <5>1. CASE i = 1
          BY <3>2, <5>1
        <5>2. CASE i # 1
          <6>1. i - 1 \in 1..n
            BY <1>1, <5>2
          <6> QED
            BY <1>4, <5>2, <6>1
        <5> QED
          BY <5>1, <5>2
      <4> QED
        BY <4>1
    <3>4. flatten = value(flatten)
      <4> HIDE DEF value, h
      <4> QED
        BY <3>3
    <3> HIDE DEF flatten, n
    <3> DEFINE S == {i \in 0..n : i = 0 \/ flatten[i] = f[i]}
    <3>5. 0 \in S
      BY <1>1
    <3>6. ASSUME NEW i \in 1..n, i - 1 \in S PROVE i \in S
      <4>1. CASE i = 1
        <5>1. flatten[1] = s[1]
          BY <3>4, <4>1
        <5> QED
          BY <3>2, <4>1, <5>1
      <4>2. CASE i # 1
        <5>1. flatten[i] = flatten[i - 1] \o s[i]
          BY <3>4, <4>2
        <5>2. flatten[i - 1] = f[i - 1]
          BY <3>6, <4>2
        <5>3. flatten[i] = f[i]
          BY <1>4, <5>1, <5>2, Zenon
        <5> QED
          BY <5>3
      <4> QED
        BY <4>1, <4>2
    <3>7. n \in S
      <4>1. n \in Nat /\ n \in 0..n
        BY <1>1
      <4>2. \A i \in 1..n : i - 1 \in S => i \in S
        BY <3>6
      <4> HIDE DEF S
      <4>3. \A i \in 0..n : i \in S
        BY <4>1, <4>2, <3>5, Induct
      <4> QED
        BY <4>1, <4>3
    <3> QED
      BY <2>2, <3>1, <3>7
  <2> QED
    BY <2>1, <2>2
<1> QED
  BY <1>6, <1>7

\* Its type, and what one more sequence at the end adds.
LEMMA FlattenFacts ==
  ASSUME NEW E, NEW s \in Seq(Seq(E)), NEW x \in Seq(E)
  PROVE  /\ FlattenSeq(s) \in Seq(E)
         /\ FlattenSeq(Append(s, x)) = FlattenSeq(s) \o x
<1> DEFINE n == Len(s)
           t == Append(s, x)
<1>1. PICK f \in Partial(E, s) : FlattenSeq(s) = f[n]
  BY FlattenPartial
<1>2. t \in Seq(Seq(E)) /\ Len(t) = n + 1 /\ n \in Nat
  BY AppendProperties
<1>3. t[n + 1] = x /\ \A i \in 1..n : t[i] = s[i]
  BY AppendProperties
<1>4. PICK g \in Partial(E, t) : FlattenSeq(t) = g[n + 1]
  <2> HIDE DEF t
  <2> QED
    BY <1>2, FlattenPartial
<1> HIDE DEF t
<1>5. f \in [0..n -> Seq(E)] /\ f[0] = <<>> /\ \A i \in 1..n : f[i] = f[i - 1] \o s[i]
  BY DEF Partial
<1>6. g[0] = <<>> /\ \A i \in 1..(n + 1) : g[i] = g[i - 1] \o t[i]
  BY <1>2 DEF Partial
<1> HIDE DEF n
<1> DEFINE S == {i \in 0..n : g[i] = f[i]}
<1>7. 0 \in S
  <2>1. g[0] = f[0] /\ 0 \in 0..n
    BY <1>2, <1>5, <1>6
  <2> QED
    BY <2>1
<1>8. ASSUME NEW i \in 1..n, i - 1 \in S PROVE i \in S
  <2>1. g[i] = g[i - 1] \o t[i]
    <3>1. i \in 1..(n + 1)
      BY <1>2
    <3> QED
      BY <1>6, <3>1, Zenon
  <2>2. t[i] = s[i] /\ g[i - 1] = f[i - 1]
    BY <1>3, <1>8
  <2>3. g[i] = f[i]
    BY <1>5, <2>1, <2>2, Zenon
  <2> QED
    BY <2>3
<1>9. n \in S
  <2>1. n \in Nat /\ n \in 0..n
    BY <1>2
  <2>2. \A i \in 1..n : i - 1 \in S => i \in S
    BY <1>8
  <2> HIDE DEF S
  <2>3. \A i \in 0..n : i \in S
    BY <2>1, <2>2, <1>7, Induct
  <2> QED
    BY <2>1, <2>3
<1>10. g[n + 1] = g[n] \o x
  <2>1. n + 1 \in 1..(n + 1) /\ (n + 1) - 1 = n
    BY <1>2
  <2>2. g[n + 1] = g[(n + 1) - 1] \o t[n + 1]
    BY <1>6, <2>1
  <2> QED
    BY <1>3, <2>1, <2>2
<1>11. f[n] \in Seq(E)
  BY <1>2, <1>5
<1> QED
  BY <1>1, <1>4, <1>9, <1>10, <1>11 DEF t

-----------------------------------------------------------------------------
\* The decoder.
Cell == [byte : Byte, frame : Nat]

\* No packet is lost: those that are not free hold a payload.
Receivers == {r \in Receiver : Len(r.recv) + r.free = RxPackets}

LEMMA CellAssoc == \A x, y, z \in Seq(Cell) : Regroups(x, y, z)
  BY Assoc, Zenon

\* The steps of the decoder keep the receiver's type, and lose or make no packet.
LEMMA EnqueueType ==
  ASSUME NEW r \in Receivers, NEW seq, NEW payload \in Seq(Byte)
  PROVE  Enqueue(r, seq, payload) \in Receivers
<1>1. r \in Receiver /\ Len(r.recv) + r.free = RxPackets /\ r.recv \in Seq(Seq(Byte))
      /\ r.free \in 0..RxPackets /\ r.expected \in 0..7 /\ RxPackets \in Nat
  BY SlipAssumption DEF Receivers, Receiver
<1>2. CASE seq # r.expected \/ r.free = 0
  BY <1>2 DEF Enqueue
<1>3. CASE ~(seq # r.expected \/ r.free = 0)
  <2> DEFINE recv == Append(r.recv, payload)
  <2>1. recv \in Seq(Seq(Byte)) /\ Len(recv) = Len(r.recv) + 1 /\ Len(r.recv) \in Nat
    BY <1>1, AppendProperties
  <2>2. (r.expected + 1) % 8 \in 0..7
    BY <1>1
  <2>3. r.free - 1 \in 0..RxPackets
    BY <1>1, <1>3
  <2>4. Enqueue(r, seq, payload) =
          [state |-> r.state, buf |-> <<>>, free |-> r.free - 1, recv |-> recv,
           expected |-> (r.expected + 1) % 8, heard |-> r.heard]
    BY <1>1, <1>3 DEF Enqueue, Receiver
  <2> HIDE DEF recv
  <2>5. Enqueue(r, seq, payload) \in Receiver
    BY <1>1, <2>1, <2>2, <2>3, <2>4, SMTT(30) DEF Receiver
  <2>6. Len(recv) + (r.free - 1) = RxPackets
    BY <1>1, <2>1, SMTT(30)
  <2> QED
    BY <2>4, <2>5, <2>6 DEF Receivers
<1> QED
  BY <1>2, <1>3

\* The bytes of a buffer.
Bytes(buf) == [i \in DOMAIN buf |-> buf[i].byte]

LEMMA BytesType ==
  ASSUME NEW buf \in Seq(Cell)
  PROVE  /\ Bytes(buf) \in Seq(Byte) /\ Len(Bytes(buf)) = Len(buf)
         /\ \A i \in 1..Len(buf) : Bytes(buf)[i] = buf[i].byte /\ buf[i] \in Cell
<1>1. \A i \in 1..Len(buf) : buf[i] \in Cell /\ buf[i].byte \in Byte
  <2>1. \A i \in 1..Len(buf) : buf[i] \in Cell
    BY ElementOfSeq
  <2>2. \A c \in Cell : c.byte \in Byte
    BY DEF Cell
  <2> QED
    BY <2>1, <2>2
<1>2. DOMAIN buf = 1..Len(buf) /\ Len(buf) \in Nat
  OBVIOUS
<1> QED
  BY <1>1, <1>2 DEF Bytes

LEMMA CompletePacketType ==
  ASSUME NEW r \in Receivers
  PROVE  CompletePacket(r) \in Receivers
<1> DEFINE bytes == Bytes(r.buf)
           found == [r EXCEPT !.heard = @ \cup {r.buf[1].frame}]
           payload == SubSeq(bytes, HeaderLen + 1, Len(bytes) - CrcLen)
<1>1. r \in Receiver /\ r.buf \in Seq(Cell) /\ r.heard \in SUBSET Nat
  BY DEF Receivers, Receiver, Cell
<1>2. bytes \in Seq(Byte) /\ Len(bytes) = Len(r.buf)
  BY <1>1, BytesType
<1>3. CompletePacket(r) =
        IF ~Intact(bytes) THEN r
        ELSE IF bytes[2] % 16 # DataType THEN found
        ELSE Enqueue(found, bytes[1] \div 16, payload)
  BY DEF CompletePacket, Bytes
<1>4. CASE ~Intact(bytes)
  BY <1>3, <1>4
<1>5. CASE Intact(bytes)
  <2> HIDE DEF bytes
  <2>1. Len(r.buf) >= 4
    BY <1>2, <1>5 DEF Intact, HeaderLen
  <2>2. r.buf[1].frame \in Nat
    <3>1. 1 \in 1..Len(r.buf)
      BY <1>1, <2>1
    <3>2. r.buf[1] \in Cell
      BY <1>1, <3>1, BytesType
    <3> QED
      BY <3>2 DEF Cell
  <2>3. r.heard \cup {r.buf[1].frame} \in SUBSET Nat
    BY <1>1, <2>2
  <2>4. found \in Receivers
    BY <1>1, <2>3 DEF Receivers, Receiver
  <2>5. payload \in Seq(Byte)
    <3>1. Len(bytes) \in Nat
      BY <1>2
    <3>2. \A i \in 5..(Len(bytes) - 2) : bytes[i] \in Byte
      BY <1>2, <3>1, ElementOfSeq
    <3>3. SubSeq(bytes, 5, Len(bytes) - 2) \in Seq(Byte)
      BY <3>1, <3>2, SubSeqProperties
    <3> QED
      BY <3>3 DEF HeaderLen, CrcLen
  <2> HIDE DEF found, payload
  <2> QED
    BY <1>3, <1>5, <2>4, <2>5, EnqueueType
<1> QED
  BY <1>4, <1>5

LEMMA WithState ==
  ASSUME NEW r \in Receivers, NEW s \in {"NEW", "OPEN", "ESCAPE", "FLUSH"}, NEW b \in Seq(Cell)
  PROVE  /\ [r EXCEPT !.state = s] \in Receivers
         /\ [r EXCEPT !.buf = b] \in Receivers
         /\ [r EXCEPT !.state = s, !.buf = b] \in Receivers
<1>1. r \in Receiver /\ Len(r.recv) + r.free = RxPackets
  BY DEF Receivers
<1>2. [r EXCEPT !.state = s] \in Receivers
  BY <1>1 DEF Receivers, Receiver
<1>3. [r EXCEPT !.buf = b] \in Receivers
  BY <1>1 DEF Receivers, Receiver, Cell
<1>4. [r EXCEPT !.state = s, !.buf = b] \in Receivers
  BY <1>1 DEF Receivers, Receiver, Cell
<1> QED
  BY <1>2, <1>3, <1>4

LEMMA AtNewType ==
  ASSUME NEW r \in Receivers, NEW c
  PROVE  AtNew(r, c) \in Receivers
<1> DEFINE s == IF c.byte = BOUNDARY_BYTE THEN "OPEN" ELSE "FLUSH"
<1>2. AtNew(r, c) = [r EXCEPT !.state = s, !.buf = <<>>]
  BY DEF AtNew
<1>3. s \in {"NEW", "OPEN", "ESCAPE", "FLUSH"} /\ <<>> \in Seq(Cell)
  OBVIOUS
<1> HIDE DEF s
<1>4. \A b \in Seq(Cell) : [r EXCEPT !.state = s, !.buf = b] \in Receivers
  BY <1>3, WithState
<1>5. [r EXCEPT !.state = s, !.buf = <<>>] \in Receivers
  BY <1>3, <1>4, Zenon
<1> QED
  BY <1>2, <1>5, Zenon

\* Every byte leaves a receiver, with all its packets.
LEMMA ReceiveByteType ==
  ASSUME NEW r \in Receivers, NEW c \in Cell
  PROVE  ReceiveByte(r, c) \in Receivers
<1>1. r.state \in {"NEW", "OPEN", "ESCAPE", "FLUSH"} /\ r.buf \in Seq(Cell)
  BY DEF Receivers, Receiver, Cell
<1>2. CASE r.state = "FLUSH"
  <2>1. ReceiveByte(r, c) = [r EXCEPT !.state = IF c.byte = BOUNDARY_BYTE THEN "NEW" ELSE @]
    BY <1>2 DEF ReceiveByte
  <2>2. [r EXCEPT !.state = "NEW"] \in Receivers /\ [r EXCEPT !.state = r.state] \in Receivers
    BY <1>1, WithState
  <2> QED
    BY <2>1, <2>2
<1>3. CASE r.state = "NEW"
  BY <1>3, AtNewType DEF ReceiveByte
<1>4. CASE r.state = "ESCAPE"
  <2> DEFINE plain == {p \in {BOUNDARY_BYTE, ESCAPE_BYTE} : Escaped(p) = <<ESCAPE_BYTE, c.byte>>}
             d == [c EXCEPT !.byte = CHOOSE p \in plain : TRUE]
  <2>1. ReceiveByte(r, c) = IF plain = {} THEN AtNew(r, c)
                            ELSE [r EXCEPT !.state = "OPEN", !.buf = Append(@, d)]
    BY <1>4 DEF ReceiveByte, AtEscape
  <2>2. ASSUME plain # {} PROVE Append(r.buf, d) \in Seq(Cell)
    <3>1. (CHOOSE p \in plain : TRUE) \in plain
      BY <2>2
    <3>2. plain \subseteq Byte
      BY DEF Byte, BOUNDARY_BYTE, ESCAPE_BYTE
    <3>3. d \in Cell
      BY <3>1, <3>2 DEF Cell
    <3> QED
      BY <1>1, <3>3, AppendProperties
  <2> HIDE DEF plain, d
  <2>3. ASSUME plain # {} PROVE [r EXCEPT !.state = "OPEN", !.buf = Append(@, d)] \in Receivers
    BY <2>2, <2>3, WithState
  <2> QED
    BY <2>1, <2>3, AtNewType
<1>5. CASE r.state = "OPEN"
  <2>1. ReceiveByte(r, c) = AtOpen(r, c)
    BY <1>5 DEF ReceiveByte
  <2>2. \A s \in {"NEW", "ESCAPE"} : [r EXCEPT !.state = s] \in Receivers
    BY <1>1, WithState
  <2>3. Append(r.buf, c) \in Seq(Cell)
    BY <1>1, AppendProperties
  <2>4. [r EXCEPT !.buf = Append(@, c)] \in Receivers
    BY <2>3, WithState
  <2>5. CompletePacket([r EXCEPT !.state = "NEW"]) \in Receivers
    BY <2>2, CompletePacketType
  <2> QED
    BY <2>1, <2>2, <2>4, <2>5 DEF AtOpen
<1> QED
  BY <1>1, <1>2, <1>3, <1>4, <1>5

\* The receivers that the bytes, one after the other, make of r.
Steps(r, bytes) ==
  {f \in [0..Len(bytes) -> Receivers] :
     f[0] = r /\ \A i \in 1..Len(bytes) : f[i] = ReceiveByte(f[i - 1], bytes[i])}

\* UART_RxComplete goes byte by byte, as its recursion says.
LEMMA CompleteSteps ==
  ASSUME NEW r \in Receivers, NEW bytes \in Seq(Cell)
  PROVE  \E f \in Steps(r, bytes) : UART_RxComplete(r, bytes) = f[Len(bytes)]
<1> DEFINE n == Len(bytes)
           step == [z \in (1..n) \X Receivers |-> ReceiveByte(z[2], bytes[z[1]])]
           value(g) == [i \in 0..n |-> IF i = 0 THEN r ELSE ReceiveByte(g[i - 1], bytes[i])]
           after == CHOOSE g : g = value(g)
<1>1. n \in Nat /\ \A i \in 1..n : bytes[i] \in Cell
  BY ElementOfSeq
<1>2. UART_RxComplete(r, bytes) = after[n]
  BY DEF UART_RxComplete
<1>3. step \in [(1..n) \X Receivers -> Receivers]
  <2> HIDE DEF n
  <2> QED
    BY <1>1, ReceiveByteType
<1>4. PICK f \in [0..n -> Receivers] : Iterates(f, n, r, step)
  <2> HIDE DEF n, step
  <2> QED
    BY <1>1, <1>3, Iterated
<1>5. f[0] = r /\ \A i \in 1..n : f[i] = ReceiveByte(f[i - 1], bytes[i])
  <2> HIDE DEF n
  <2>1. \A i \in 1..n : f[i - 1] \in Receivers /\ <<i, f[i - 1]>> \in (1..n) \X Receivers
    BY <1>1
  <2> QED
    BY <1>4, <2>1 DEF Iterates
<1>6. f \in Steps(r, bytes)
  BY <1>5 DEF Steps
<1>7. f = value(f)
  <2> HIDE DEF n
  <2> QED
    BY <1>5
<1>8. after = value(after)
  <2> HIDE DEF value
  <2> QED
    BY <1>7
<1> HIDE DEF after
<1>9. after[0] = r /\ \A i \in 1..n : after[i] = ReceiveByte(after[i - 1], bytes[i])
  <2> HIDE DEF n
  <2> QED
    BY <1>1, <1>8
<1> DEFINE S == {i \in 0..n : after[i] = f[i]}
<1> HIDE DEF n
<1>10. 0 \in S
  <2>1. 0 \in 0..n
    BY <1>1
  <2> QED
    BY <1>5, <1>9, <2>1
<1>11. ASSUME NEW i \in 1..n, i - 1 \in S PROVE i \in S
  <2>1. after[i] = ReceiveByte(after[i - 1], bytes[i]) /\ f[i] = ReceiveByte(f[i - 1], bytes[i])
    BY <1>5, <1>9
  <2>2. after[i - 1] = f[i - 1]
    BY <1>11
  <2>3. after[i] = f[i]
    BY <2>1, <2>2, Zenon
  <2> QED
    BY <1>1, <2>3
<1>12. n \in S
  <2>1. n \in 0..n
    BY <1>1
  <2>2. \A i \in 1..n : i - 1 \in S => i \in S
    BY <1>11
  <2> HIDE DEF S
  <2>3. \A i \in 0..n : i \in S
    BY <1>1, <2>2, <1>10, Induct
  <2> QED
    BY <2>1, <2>3
<1>13. UART_RxComplete(r, bytes) = f[n]
  BY <1>2, <1>12
<1> QED
  BY <1>6, <1>13 DEF n

\* Bytes are decoded one after the other, in whatever pieces they come.
LEMMA CompleteFacts ==
  ASSUME NEW r \in Receivers, NEW bytes \in Seq(Cell), NEW c \in Cell
  PROVE  /\ UART_RxComplete(r, bytes) \in Receivers
         /\ UART_RxComplete(r, <<>>) = r
         /\ UART_RxComplete(r, Append(bytes, c)) = ReceiveByte(UART_RxComplete(r, bytes), c)
<1> DEFINE n == Len(bytes)
           t == Append(bytes, c)
<1>1. PICK f \in Steps(r, bytes) : UART_RxComplete(r, bytes) = f[n]
  BY CompleteSteps
<1>2. t \in Seq(Cell) /\ Len(t) = n + 1 /\ n \in Nat
  BY AppendProperties
<1>3. t[n + 1] = c /\ \A i \in 1..n : t[i] = bytes[i]
  BY AppendProperties
<1>4. PICK g \in Steps(r, t) : UART_RxComplete(r, t) = g[n + 1]
  <2> HIDE DEF t
  <2> QED
    BY <1>2, CompleteSteps
<1>5. UART_RxComplete(r, <<>>) = r
  <2>1. <<>> \in Seq(Cell)
    OBVIOUS
  <2>2. PICK h \in Steps(r, <<>>) : UART_RxComplete(r, <<>>) = h[Len(<<>>)]
    BY <2>1, CompleteSteps
  <2>3. Len(<<>>) = 0
    OBVIOUS
  <2> QED
    BY <2>2, <2>3 DEF Steps
<1> HIDE DEF t
<1>6. /\ f \in [0..n -> Receivers] /\ f[0] = r
      /\ \A i \in 1..n : f[i] = ReceiveByte(f[i - 1], bytes[i])
  BY DEF Steps
<1>7. g[0] = r /\ \A i \in 1..(n + 1) : g[i] = ReceiveByte(g[i - 1], t[i])
  BY <1>2 DEF Steps
<1> HIDE DEF n
<1> DEFINE S == {i \in 0..n : g[i] = f[i]}
<1>8. 0 \in S
  <2>1. g[0] = f[0] /\ 0 \in 0..n
    BY <1>2, <1>6, <1>7
  <2> QED
    BY <2>1
<1>9. ASSUME NEW i \in 1..n, i - 1 \in S PROVE i \in S
  <2>1. g[i] = ReceiveByte(g[i - 1], t[i])
    <3>1. i \in 1..(n + 1)
      BY <1>2
    <3> QED
      BY <1>7, <3>1, Zenon
  <2>2. t[i] = bytes[i] /\ g[i - 1] = f[i - 1]
    BY <1>3, <1>9
  <2>3. g[i] = f[i]
    BY <1>6, <2>1, <2>2, Zenon
  <2> QED
    BY <2>3
<1>10. n \in S
  <2>1. n \in Nat /\ n \in 0..n
    BY <1>2
  <2>2. \A i \in 1..n : i - 1 \in S => i \in S
    BY <1>9
  <2> HIDE DEF S
  <2>3. \A i \in 0..n : i \in S
    BY <2>1, <2>2, <1>8, Induct
  <2> QED
    BY <2>1, <2>3
<1>11. g[n + 1] = ReceiveByte(g[n], c)
  <2>1. n + 1 \in 1..(n + 1) /\ (n + 1) - 1 = n
    BY <1>2
  <2>2. g[n + 1] = ReceiveByte(g[(n + 1) - 1], t[n + 1])
    BY <1>7, <2>1
  <2> QED
    BY <1>3, <2>1, <2>2
<1>12. f[n] \in Receivers
  BY <1>2, <1>6
<1> QED
  BY <1>1, <1>4, <1>5, <1>10, <1>11, <1>12 DEF t

\* The bytes of a and then those of b.
LEMMA CompleteConcat ==
  ASSUME NEW r \in Receivers, NEW a \in Seq(Cell), NEW b \in Seq(Cell)
  PROVE  UART_RxComplete(r, a \o b) = UART_RxComplete(UART_RxComplete(r, a), b)
<1> DEFINE q == UART_RxComplete(r, a)
           S == {s \in Seq(Cell) : UART_RxComplete(r, a \o s) = UART_RxComplete(q, s)}
<1>1. q \in Receivers
  <2>1. [byte |-> 0, frame |-> 0] \in Cell
    BY DEF Cell, Byte
  <2> QED
    BY <2>1, CompleteFacts
<1>2. <<>> \in S
  <2>1. a \o <<>> = a
    OBVIOUS
  <2>2. [byte |-> 0, frame |-> 0] \in Cell
    BY DEF Cell, Byte
  <2> HIDE DEF q
  <2>3. UART_RxComplete(q, <<>>) = q
    BY <1>1, <2>2, CompleteFacts
  <2>4. UART_RxComplete(r, a \o <<>>) = UART_RxComplete(q, <<>>)
    BY <2>1, <2>3 DEF q
  <2> QED
    BY <2>4
<1>3. ASSUME NEW s \in Seq(Cell), NEW c \in Cell, s \in S PROVE Append(s, c) \in S
  <2>1. a \o Append(s, c) = Append(a \o s, c) /\ a \o s \in Seq(Cell)
    OBVIOUS
  <2>2. UART_RxComplete(r, Append(a \o s, c)) = ReceiveByte(UART_RxComplete(r, a \o s), c)
    BY <2>1, CompleteFacts
  <2> HIDE DEF q
  <2>3. UART_RxComplete(q, Append(s, c)) = ReceiveByte(UART_RxComplete(q, s), c)
    BY <1>1, CompleteFacts
  <2>4. UART_RxComplete(r, a \o s) = UART_RxComplete(q, s)
    BY <1>3
  <2>5. UART_RxComplete(r, a \o Append(s, c)) = UART_RxComplete(q, Append(s, c))
    BY <2>1, <2>2, <2>3, <2>4, Zenon
  <2>6. Append(s, c) \in Seq(Cell)
    BY AppendProperties
  <2> QED
    BY <2>5, <2>6
<1>4. b \in S
  <2>1. \A s \in Seq(Cell), c \in Cell : s \in S => Append(s, c) \in S
    BY <1>3
  <2> HIDE DEF S
  <2> QED
    BY <1>2, <2>1, SeqInduct
<1> QED
  BY <1>4

-----------------------------------------------------------------------------
\* Reading.

\* A set of numbers up to n, unless it is empty, has a greatest one.
LEMMA Greatest ==
  ASSUME NEW n \in Nat, NEW S \in SUBSET (0..n), S # {}
  PROVE  Max(S) \in S /\ \A x \in S : x <= Max(S)
<1> DEFINE T == {i \in 0..n : \A U \in SUBSET (0..i) : U # {} => \E x \in U : \A y \in U : x >= y}
<1>1. 0 \in T
  <2>1. ASSUME NEW U \in SUBSET (0..0), U # {} PROVE \E x \in U : \A y \in U : x >= y
    <3>1. PICK x \in U : TRUE
      BY <2>1
    <3>2. \A y \in U : y = 0
      OBVIOUS
    <3> QED
      BY <3>1, <3>2
  <2> QED
    BY <2>1
<1>2. ASSUME NEW i \in 1..n, i - 1 \in T PROVE i \in T
  <2>1. ASSUME NEW U \in SUBSET (0..i), U # {} PROVE \E x \in U : \A y \in U : x >= y
    <3>1. CASE i \in U
      BY <3>1
    <3>2. CASE i \notin U
      <4>1. U \in SUBSET (0..(i - 1))
        BY <3>2
      <4> QED
        BY <1>2, <2>1, <4>1
    <3> QED
      BY <3>1, <3>2
  <2> QED
    BY <2>1
<1>3. n \in T
  <2>1. \A i \in 1..n : i - 1 \in T => i \in T
    BY <1>2
  <2> HIDE DEF T
  <2>2. n \in 0..n
    OBVIOUS
  <2>3. \A i \in 0..n : i \in T
    BY <1>1, <2>1, Induct
  <2> QED
    BY <2>2, <2>3
<1>4. \E x \in S : \A y \in S : x >= y
  BY <1>3
<1>5. Max(S) \in S /\ \A y \in S : Max(S) >= y
  BY <1>4 DEF Max
<1> QED
  BY <1>5

\* Reading gives back the packets read to their end, and no other.
LEMMA ReadType ==
  ASSUME NEW r \in Receivers, NEW n \in Nat
  PROVE  Read(r, n) \in Receivers
<1> DEFINE length(k) == Len(FlattenSeq(SubSeq(r.recv, 1, k)))
           S    == {k \in 0..Len(r.recv) : length(k) <= n}
           done == Max(S)
           rest == SubSeq(r.recv, done + 1, Len(r.recv))
           left == SubSeq(rest[1], n - length(done) + 1, Len(rest[1]))
           recv == IF rest = <<>> THEN <<>> ELSE <<left>> \o Tail(rest)
<1>1. /\ r \in Receiver /\ r.recv \in Seq(Seq(Byte)) /\ r.free \in Nat
      /\ Len(r.recv) + r.free = RxPackets /\ RxPackets \in Nat /\ Len(r.recv) \in Nat
  BY SlipAssumption DEF Receivers, Receiver
<1>2. \A k \in 0..Len(r.recv) : length(k) \in Nat
  <2> SUFFICES ASSUME NEW k \in 0..Len(r.recv) PROVE length(k) \in Nat
    OBVIOUS
  <2>1. \A i \in 1..k : r.recv[i] \in Seq(Byte)
    BY <1>1, ElementOfSeq
  <2>2. SubSeq(r.recv, 1, k) \in Seq(Seq(Byte))
    BY <1>1, <2>1, SubSeqProperties
  <2>3. FlattenSeq(SubSeq(r.recv, 1, k)) \in Seq(Byte)
    <3>1. <<>> \in Seq(Byte)
      OBVIOUS
    <3> QED
      BY <2>2, <3>1, FlattenFacts
  <2> QED
    BY <2>3
<1>3. 0 \in S
  <2>1. SubSeq(r.recv, 1, 0) = <<>>
    BY <1>1
  <2>2. FlattenSeq(<<>>) = <<>>
    BY DEF FlattenSeq
  <2>3. length(0) = Len(<<>>)
    BY <2>1, <2>2, Zenon
  <2>4. length(0) = 0
    <3> HIDE DEF length
    <3> QED
      BY <2>3
  <2> HIDE DEF length
  <2> QED
    BY <1>1, <2>4
<1>4. done \in S
  <2>1. S \in SUBSET (0..Len(r.recv)) /\ S # {}
    BY <1>3
  <2> HIDE DEF S
  <2> QED
    BY <1>1, <2>1, Greatest
<1>5. Read(r, n) = [r EXCEPT !.free = @ + done, !.recv = recv]
  BY DEF Read
<1> HIDE DEF done
<1>6. done \in 0..Len(r.recv) /\ length(done) \in Nat /\ length(done) <= n
  BY <1>2, <1>4
<1> HIDE DEF length, S
<1>7. rest \in Seq(Seq(Byte)) /\ Len(rest) = Len(r.recv) - done
  <2>1. \A i \in (done + 1)..Len(r.recv) : r.recv[i] \in Seq(Byte)
    BY <1>1, <1>6, ElementOfSeq
  <2>2. rest \in Seq(Seq(Byte))
    BY <1>1, <1>6, <2>1, SubSeqProperties
  <2>3. Len(rest) = Len(r.recv) - done
    BY <1>1, <1>6
  <2> QED
    BY <2>2, <2>3
<1> HIDE DEF rest
<1>8. recv \in Seq(Seq(Byte)) /\ Len(recv) = Len(r.recv) - done
  <2>1. CASE rest = <<>>
    BY <1>7, <2>1
  <2>2. CASE rest # <<>>
    <3>1. rest[1] \in Seq(Byte) /\ Tail(rest) \in Seq(Seq(Byte)) /\ Len(Tail(rest)) = Len(rest) - 1
      BY <1>7, <2>2, HeadTailProperties, ElementOfSeq
    <3>2. left \in Seq(Byte)
      <4> DEFINE i == n - length(done) + 1
      <4>1. i \in Int /\ i >= 1 /\ Len(rest[1]) \in Nat
        BY <1>6, <3>1
      <4> HIDE DEF i
      <4>2. \A j \in i..Len(rest[1]) : rest[1][j] \in Byte
        BY <3>1, <4>1, ElementOfSeq
      <4>3. SubSeq(rest[1], i, Len(rest[1])) \in Seq(Byte)
        BY <4>1, <4>2, SubSeqProperties
      <4> QED
        BY <4>3 DEF i
    <3> HIDE DEF left
    <3>3. <<left>> \in Seq(Seq(Byte)) /\ Len(<<left>>) = 1
      BY <3>2
    <3>4. <<left>> \o Tail(rest) \in Seq(Seq(Byte))
      BY <3>1, <3>3, ConcatProperties
    <3>5. Len(<<left>> \o Tail(rest)) = 1 + Len(Tail(rest))
      BY <3>1, <3>3, ConcatProperties
    <3> QED
      BY <1>7, <2>2, <3>1, <3>4, <3>5
  <2> QED
    BY <2>1, <2>2
<1> HIDE DEF recv, left
<1>9. r.free + done \in 0..RxPackets
  BY <1>1, <1>6
<1>10. Read(r, n) \in Receiver
  BY <1>1, <1>5, <1>8, <1>9 DEF Receiver
<1>11. Read(r, n).recv = recv /\ Read(r, n).free = r.free + done
  BY <1>1, <1>5 DEF Receiver
<1> QED
  BY <1>1, <1>6, <1>8, <1>10, <1>11 DEF Receivers

-----------------------------------------------------------------------------
\* The bytes of a packet on the line.

LEMMA EscapedType ==
  ASSUME NEW b \in Byte
  PROVE  Escaped(b) \in Seq(Byte) /\ Len(Escaped(b)) \in {1, 2}
<1>1. CASE b = BOUNDARY_BYTE
  BY <1>1 DEF Escaped, BOUNDARY_BYTE, ESCAPE_BYTE, BOUNDARY_SUBSTITUTE, Byte
<1>2. CASE b = ESCAPE_BYTE
  BY <1>2 DEF Escaped, BOUNDARY_BYTE, ESCAPE_BYTE, ESCAPE_SUBSTITUTE, Byte
<1>3. CASE b # BOUNDARY_BYTE /\ b # ESCAPE_BYTE
  BY <1>3 DEF Escaped
<1> QED
  BY <1>1, <1>2, <1>3

\* Escaping goes byte by byte.
LEMMA EscapedAppend ==
  ASSUME NEW data \in Seq(Byte), NEW b \in Byte
  PROVE  /\ EscapedSeq(data) \in Seq(Byte)
         /\ EscapedSeq(<<>>) = <<>>
         /\ EscapedSeq(Append(data, b)) = EscapedSeq(data) \o Escaped(b)
<1> DEFINE each(d) == [i \in DOMAIN d |-> Escaped(d[i])]
<1>1. ASSUME NEW d \in Seq(Byte) PROVE each(d) \in Seq(Seq(Byte)) /\ Len(each(d)) = Len(d)
  <2>1. DOMAIN d = 1..Len(d) /\ Len(d) \in Nat
    OBVIOUS
  <2>2. \A i \in 1..Len(d) : Escaped(d[i]) \in Seq(Byte)
    BY ElementOfSeq, EscapedType
  <2> QED
    BY <2>1, <2>2
<1>2. \A d : EscapedSeq(d) = FlattenSeq(each(d))
  BY DEF EscapedSeq
<1>3. each(Append(data, b)) = Append(each(data), Escaped(b))
  <2> DEFINE t == Append(data, b)
  <2>1. t \in Seq(Byte) /\ Len(t) = Len(data) + 1 /\ Len(data) \in Nat
    BY AppendProperties
  <2>2. DOMAIN t = 1..(Len(data) + 1) /\ DOMAIN data = 1..Len(data)
    BY <2>1
  <2>3. t[Len(data) + 1] = b /\ \A i \in 1..Len(data) : t[i] = data[i]
    BY AppendProperties
  <2>4. Append(each(data), Escaped(b)) \in Seq(Seq(Byte))
    BY <1>1, EscapedType, AppendProperties
  <2>5. Len(Append(each(data), Escaped(b))) = Len(data) + 1
    BY <1>1, EscapedType, AppendProperties
  <2>6. Append(each(data), Escaped(b))[Len(data) + 1] = Escaped(b)
    <3>1. Append(each(data), Escaped(b))[Len(each(data)) + 1] = Escaped(b)
      <4>1. each(data) \in Seq(Seq(Byte)) /\ Escaped(b) \in Seq(Byte)
        BY <1>1, EscapedType
      <4> HIDE DEF each
      <4> QED
        BY <4>1, AppendProperties
    <3> QED
      BY <1>1, <3>1
  <2>7. ASSUME NEW i \in 1..Len(data) PROVE Append(each(data), Escaped(b))[i] = Escaped(data[i])
    <3>1. each(data)[i] = Escaped(data[i])
      BY <2>2
    <3>2. each(data) \in Seq(Seq(Byte)) /\ Escaped(b) \in Seq(Byte) /\ i \in 1..Len(each(data))
      BY <1>1, EscapedType
    <3>3. Append(each(data), Escaped(b))[i] = each(data)[i]
      <4> HIDE DEF each
      <4> QED
        BY <3>2, AppendProperties
    <3> QED
      BY <3>1, <3>3
  <2>8. each(t) \in Seq(Seq(Byte)) /\ Len(each(t)) = Len(data) + 1
    <3> HIDE DEF t, each
    <3> QED
      BY <1>1, <2>1
  <2>9. ASSUME NEW i \in 1..(Len(data) + 1)
        PROVE  each(t)[i] = Append(each(data), Escaped(b))[i]
    <3>1. each(t)[i] = Escaped(t[i])
      BY <2>2
    <3>2. CASE i = Len(data) + 1
      <4>1. t[i] = b
        BY <2>3, <3>2
      <4>2. Append(each(data), Escaped(b))[i] = Escaped(b)
        BY <2>6, <3>2
      <4> HIDE DEF t, each
      <4> QED
        BY <3>1, <4>1, <4>2
    <3>3. CASE i \in 1..Len(data)
      <4>1. t[i] = data[i]
        BY <2>3, <3>3
      <4>2. Append(each(data), Escaped(b))[i] = Escaped(data[i])
        BY <2>7, <3>3
      <4> HIDE DEF t, each
      <4> QED
        BY <3>1, <4>1, <4>2
    <3> QED
      BY <2>1, <3>2, <3>3
  <2> HIDE DEF t, each
  <2>10. each(t) = Append(each(data), Escaped(b))
    BY <2>1, <2>4, <2>5, <2>8, <2>9, SeqEqual
  <2> QED
    BY <2>10 DEF t
<1>4. FlattenSeq(each(data)) \in Seq(Byte)
      /\ FlattenSeq(Append(each(data), Escaped(b))) = FlattenSeq(each(data)) \o Escaped(b)
  <2>1. each(data) \in Seq(Seq(Byte)) /\ Escaped(b) \in Seq(Byte)
    BY <1>1, EscapedType
  <2> HIDE DEF each
  <2> QED
    BY <2>1, FlattenFacts
<1>5. EscapedSeq(<<>>) = <<>>
  <2>1. each(<<>>) = <<>>
    <3>1. <<>> \in Seq(Byte) /\ Len(<<>>) = 0
      OBVIOUS
    <3>2. each(<<>>) \in Seq(Seq(Byte)) /\ Len(each(<<>>)) = 0
      BY <1>1, <3>1
    <3> HIDE DEF each
    <3> QED
      BY <3>2, EmptySeq
  <2>2. FlattenSeq(<<>>) = <<>>
    BY DEF FlattenSeq
  <2> HIDE DEF each
  <2> QED
    BY <1>2, <2>1, <2>2
<1> HIDE DEF each
<1> QED
  BY <1>2, <1>3, <1>4, <1>5

\* What is escaped is at most twice as long, and escaping goes byte by byte.
LEMMA EscapedFacts ==
  ASSUME NEW a \in Seq(Byte), NEW b \in Seq(Byte)
  PROVE  /\ EscapedSeq(a) \in Seq(Byte)
         /\ Len(EscapedSeq(a)) \in Len(a)..(2 * Len(a))
         /\ EscapedSeq(a \o b) = EscapedSeq(a) \o EscapedSeq(b)
<1>0. 0 \in Byte
  BY DEF Byte
<1>1. \A d \in Seq(Byte), c \in Byte : /\ EscapedSeq(d) \in Seq(Byte)
                                       /\ EscapedSeq(Append(d, c)) = EscapedSeq(d) \o Escaped(c)
  BY EscapedAppend
<1>2. EscapedSeq(<<>>) = <<>>
  BY <1>0, EscapedAppend
<1>3. EscapedSeq(a) \in Seq(Byte)
  BY <1>0, <1>1
<1>4. Len(EscapedSeq(a)) \in Len(a)..(2 * Len(a))
  <2> DEFINE S == {d \in Seq(Byte) : Len(EscapedSeq(d)) \in Len(d)..(2 * Len(d))}
  <2>1. <<>> \in S
    BY <1>2
  <2>2. ASSUME NEW d \in Seq(Byte), NEW c \in Byte, d \in S PROVE Append(d, c) \in S
    <3>1. Append(d, c) \in Seq(Byte) /\ Len(Append(d, c)) = Len(d) + 1 /\ Len(d) \in Nat
      BY AppendProperties
    <3>2. Escaped(c) \in Seq(Byte) /\ Len(Escaped(c)) \in {1, 2}
      BY EscapedType
    <3>3. Len(EscapedSeq(d) \o Escaped(c)) = Len(EscapedSeq(d)) + Len(Escaped(c))
      BY <1>1, <3>2, ConcatProperties
    <3>4. Len(EscapedSeq(Append(d, c))) = Len(EscapedSeq(d)) + Len(Escaped(c))
      BY <1>1, <3>3
    <3>5. Len(EscapedSeq(d)) \in Len(d)..(2 * Len(d))
      BY <2>2
    <3>6. Len(EscapedSeq(Append(d, c))) \in Len(Append(d, c))..(2 * Len(Append(d, c)))
      <4>1. \A n \in Nat : \A x \in n..(2 * n), y \in {1, 2} : x + y \in (n + 1)..(2 * (n + 1))
        OBVIOUS
      <4>2. Len(EscapedSeq(d)) + Len(Escaped(c)) \in (Len(d) + 1)..(2 * (Len(d) + 1))
        <5> HIDE DEF S
        <5> QED
          BY <3>1, <3>2, <3>5, <4>1
      <4> QED
        BY <3>1, <3>4, <4>2, Zenon
    <3> QED
      BY <3>1, <3>6
  <2>3. \A d \in Seq(Byte), c \in Byte : d \in S => Append(d, c) \in S
    BY <2>2
  <2>4. a \in S
    <3> HIDE DEF S
    <3> QED
      BY <2>1, <2>3, SeqInduct
  <2> QED
    BY <2>4
<1>5. EscapedSeq(a \o b) = EscapedSeq(a) \o EscapedSeq(b)
  <2> DEFINE S == {d \in Seq(Byte) : EscapedSeq(a \o d) = EscapedSeq(a) \o EscapedSeq(d)}
  <2>1. <<>> \in S
    <3>1. a \o <<>> = a /\ EscapedSeq(a) \o <<>> = EscapedSeq(a)
      BY <1>3
    <3>2. EscapedSeq(a \o <<>>) = EscapedSeq(a) \o EscapedSeq(<<>>)
      BY <1>2, <3>1
    <3> QED
      BY <3>2
  <2>2. ASSUME NEW d \in Seq(Byte), NEW c \in Byte, d \in S PROVE Append(d, c) \in S
    <3>1. a \o Append(d, c) = Append(a \o d, c) /\ a \o d \in Seq(Byte) /\ Append(d, c) \in Seq(Byte)
      OBVIOUS
    <3>2. EscapedSeq(Append(a \o d, c)) = EscapedSeq(a \o d) \o Escaped(c)
      BY <1>1, <3>1
    <3>3. EscapedSeq(a \o d) = EscapedSeq(a) \o EscapedSeq(d)
      BY <2>2
    <3>4. (EscapedSeq(a) \o EscapedSeq(d)) \o Escaped(c)
            = EscapedSeq(a) \o (EscapedSeq(d) \o Escaped(c))
      <4>1. EscapedSeq(a) \in Seq(Byte) /\ EscapedSeq(d) \in Seq(Byte) /\ Escaped(c) \in Seq(Byte)
        BY <1>1, <1>3, EscapedType
      <4>2. Regroups(EscapedSeq(a), EscapedSeq(d), Escaped(c))
        BY <4>1, ByteAssoc, Zenon
      <4> QED
        BY <4>2 DEF Regroups
    <3>5. EscapedSeq(Append(d, c)) = EscapedSeq(d) \o Escaped(c)
      BY <1>1
    <3>6. EscapedSeq(a \o Append(d, c)) = EscapedSeq(a) \o EscapedSeq(Append(d, c))
      BY <3>1, <3>2, <3>3, <3>4, <3>5, Zenon
    <3> QED
      BY <3>1, <3>6
  <2>3. \A d \in Seq(Byte), c \in Byte : d \in S => Append(d, c) \in S
    BY <2>2
  <2>4. b \in S
    <3> HIDE DEF S
    <3> QED
      BY <2>1, <2>3, SeqInduct
  <2> QED
    BY <2>4
<1> QED
  BY <1>3, <1>4, <1>5

\* Data that fits in the buffer goes there whole.
LEMMA SlipBytesFits ==
  ASSUME NEW slip \in Seq(Byte), NEW data \in Seq(Byte), Len(slip) + 2 * Len(data) <= SLIPPED_LEN
  PROVE  SlipBytes(slip, data) = slip \o EscapedSeq(data)
<1> DEFINE fits == {n \in 0..Len(data) :
                      Len(slip) + Len(EscapedSeq(SubSeq(data, 1, n))) <= SLIPPED_LEN}
<1>1. Len(slip) \in Nat /\ Len(data) \in Nat /\ SLIPPED_LEN \in Nat
  BY SlipAssumption DEF SLIPPED_LEN, HeaderLen, CrcLen
<1>2. SubSeq(data, 1, Len(data)) = data
  BY SubSeqFull
<1>3. Len(EscapedSeq(data)) \in Len(data)..(2 * Len(data))
  BY EscapedFacts
<1>4. Len(slip) + Len(EscapedSeq(SubSeq(data, 1, Len(data)))) <= SLIPPED_LEN
  <2>1. Len(slip) + Len(EscapedSeq(data)) <= SLIPPED_LEN
    <3> HIDE DEF fits
    <3> QED
      BY <1>1, <1>3
  <2> QED
    BY <1>2, <2>1, Zenon
<1>5. Len(data) \in fits
  BY <1>1, <1>4
<1>6. fits \in SUBSET (0..Len(data)) /\ fits # {}
  BY <1>5
<1>7. SlipBytes(slip, data) = slip \o EscapedSeq(SubSeq(data, 1, Max(fits)))
  BY DEF SlipBytes
<1> HIDE DEF fits
<1>8. Max(fits) \in 0..Len(data) /\ Len(data) <= Max(fits)
  BY <1>1, <1>5, <1>6, Greatest
<1>9. Max(fits) = Len(data)
  BY <1>1, <1>8
<1> QED
  BY <1>2, <1>7, <1>9

LEMMA TwoBytes ==
  ASSUME NEW n \in Nat, n < 65536
  PROVE  n \div 256 \in Byte /\ n % 256 \in Byte /\ 256 * (n \div 256) + (n % 256) = n
<1>1. n % 256 \in Nat /\ n % 256 < 256 /\ n \div 256 \in Nat
  BY DivFacts
<1>2. 256 * (n \div 256) + (n % 256) = n
  OBVIOUS
<1>3. n \div 256 < 256
  BY <1>1, <1>2
<1> QED
  BY <1>1, <1>2, <1>3 DEF Byte

Header(type, seq, ack, payload) == <<16 * seq + ack, type, Len(payload) \div 256, Len(payload) % 256>>

\* A packet before it is escaped: header, payload and checksum.
PacketBytes(type, seq, ack, payload) ==
  (Header(type, seq, ack, payload) \o payload)
    \o CrcBytes(Header(type, seq, ack, payload) \o payload)

\* A number of four bits.
Nibble == 0..15

\* What the header h says.
HeaderSays(h, type, seq, length) ==
  /\ h \in Seq(Byte) /\ Len(h) = 4
  /\ h[1] \div 16 = seq /\ h[2] = type /\ 256 * h[3] + h[4] = length

\* What CompletePacket reads from the header is what ConvertPacketToBytes wrote there.
LEMMA HeaderFacts ==
  ASSUME NEW type \in Nibble, NEW seq \in Nibble, NEW ack \in Nibble,
         NEW payload \in Seq(Byte), Len(payload) <= PacketSize
  PROVE  HeaderSays(Header(type, seq, ack, payload), type, seq, Len(payload))
<1>1. Len(payload) \in Nat /\ Len(payload) < 65536
  BY SlipAssumption DEF SLIPPED_LEN, HeaderLen, CrcLen
<1>2. /\ Len(payload) \div 256 \in Byte /\ Len(payload) % 256 \in Byte
      /\ 256 * (Len(payload) \div 256) + (Len(payload) % 256) = Len(payload)
  BY <1>1, TwoBytes
<1>3. 16 * seq + ack \in Byte /\ type \in Byte
  <2>1. \A i, j \in 0..15 : 16 * i + j \in 0..255
    OBVIOUS
  <2> QED
    BY <2>1 DEF Byte, Nibble
<1>4. (16 * seq + ack) \div 16 = seq
  BY DEF Nibble
<1> DEFINE header == Header(type, seq, ack, payload)
<1>5. header = <<16 * seq + ack, type, Len(payload) \div 256, Len(payload) % 256>>
  BY DEF Header
<1>6. /\ header[1] = 16 * seq + ack /\ header[2] = type
      /\ header[3] = Len(payload) \div 256 /\ header[4] = Len(payload) % 256
      /\ Len(header) = 4
  BY <1>5
<1>7. header \in Seq(Byte)
  BY <1>2, <1>3, <1>5
<1> HIDE DEF header
<1>8. header[1] \div 16 = seq
  BY <1>4, <1>6, Zenon
<1>9. 256 * header[3] + header[4] = Len(payload)
  BY <1>2, <1>6, Zenon
<1> QED
  BY <1>6, <1>7, <1>8, <1>9 DEF header, HeaderSays

\* What CompletePacket finds in the packet p.
PacketSays(p, type, seq, payload) ==
  /\ p \in Seq(Byte) /\ Len(p) = Len(payload) + 6
  /\ Intact(p) /\ p[1] \div 16 = seq /\ p[2] = type
  /\ SubSeq(p, HeaderLen + 1, Len(p) - CrcLen) = payload

\* A packet passes the three checks, and what it says is what was put into it.
LEMMA PacketFacts ==
  ASSUME NEW type \in Nibble, NEW seq \in Nibble, NEW ack \in Nibble,
         NEW payload \in Seq(Byte), Len(payload) <= PacketSize
  PROVE  PacketSays(PacketBytes(type, seq, ack, payload), type, seq, payload)
<1> DEFINE header == Header(type, seq, ack, payload)
           front  == header \o payload
           crc    == CrcBytes(front)
           packet == front \o crc
           l      == Len(payload)
<1>1. packet = PacketBytes(type, seq, ack, payload)
  BY DEF PacketBytes
<1>2. /\ header \in Seq(Byte) /\ Len(header) = 4
      /\ header[1] \div 16 = seq /\ header[2] = type
      /\ 256 * header[3] + header[4] = l
  <2>1. HeaderSays(header, type, seq, l)
    BY HeaderFacts, Zenon
  <2> QED
    BY <2>1 DEF HeaderSays
<1> HIDE DEF header
<1>3. l \in Nat
  OBVIOUS
<1>4. front \in Seq(Byte) /\ Len(front) = l + 4
  <2>1. front \in Seq(Byte) /\ Len(front) = Len(header) + Len(payload)
    BY <1>2, ConcatProperties
  <2> QED
    BY <1>2, <1>3, <2>1
<1>5. \A i \in 1..(l + 4) : front[i] = IF i <= 4 THEN header[i] ELSE payload[i - 4]
  <2>1. \A i \in 1..(Len(header) + Len(payload)) :
          front[i] = IF i <= Len(header) THEN header[i] ELSE payload[i - Len(header)]
    BY <1>2, ConcatProperties
  <2>2. Len(header) + Len(payload) = l + 4
    BY <1>2, <1>3
  <2> HIDE DEF front, l
  <2> QED
    BY <1>2, <2>1, <2>2
<1> HIDE DEF front
<1>6. crc \in Seq(Byte) /\ Len(crc) = 2
  BY <1>4, CrcBytesType
<1> HIDE DEF crc
<1>7. packet \in Seq(Byte) /\ Len(packet) = l + 6
  <2>1. packet \in Seq(Byte) /\ Len(packet) = Len(front) + Len(crc)
    BY <1>4, <1>6, ConcatProperties
  <2> QED
    BY <1>3, <1>4, <1>6, <2>1
<1>8. \A i \in 1..(l + 6) : packet[i] = IF i <= l + 4 THEN front[i] ELSE crc[i - (l + 4)]
  <2>1. \A i \in 1..(Len(front) + Len(crc)) :
          packet[i] = IF i <= Len(front) THEN front[i] ELSE crc[i - Len(front)]
    BY <1>4, <1>6, ConcatProperties
  <2>2. Len(front) + Len(crc) = l + 6
    BY <1>3, <1>4, <1>6
  <2> HIDE DEF packet, l
  <2> QED
    BY <1>4, <2>1, <2>2
<1> HIDE DEF l
<1>9. packet[1] = header[1] /\ packet[2] = header[2] /\ packet[3] = header[3] /\ packet[4] = header[4]
  <2> HIDE DEF packet
  <2>1. ASSUME NEW i \in 1..4 PROVE packet[i] = header[i]
    <3>1. packet[i] = front[i]
      BY <1>3, <1>8
    <3>2. front[i] = header[i]
      BY <1>3, <1>5
    <3> QED
      BY <3>1, <3>2
  <2> QED
    BY <2>1
<1>10. SubSeq(packet, 1, l + 4) = front
  <2>1. 1 \in 1..Len(front) /\ l + 4 \in 1..Len(front)
    BY <1>3, <1>4
  <2>2. SubSeq(packet, 1, l + 4) = SubSeq(front, 1, l + 4)
    BY <1>4, <1>6, <2>1, SubSeqOfConcat1
  <2>3. SubSeq(front, 1, Len(front)) = front
    BY <1>4, SubSeqFull
  <2> HIDE DEF packet
  <2> QED
    BY <1>4, <2>2, <2>3
<1>11. SubSeq(packet, l + 5, l + 6) = crc
  <2>1. /\ l + 5 \in (Len(front) + 1)..(Len(front) + Len(crc))
        /\ l + 6 \in (Len(front) + 1)..(Len(front) + Len(crc))
    BY <1>3, <1>4, <1>6
  <2>2. SubSeq(packet, l + 5, l + 6) = SubSeq(crc, (l + 5) - Len(front), (l + 6) - Len(front))
    <3>1. front \in Seq(Byte) /\ crc \in Seq(Byte)
      BY <1>4, <1>6
    <3>2. \A i, j \in (Len(front) + 1)..(Len(front) + Len(crc)) :
            SubSeq(front \o crc, i, j) = SubSeq(crc, i - Len(front), j - Len(front))
      <4> HIDE DEF front, crc
      <4> QED
        BY <3>1, SubSeqOfConcat2
    <3> QED
      BY <2>1, <3>2, Zenon
  <2>3. (l + 5) - Len(front) = 1 /\ (l + 6) - Len(front) = Len(crc)
    BY <1>3, <1>4, <1>6
  <2>4. SubSeq(crc, 1, Len(crc)) = crc
    BY <1>6, SubSeqFull
  <2> HIDE DEF packet
  <2> QED
    BY <2>2, <2>3, <2>4
<1>12. SubSeq(packet, 5, l + 4) = payload
  <2> DEFINE s == SubSeq(packet, 5, l + 4)
  <2> HIDE DEF packet
  <2>1. \A i \in 5..(l + 4) : packet[i] \in Byte
    BY <1>3, <1>7, ElementOfSeq
  <2>2. 5 \in Int /\ l + 4 \in Int
    BY <1>3
  <2>3. /\ s \in Seq(Byte) /\ Len(s) = (IF 5 <= l + 4 THEN (l + 4) - 5 + 1 ELSE 0)
        /\ \A i \in 1..((l + 4) - 5 + 1) : s[i] = packet[5 + i - 1]
    BY <2>1, <2>2, SubSeqProperties
  <2> HIDE DEF s
  <2>4. Len(s) = l
    BY <1>3, <2>3
  <2>5. ASSUME NEW i \in 1..l PROVE s[i] = payload[i]
    <3>1. s[i] = packet[i + 4]
      <4>1. i \in 1..((l + 4) - 5 + 1) /\ 5 + i - 1 = i + 4
        BY <1>3
      <4> QED
        BY <2>3, <4>1
    <3>2. packet[i + 4] = front[i + 4]
      BY <1>3, <1>8
    <3>3. front[i + 4] = payload[i]
      <4>1. i + 4 \in 1..(l + 4) /\ ~(i + 4 <= 4) /\ (i + 4) - 4 = i
        BY <1>3
      <4>2. front[i + 4] = payload[(i + 4) - 4]
        BY <1>5, <4>1
      <4> QED
        BY <4>1, <4>2
    <3> QED
      BY <3>1, <3>2, <3>3
  <2>6. Len(payload) = l
    BY DEF l
  <2>7. s = payload
    BY <2>3, <2>4, <2>5, <2>6, SeqEqual
  <2> QED
    BY <2>7 DEF s
<1>13. Intact(packet)
  <2> HIDE DEF packet
  <2>1. Len(packet) >= 4 /\ Len(packet) - 1 = l + 5 /\ Len(packet) - 2 = l + 4
        /\ Len(packet) - 4 - 2 = l
    BY <1>3, <1>7
  <2>2. SubSeq(packet, Len(packet) - 1, Len(packet)) = CrcBytes(SubSeq(packet, 1, Len(packet) - 2))
    BY <1>7, <1>10, <1>11, <2>1 DEF crc
  <2>3. 256 * packet[3] + packet[4] = Len(packet) - 4 - 2
    BY <1>2, <1>9, <2>1
  <2> QED
    BY <2>1, <2>2, <2>3 DEF Intact, HeaderLen, CrcLen
<1>14. SubSeq(packet, HeaderLen + 1, Len(packet) - CrcLen) = payload
  <2> HIDE DEF packet
  <2>1. HeaderLen + 1 = 5 /\ Len(packet) - CrcLen = l + 4
    BY <1>3, <1>7 DEF HeaderLen, CrcLen
  <2> QED
    BY <1>12, <2>1
<1>15. packet[1] \div 16 = seq /\ packet[2] = type
  BY <1>2, <1>9
<1> HIDE DEF packet
<1> QED
  BY <1>1, <1>7, <1>13, <1>14, <1>15 DEF l, PacketSays

\* The frame of a packet: there is room for all of it.
LEMMA FrameBytes ==
  ASSUME NEW type \in Nibble, NEW seq \in Nibble, NEW ack \in Nibble,
         NEW payload \in Seq(Byte), Len(payload) <= PacketSize
  PROVE  ConvertPacketToBytes(type, seq, ack, payload)
           = Append(<<BOUNDARY_BYTE>> \o EscapedSeq(PacketBytes(type, seq, ack, payload)),
                    BOUNDARY_BYTE)
<1> DEFINE header == Header(type, seq, ack, payload)
           front  == header \o payload
           crc    == CrcBytes(front)
           slip   == <<BOUNDARY_BYTE>>
           l      == Len(payload)
<1>1. header \in Seq(Byte) /\ Len(header) = 4
  <2>1. HeaderSays(header, type, seq, l)
    BY HeaderFacts, Zenon
  <2> QED
    BY <2>1 DEF HeaderSays
<1>2. ConvertPacketToBytes(type, seq, ack, payload)
        = Append(SlipBytes(SlipBytes(SlipBytes(slip, header), payload), crc), BOUNDARY_BYTE)
  BY DEF ConvertPacketToBytes, Header
<1> HIDE DEF header
<1>3. l \in Nat /\ PacketSize \in Nat /\ SLIPPED_LEN = 2 * PacketSize + 14
  BY SlipAssumption DEF SLIPPED_LEN, HeaderLen, CrcLen
<1>4. slip \in Seq(Byte) /\ Len(slip) = 1
  BY DEF BOUNDARY_BYTE, Byte
<1> HIDE DEF slip
<1>5. front \in Seq(Byte)
  BY <1>1, ConcatProperties
<1>6. crc \in Seq(Byte) /\ Len(crc) = 2
  BY <1>5, CrcBytesType
<1> HIDE DEF crc
<1> DEFINE a == EscapedSeq(header)
           b == EscapedSeq(payload)
           c == EscapedSeq(crc)
<1>7. a \in Seq(Byte) /\ Len(a) \in Len(header)..(2 * Len(header))
  BY <1>1, EscapedFacts
<1>8. b \in Seq(Byte) /\ Len(b) \in Len(payload)..(2 * Len(payload))
  BY EscapedFacts
<1>9. c \in Seq(Byte)
  BY <1>6, EscapedFacts
<1>10. SlipBytes(slip, header) = slip \o a
  <2>1. Len(slip) + 2 * Len(header) <= SLIPPED_LEN
    BY <1>1, <1>3, <1>4
  <2> QED
    BY <1>1, <1>4, <2>1, SlipBytesFits
<1>11. EscapedSeq(front \o crc) = (a \o b) \o c
  <2>1. EscapedSeq(front) = a \o b
    BY <1>1, EscapedFacts
  <2>2. EscapedSeq(front \o crc) = EscapedSeq(front) \o c
    <3> HIDE DEF front
    <3> QED
      BY <1>5, <1>6, EscapedFacts
  <2> QED
    BY <2>1, <2>2, Zenon
<1> HIDE DEF a, b
<1>12. slip \o a \in Seq(Byte) /\ Len(slip \o a) <= 9
  <2>1. slip \o a \in Seq(Byte) /\ Len(slip \o a) = Len(slip) + Len(a)
    BY <1>4, <1>7, ConcatProperties
  <2>2. Len(a) \in 4..8
    BY <1>1, <1>7
  <2>3. Len(slip \o a) = 1 + Len(a)
    BY <1>4, <2>1, Zenon
  <2>4. Len(slip \o a) <= 9
    <3>1. \A i \in 4..8 : 1 + i <= 9
      OBVIOUS
    <3> QED
      BY <2>2, <2>3, <3>1, Zenon
  <2> QED
    BY <2>1, <2>4
<1>13. SlipBytes(slip \o a, payload) = (slip \o a) \o b
  <2>1. Len(slip \o a) + 2 * Len(payload) <= SLIPPED_LEN
    BY <1>3, <1>12
  <2>2. SlipBytes(slip \o a, payload) = (slip \o a) \o EscapedSeq(payload)
    BY <1>12, <2>1, SlipBytesFits
  <2> QED
    BY <2>2 DEF b
<1>14. (slip \o a) \o b \in Seq(Byte) /\ Len((slip \o a) \o b) <= 9 + 2 * l
  <2>1. (slip \o a) \o b \in Seq(Byte) /\ Len((slip \o a) \o b) = Len(slip \o a) + Len(b)
    BY <1>8, <1>12, ConcatProperties
  <2>2. Len(slip \o a) \in Nat
    BY <1>12
  <2> QED
    BY <1>3, <1>8, <1>12, <2>1, <2>2
<1>15. SlipBytes((slip \o a) \o b, crc) = ((slip \o a) \o b) \o c
  <2>1. Len((slip \o a) \o b) + 2 * Len(crc) <= SLIPPED_LEN
    <3>1. Len((slip \o a) \o b) \in Nat
      BY <1>14
    <3> QED
      BY <1>3, <1>6, <1>14, <3>1
  <2> QED
    BY <1>6, <1>14, <2>1, SlipBytesFits
<1>16. ((slip \o a) \o b) \o c = slip \o ((a \o b) \o c)
  <2> HIDE DEF c
  <2>1. a \in Seq(Byte) /\ b \in Seq(Byte) /\ slip \in Seq(Byte) /\ a \o b \in Seq(Byte)
    BY <1>4, <1>7, <1>8, ConcatProperties
  <2>2. (slip \o a) \o b = slip \o (a \o b)
    <3> HIDE DEF front, l
    <3>1. Regroups(slip, a, b)
      BY <2>1, ByteAssoc, Zenon
    <3> QED
      BY <3>1 DEF Regroups
  <2>3. (slip \o (a \o b)) \o c = slip \o ((a \o b) \o c)
    <3>1. Regroups(slip, a \o b, c)
      BY <1>9, <2>1, ByteAssoc, Zenon
    <3> QED
      BY <3>1 DEF Regroups
  <2> QED
    BY <2>2, <2>3, Zenon
<1>17. PacketBytes(type, seq, ack, payload) = front \o crc
  BY DEF PacketBytes, header, crc
<1>18. SlipBytes(SlipBytes(SlipBytes(slip, header), payload), crc) = slip \o EscapedSeq(front \o crc)
  <2> HIDE DEF c, front
  <2> QED
    BY <1>10, <1>11, <1>13, <1>15, <1>16, Zenon
<1> HIDE DEF front, c
<1>19. ConvertPacketToBytes(type, seq, ack, payload)
         = Append(slip \o EscapedSeq(PacketBytes(type, seq, ack, payload)), BOUNDARY_BYTE)
  BY <1>2, <1>17, <1>18, Zenon
<1> QED
  BY <1>19 DEF slip

-----------------------------------------------------------------------------
\* What the decoder makes of the bytes of a packet.

At(b, k) == [byte |-> b, frame |-> k]

LEMMA TaggedFacts ==
  ASSUME NEW a \in Seq(Byte), NEW b \in Seq(Byte), NEW k \in Nat
  PROVE  /\ Tagged(a, k) \in Seq(Cell) /\ Len(Tagged(a, k)) = Len(a)
         /\ \A i \in 1..Len(a) : Tagged(a, k)[i] = At(a[i], k)
         /\ Bytes(Tagged(a, k)) = a
         /\ Tagged(a \o b, k) = Tagged(a, k) \o Tagged(b, k)
<1>1. ASSUME NEW s \in Seq(Byte)
      PROVE  /\ Tagged(s, k) \in Seq(Cell) /\ Len(Tagged(s, k)) = Len(s)
             /\ \A i \in 1..Len(s) : Tagged(s, k)[i] = At(s[i], k)
             /\ Bytes(Tagged(s, k)) = s
  <2>1. DOMAIN s = 1..Len(s) /\ Len(s) \in Nat
    OBVIOUS
  <2>2. \A i \in 1..Len(s) : At(s[i], k) \in Cell
    BY ElementOfSeq DEF Cell, At
  <2>3. Tagged(s, k) = [i \in 1..Len(s) |-> At(s[i], k)]
    BY <2>1 DEF Tagged, At
  <2>4. Tagged(s, k) \in Seq(Cell) /\ Len(Tagged(s, k)) = Len(s)
    BY <2>1, <2>2, <2>3
  <2>5. \A i \in 1..Len(s) : Tagged(s, k)[i] = At(s[i], k)
    BY <2>3
  <2>6. /\ Bytes(Tagged(s, k)) \in Seq(Byte) /\ Len(Bytes(Tagged(s, k))) = Len(s)
        /\ \A i \in 1..Len(s) : Bytes(Tagged(s, k))[i] = Tagged(s, k)[i].byte
    BY <2>4, BytesType
  <2>7. ASSUME NEW i \in 1..Len(s) PROVE Bytes(Tagged(s, k))[i] = s[i]
    <3>1. At(s[i], k).byte = s[i]
      BY DEF At
    <3>2. Tagged(s, k)[i] = At(s[i], k) /\ Bytes(Tagged(s, k))[i] = Tagged(s, k)[i].byte
      BY <2>5, <2>6
    <3> QED
      BY <3>1, <3>2, Zenon
  <2>8. Bytes(Tagged(s, k)) = s
    BY <2>6, <2>7, SeqEqual
  <2> QED
    BY <2>4, <2>5, <2>8
<1>2. Tagged(a \o b, k) = Tagged(a, k) \o Tagged(b, k)
  <2> DEFINE l == Len(a)
             m == Len(b)
  <2>1. /\ a \o b \in Seq(Byte) /\ Len(a \o b) = l + m /\ l \in Nat /\ m \in Nat
        /\ \A i \in 1..(l + m) : (a \o b)[i] = IF i <= l THEN a[i] ELSE b[i - l]
    BY ConcatProperties
  <2>2. /\ Tagged(a, k) \in Seq(Cell) /\ Len(Tagged(a, k)) = l
        /\ Tagged(b, k) \in Seq(Cell) /\ Len(Tagged(b, k)) = m
    BY <1>1
  <2>3. \A i \in 1..l : Tagged(a, k)[i] = At(a[i], k)
    BY <1>1
  <2>4. \A i \in 1..m : Tagged(b, k)[i] = At(b[i], k)
    BY <1>1
  <2>5. /\ Tagged(a \o b, k) \in Seq(Cell) /\ Len(Tagged(a \o b, k)) = l + m
        /\ \A i \in 1..(l + m) : Tagged(a \o b, k)[i] = At((a \o b)[i], k)
    BY <1>1, <2>1
  <2> HIDE DEF l, m
  <2> DEFINE t == Tagged(a, k) \o Tagged(b, k)
  <2>6. t \in Seq(Cell) /\ Len(t) = l + m
    BY <2>1, <2>2, ConcatProperties
  <2>7. \A i \in 1..(l + m) : t[i] = IF i <= l THEN Tagged(a, k)[i] ELSE Tagged(b, k)[i - l]
    BY <2>1, <2>2, ConcatProperties
  <2> HIDE DEF t
  <2>8. ASSUME NEW i \in 1..(l + m) PROVE Tagged(a \o b, k)[i] = t[i]
    <3>1. CASE i <= l
      <4>1. i \in 1..l
        BY <2>1, <3>1
      <4>2. t[i] = At(a[i], k)
        BY <2>3, <2>7, <3>1, <4>1
      <4>3. (a \o b)[i] = a[i]
        BY <2>1, <3>1
      <4> QED
        BY <2>5, <4>2, <4>3
    <3>2. CASE ~(i <= l)
      <4>1. i - l \in 1..m
        BY <2>1, <3>2
      <4>2. t[i] = At(b[i - l], k)
        BY <2>4, <2>7, <3>2, <4>1
      <4>3. (a \o b)[i] = b[i - l]
        BY <2>1, <3>2
      <4> QED
        BY <2>5, <4>2, <4>3
    <3> QED
      BY <3>1, <3>2
  <2>9. Tagged(a \o b, k) = t
    BY <2>1, <2>5, <2>6, <2>8, SeqEqual
  <2> QED
    BY <2>9 DEF t
<1> QED
  BY <1>1, <1>2

\* One byte, and two.
LEMMA TaggedFew ==
  ASSUME NEW b \in Byte, NEW c \in Byte, NEW k \in Nat
  PROVE  /\ Tagged(<<>>, k) = <<>>
         /\ Tagged(<<b>>, k) = Append(<<>>, At(b, k))
         /\ Tagged(<<b, c>>, k) = Append(Append(<<>>, At(b, k)), At(c, k))
<1>1. Tagged(<<>>, k) = <<>>
  <2>1. <<>> \in Seq(Byte) /\ Len(<<>>) = 0
    OBVIOUS
  <2>2. Tagged(<<>>, k) \in Seq(Cell) /\ Len(Tagged(<<>>, k)) = 0
    BY <2>1, TaggedFacts
  <2> QED
    BY <2>2, EmptySeq
<1>2. Tagged(<<b>>, k) = Append(<<>>, At(b, k))
  <2>1. DOMAIN <<b>> = 1..1 /\ <<b>>[1] = b
    OBVIOUS
  <2>2. Tagged(<<b>>, k) = [i \in 1..1 |-> At(b, k)]
    BY <2>1 DEF Tagged, At
  <2> QED
    BY <2>2
<1>3. Tagged(<<b, c>>, k) = Append(Append(<<>>, At(b, k)), At(c, k))
  <2>1. DOMAIN <<b, c>> = 1..2 /\ <<b, c>>[1] = b /\ <<b, c>>[2] = c
    OBVIOUS
  <2>2. Tagged(<<b, c>>, k) = [i \in 1..2 |-> IF i = 1 THEN At(b, k) ELSE At(c, k)]
    BY <2>1 DEF Tagged, At
  <2> QED
    BY <2>2
<1> QED
  BY <1>1, <1>2, <1>3

\* Bytes one at a time.
LEMMA CompleteFew ==
  ASSUME NEW r \in Receivers, NEW c \in Cell, NEW d \in Cell
  PROVE  /\ UART_RxComplete(r, Append(<<>>, c)) = ReceiveByte(r, c)
         /\ UART_RxComplete(r, Append(Append(<<>>, c), d)) = ReceiveByte(ReceiveByte(r, c), d)
<1>1. <<>> \in Seq(Cell) /\ Append(<<>>, c) \in Seq(Cell)
  OBVIOUS
<1>2. UART_RxComplete(r, <<>>) = r
  BY <1>1, CompleteFacts
<1>3. UART_RxComplete(r, Append(<<>>, c)) = ReceiveByte(r, c)
  <2>1. UART_RxComplete(r, Append(<<>>, c)) = ReceiveByte(UART_RxComplete(r, <<>>), c)
    BY <1>1, CompleteFacts
  <2> QED
    BY <1>2, <2>1
<1>4. UART_RxComplete(r, Append(Append(<<>>, c), d))
        = ReceiveByte(UART_RxComplete(r, Append(<<>>, c)), d)
  BY <1>1, CompleteFacts
<1> QED
  BY <1>3, <1>4

\* One byte of a packet, escaped or not.
LEMMA DecodeByte ==
  ASSUME NEW r \in Receivers, r.state = "OPEN", Len(r.buf) # maxRxFrameSize,
         NEW b \in Byte, NEW k \in Nat
  PROVE  UART_RxComplete(r, Tagged(Escaped(b), k)) = [r EXCEPT !.buf = Append(@, At(b, k))]
<1>0. r \in Receiver
  BY DEF Receivers
<1>1. \A d \in Byte : At(d, k) \in Cell /\ At(d, k).byte = d
  BY DEF At, Cell
<1>2. {BOUNDARY_BYTE, ESCAPE_BYTE, BOUNDARY_SUBSTITUTE, ESCAPE_SUBSTITUTE} \subseteq Byte
  BY DEF BOUNDARY_BYTE, ESCAPE_BYTE, BOUNDARY_SUBSTITUTE, ESCAPE_SUBSTITUTE, Byte
<1>3. /\ BOUNDARY_BYTE # ESCAPE_BYTE /\ BOUNDARY_SUBSTITUTE # ESCAPE_SUBSTITUTE
  BY DEF BOUNDARY_BYTE, ESCAPE_BYTE, BOUNDARY_SUBSTITUTE, ESCAPE_SUBSTITUTE
<1>4. /\ Escaped(BOUNDARY_BYTE) = <<ESCAPE_BYTE, BOUNDARY_SUBSTITUTE>>
      /\ Escaped(ESCAPE_BYTE) = <<ESCAPE_BYTE, ESCAPE_SUBSTITUTE>>
  BY <1>3 DEF Escaped
<1>5. ASSUME NEW s \in Byte, b \in {BOUNDARY_BYTE, ESCAPE_BYTE}, Escaped(b) = <<ESCAPE_BYTE, s>>
      PROVE  UART_RxComplete(r, Tagged(Escaped(b), k)) = [r EXCEPT !.buf = Append(@, At(b, k))]
  <2> DEFINE q == [r EXCEPT !.state = "ESCAPE"]
             c == At(s, k)
  <2>1. ReceiveByte(r, At(ESCAPE_BYTE, k)) = q
    <3>1. At(ESCAPE_BYTE, k).byte = ESCAPE_BYTE
      BY <1>1, <1>2
    <3> QED
      BY <1>3, <3>1 DEF ReceiveByte, AtOpen
  <2>2. UART_RxComplete(r, Tagged(Escaped(b), k)) = ReceiveByte(q, c)
    <3>1. Tagged(Escaped(b), k) = Append(Append(<<>>, At(ESCAPE_BYTE, k)), At(s, k))
      <4>1. ESCAPE_BYTE \in Byte
        BY <1>2
      <4>2. Tagged(<<ESCAPE_BYTE, s>>, k) = Append(Append(<<>>, At(ESCAPE_BYTE, k)), At(s, k))
        BY <4>1, TaggedFew
      <4> QED
        BY <1>5, <4>2, Zenon
    <3>2. At(ESCAPE_BYTE, k) \in Cell /\ At(s, k) \in Cell
      BY <1>1, <1>2
    <3>3. UART_RxComplete(r, Append(Append(<<>>, At(ESCAPE_BYTE, k)), At(s, k)))
            = ReceiveByte(ReceiveByte(r, At(ESCAPE_BYTE, k)), At(s, k))
      BY <3>2, CompleteFew
    <3> QED
      BY <2>1, <3>1, <3>3
  <2> DEFINE plain == {p \in {BOUNDARY_BYTE, ESCAPE_BYTE} : Escaped(p) = <<ESCAPE_BYTE, c.byte>>}
  <2>3. plain = {b}
    <3>1. c.byte = s
      BY <1>1
    <3>2. <<ESCAPE_BYTE, BOUNDARY_SUBSTITUTE>> # <<ESCAPE_BYTE, ESCAPE_SUBSTITUTE>>
      BY <1>3
    <3>3. \A p \in {BOUNDARY_BYTE, ESCAPE_BYTE} : Escaped(p) = Escaped(b) <=> p = b
      BY <1>3, <1>4, <1>5, <3>2
    <3> QED
      BY <1>5, <3>1, <3>3
  <2>4. (CHOOSE p \in plain : TRUE) = b
    BY <2>3
  <2>5. ReceiveByte(q, c)
          = [q EXCEPT !.state = "OPEN", !.buf = Append(@, [c EXCEPT !.byte = CHOOSE p \in plain : TRUE])]
    <3>1. q.state = "ESCAPE"
      BY <1>0 DEF Receiver
    <3>2. plain # {}
      BY <2>3
    <3> HIDE DEF q, c
    <3> QED
      BY <3>1, <3>2 DEF ReceiveByte, AtEscape
  <2>6. [c EXCEPT !.byte = b] = At(b, k)
    BY DEF At
  <2>7. [q EXCEPT !.state = "OPEN", !.buf = Append(@, At(b, k))] = [r EXCEPT !.buf = Append(@, At(b, k))]
    BY <1>0 DEF Receiver
  <2> HIDE DEF plain, q, c
  <2>8. [c EXCEPT !.byte = CHOOSE p \in plain : TRUE] = At(b, k)
    BY <2>4, <2>6
  <2> QED
    BY <2>2, <2>5, <2>7, <2>8
<1>6. CASE b \notin {BOUNDARY_BYTE, ESCAPE_BYTE}
  <2>1. Escaped(b) = <<b>>
    BY <1>6 DEF Escaped
  <2>2. UART_RxComplete(r, Tagged(Escaped(b), k)) = ReceiveByte(r, At(b, k))
    <3>1. Tagged(Escaped(b), k) = Append(<<>>, At(b, k))
      BY <2>1, TaggedFew
    <3> QED
      BY <1>1, <3>1, CompleteFew
  <2>3. At(b, k).byte = b
    BY <1>1
  <2>4. ReceiveByte(r, At(b, k)) = AtOpen(r, At(b, k))
    BY DEF ReceiveByte
  <2>5. AtOpen(r, At(b, k)) = [r EXCEPT !.buf = Append(@, At(b, k))]
    BY <1>6, <2>3 DEF AtOpen
  <2> QED
    BY <2>2, <2>4, <2>5
<1> QED
  BY <1>2, <1>4, <1>5, <1>6

\* The bytes of a packet, each escaped or not.
LEMMA DecodeData ==
  ASSUME NEW r \in Receivers, r.state = "OPEN", NEW data \in Seq(Byte), NEW k \in Nat,
         Len(r.buf) + Len(data) <= maxRxFrameSize
  PROVE  UART_RxComplete(r, Tagged(EscapedSeq(data), k)) = [r EXCEPT !.buf = @ \o Tagged(data, k)]
<1> DEFINE with(d) == [r EXCEPT !.buf = @ \o Tagged(d, k)]
           S == {d \in Seq(Byte) : Len(r.buf) + Len(d) <= maxRxFrameSize =>
                   UART_RxComplete(r, Tagged(EscapedSeq(d), k)) = with(d)}
<1>0. r \in Receiver /\ r.buf \in Seq(Cell) /\ Len(r.buf) \in Nat /\ maxRxFrameSize \in Nat
  BY SlipAssumption DEF Receivers, Receiver, Cell, maxRxFrameSize, HeaderLen
<1>1. <<>> \in S
  <2>1. EscapedSeq(<<>>) = <<>> /\ Tagged(<<>>, k) = <<>>
    <3>1. 0 \in Byte /\ <<>> \in Seq(Byte)
      BY DEF Byte
    <3> QED
      BY <3>1, EscapedAppend, TaggedFew
  <2>2. UART_RxComplete(r, <<>>) = r
    <3>1. [byte |-> 0, frame |-> 0] \in Cell /\ <<>> \in Seq(Cell)
      BY DEF Cell, Byte
    <3> QED
      BY <3>1, CompleteFacts
  <2>3. with(<<>>) = r
    <3>1. r.buf \o <<>> = r.buf
      BY <1>0
    <3> QED
      BY <1>0, <2>1, <3>1 DEF Receiver
  <2> HIDE DEF with
  <2>4. UART_RxComplete(r, Tagged(EscapedSeq(<<>>), k)) = with(<<>>)
    BY <2>1, <2>2, <2>3
  <2> QED
    BY <2>4
<1>2. ASSUME NEW d \in Seq(Byte), NEW b \in Byte, d \in S PROVE Append(d, b) \in S
  <2>1. Append(d, b) \in Seq(Byte) /\ Len(Append(d, b)) = Len(d) + 1 /\ Len(d) \in Nat
    BY AppendProperties
  <2>2. ASSUME Len(r.buf) + Len(Append(d, b)) <= maxRxFrameSize
        PROVE  UART_RxComplete(r, Tagged(EscapedSeq(Append(d, b)), k)) = with(Append(d, b))
    <3> DEFINE e == Tagged(EscapedSeq(d), k)
               f == Tagged(Escaped(b), k)
    <3>1. Tagged(EscapedSeq(Append(d, b)), k) = e \o f /\ e \in Seq(Cell) /\ f \in Seq(Cell)
      <4>1. /\ EscapedSeq(d) \in Seq(Byte) /\ Escaped(b) \in Seq(Byte)
            /\ EscapedSeq(Append(d, b)) = EscapedSeq(d) \o Escaped(b)
        BY EscapedAppend, EscapedType
      <4>2. e \in Seq(Cell) /\ f \in Seq(Cell)
        BY <4>1, TaggedFacts
      <4>3. Tagged(EscapedSeq(d) \o Escaped(b), k) = e \o f
        BY <4>1, TaggedFacts
      <4> HIDE DEF e, f
      <4> QED
        BY <4>1, <4>2, <4>3
    <3>2. UART_RxComplete(r, e) = with(d)
      <4>1. Len(r.buf) + Len(d) <= maxRxFrameSize
        <5>1. \A x, y, m \in Nat : x + (y + 1) <= m => x + y <= m
          OBVIOUS
        <5>2. Len(r.buf) + (Len(d) + 1) <= maxRxFrameSize
          BY <2>1, <2>2, Zenon
        <5> QED
          BY <1>0, <2>1, <5>1, <5>2, Zenon
      <4> QED
        BY <1>2, <4>1
    <3> DEFINE g == Tagged(d, k)
    <3>3. g \in Seq(Cell) /\ Len(g) = Len(d)
      BY TaggedFacts
    <3>4. r.buf \o g \in Seq(Cell) /\ Len(r.buf \o g) = Len(r.buf) + Len(d)
      <4>1. r.buf \o g \in Seq(Cell) /\ Len(r.buf \o g) = Len(r.buf) + Len(g)
        <5> HIDE DEF g
        <5> QED
          BY <1>0, <3>3, ConcatProperties
      <4> HIDE DEF g
      <4> QED
        BY <3>3, <4>1, Zenon
    <3>5. with(d) \in Receivers /\ with(d).state = "OPEN" /\ with(d).buf = r.buf \o g
      <4>1. with(d) = [r EXCEPT !.buf = r.buf \o g]
        OBVIOUS
      <4>2. [r EXCEPT !.buf = r.buf \o g] \in Receivers
        <5> HIDE DEF g
        <5>1. "OPEN" \in {"NEW", "OPEN", "ESCAPE", "FLUSH"}
          OBVIOUS
        <5> QED
          BY <3>4, <5>1, WithState
      <4>3. [r EXCEPT !.buf = r.buf \o g].state = "OPEN" /\ [r EXCEPT !.buf = r.buf \o g].buf = r.buf \o g
        BY <1>0 DEF Receiver
      <4> HIDE DEF with, g
      <4> QED
        BY <4>1, <4>2, <4>3
    <3> HIDE DEF with, g, e, f
    <3>6. UART_RxComplete(with(d), f) = [with(d) EXCEPT !.buf = Append(@, At(b, k))]
      <4>1. Len(with(d).buf) # maxRxFrameSize
        <5>1. Len(with(d).buf) = Len(r.buf) + Len(d)
          BY <3>4, <3>5, Zenon
        <5>2. Len(r.buf) + (Len(d) + 1) <= maxRxFrameSize
          BY <2>1, <2>2, Zenon
        <5>3. \A x, y, m \in Nat : x + (y + 1) <= m => x + y # m
          OBVIOUS
        <5> QED
          BY <1>0, <2>1, <5>1, <5>2, <5>3, Zenon
      <4>2. \A q \in Receivers : q.state = "OPEN" /\ Len(q.buf) # maxRxFrameSize =>
              UART_RxComplete(q, Tagged(Escaped(b), k)) = [q EXCEPT !.buf = Append(@, At(b, k))]
        BY DecodeByte
      <4>3. UART_RxComplete(with(d), Tagged(Escaped(b), k)) = [with(d) EXCEPT !.buf = Append(@, At(b, k))]
        BY <3>5, <4>1, <4>2, Zenon
      <4> QED
        BY <4>3 DEF f
    <3>7. UART_RxComplete(r, e \o f) = UART_RxComplete(UART_RxComplete(r, e), f)
      BY <3>1, CompleteConcat
    <3>8. Append(r.buf \o g, At(b, k)) = r.buf \o Tagged(Append(d, b), k)
      <4>1. Append(d, b) = d \o <<b>> /\ <<b>> \in Seq(Byte)
        BY AppendIsConcat
      <4>2. Tagged(d \o <<b>>, k) = g \o Tagged(<<b>>, k)
        BY <4>1, TaggedFacts DEF g
      <4>3. At(b, k) \in Cell
        BY DEF At, Cell
      <4>4. Tagged(<<b>>, k) = <<At(b, k)>>
        <5>1. Tagged(<<b>>, k) = Append(<<>>, At(b, k))
          BY TaggedFew
        <5> QED
          BY <5>1
      <4>5. r.buf \o (g \o <<At(b, k)>>) = Append(r.buf \o g, At(b, k))
        <5>1. <<At(b, k)>> \in Seq(Cell)
          BY <4>3
        <5>2. r.buf \o (g \o <<At(b, k)>>) = (r.buf \o g) \o <<At(b, k)>>
          <6>1. Regroups(r.buf, g, <<At(b, k)>>)
            BY <1>0, <3>3, <5>1, CellAssoc, Zenon
          <6> QED
            BY <6>1 DEF Regroups
        <5>3. Append(r.buf \o g, At(b, k)) = (r.buf \o g) \o <<At(b, k)>>
          BY <3>4, <4>3, AppendIsConcat
        <5> QED
          BY <5>2, <5>3, Zenon
      <4> QED
        BY <4>1, <4>2, <4>4, <4>5, Zenon
    <3>9. [with(d) EXCEPT !.buf = Append(@, At(b, k))] = with(Append(d, b))
      <4>1. [[r EXCEPT !.buf = r.buf \o g] EXCEPT !.buf = Append(@, At(b, k))]
              = [r EXCEPT !.buf = Append(r.buf \o g, At(b, k))]
        BY <1>0 DEF Receiver
      <4>2. with(d) = [r EXCEPT !.buf = r.buf \o g]
        BY DEF with, g
      <4>3. with(Append(d, b)) = [r EXCEPT !.buf = r.buf \o Tagged(Append(d, b), k)]
        BY DEF with
      <4> QED
        BY <3>8, <4>1, <4>2, <4>3, Zenon
    <3> QED
      BY <3>1, <3>2, <3>6, <3>7, <3>9, Zenon
  <2> HIDE DEF with
  <2> QED
    BY <2>1, <2>2
<1>3. data \in S
  <2>1. \A d \in Seq(Byte), b \in Byte : d \in S => Append(d, b) \in S
    BY <1>2
  <2> HIDE DEF S
  <2> QED
    BY <1>1, <2>1, SeqInduct
<1> QED
  BY <1>3

\* The packets that a frame can hold, with what the receiver compares as it should be.
Packets == {p \in Seq(Byte) : Len(p) \in 6..maxRxFrameSize /\ Intact(p)}

FrameOf(p) == Append(<<BOUNDARY_BYTE>> \o EscapedSeq(p), BOUNDARY_BYTE)

\* The bytes of a frame on the line: boundary, escaped packet, boundary.
LEMMA FrameSplit ==
  ASSUME NEW p \in Packets, NEW k \in Nat
  PROVE  LET first == Append(<<>>, At(BOUNDARY_BYTE, k))
             data  == Tagged(EscapedSeq(p), k)
         IN  /\ At(BOUNDARY_BYTE, k) \in Cell /\ At(BOUNDARY_BYTE, k).byte = BOUNDARY_BYTE
             /\ first \in Seq(Cell) /\ data \in Seq(Cell) /\ data # <<>>
             /\ FrameOf(p) \in Seq(Byte) /\ FrameOf(p) # <<>>
             /\ Tagged(FrameOf(p), k) = Append(first \o data, At(BOUNDARY_BYTE, k))
<1> DEFINE B == BOUNDARY_BYTE
           e == EscapedSeq(p)
           first == Append(<<>>, At(B, k))
           data  == Tagged(e, k)
<1>1. B \in Byte /\ <<B>> \in Seq(Byte)
  BY DEF Byte, BOUNDARY_BYTE
<1>2. p \in Seq(Byte) /\ Len(p) >= 6 /\ Len(p) \in Nat
  BY DEF Packets
<1>3. e \in Seq(Byte) /\ Len(e) # 0
  <2>1. e \in Seq(Byte) /\ Len(e) \in Len(p)..(2 * Len(p))
    BY <1>2, EscapedFacts
  <2> HIDE DEF e
  <2> QED
    BY <1>2, <2>1
<1> HIDE DEF e
<1>4. At(B, k) \in Cell /\ At(B, k).byte = B
  BY <1>1 DEF At, Cell
<1>5. first \in Seq(Cell)
  BY <1>4, AppendProperties
<1>6. data \in Seq(Cell) /\ data # <<>>
  <2>1. data \in Seq(Cell) /\ Len(data) = Len(e)
    BY <1>3, TaggedFacts
  <2> HIDE DEF data
  <2> QED
    BY <1>3, <2>1
<1>7. <<B>> \o e \in Seq(Byte)
  BY <1>1, <1>3, ConcatProperties
<1>8. FrameOf(p) = (<<B>> \o e) \o <<B>>
  <2>1. FrameOf(p) = Append(<<B>> \o e, B)
    BY DEF FrameOf, e
  <2> HIDE DEF B
  <2> QED
    BY <1>1, <1>7, <2>1, AppendIsConcat
<1>9. FrameOf(p) \in Seq(Byte) /\ FrameOf(p) # <<>>
  <2>1. FrameOf(p) = Append(<<B>> \o e, B)
    BY DEF FrameOf, e
  <2> HIDE DEF B
  <2> QED
    BY <1>1, <1>7, <2>1, AppendProperties
<1>10. Tagged(FrameOf(p), k) = (first \o data) \o first
  <2> HIDE DEF B
  <2>1. Tagged((<<B>> \o e) \o <<B>>, k) = Tagged(<<B>> \o e, k) \o Tagged(<<B>>, k)
    BY <1>1, <1>7, TaggedFacts
  <2>2. Tagged(<<B>> \o e, k) = Tagged(<<B>>, k) \o Tagged(e, k)
    BY <1>1, <1>3, TaggedFacts
  <2>3. Tagged(<<B>>, k) = first
    BY <1>1, TaggedFew
  <2> HIDE DEF first
  <2> QED
    BY <1>8, <2>1, <2>2, <2>3, Zenon
<1>11. (first \o data) \o first = Append(first \o data, At(B, k))
  <2>1. first \o data \in Seq(Cell)
    BY <1>5, <1>6, ConcatProperties
  <2>2. first = <<At(B, k)>>
    OBVIOUS
  <2>3. Append(first \o data, At(B, k)) = (first \o data) \o <<At(B, k)>>
    <3> HIDE DEF first, data, B
    <3> QED
      BY <1>4, <2>1, AppendIsConcat
  <2> HIDE DEF first, data, B
  <2> QED
    BY <2>2, <2>3, Zenon
<1>12. Tagged(FrameOf(p), k) = Append(first \o data, At(B, k))
  <2> HIDE DEF first, data, B
  <2> QED
    BY <1>10, <1>11, Zenon
<1> QED
  BY <1>4, <1>5, <1>6, <1>9, <1>12 DEF e

-----------------------------------------------------------------------------
\* What the decoder makes of a whole frame.

\* What CompletePacket changes of what has been heard.
LEMMA CompletePacketFacts ==
  ASSUME NEW r \in Receivers
  PROVE  /\ CompletePacket(r).state = r.state
         /\ r.heard \subseteq CompletePacket(r).heard
         /\ Intact(Bytes(r.buf)) => CompletePacket(r).heard = r.heard \cup {r.buf[1].frame}
         /\ ~Intact(Bytes(r.buf)) => CompletePacket(r).heard = r.heard
<1> DEFINE bytes == Bytes(r.buf)
           found == [r EXCEPT !.heard = @ \cup {r.buf[1].frame}]
           payload == SubSeq(bytes, HeaderLen + 1, Len(bytes) - CrcLen)
<1>1. r \in Receiver
  BY DEF Receivers
<1>2. CompletePacket(r) =
        IF ~Intact(bytes) THEN r
        ELSE IF bytes[2] % 16 # DataType THEN found
        ELSE Enqueue(found, bytes[1] \div 16, payload)
  BY DEF CompletePacket, Bytes
<1>3. found.state = r.state /\ found.heard = r.heard \cup {r.buf[1].frame}
  BY <1>1 DEF Receiver
<1>4. \A seq : /\ Enqueue(found, seq, payload).state = r.state
               /\ Enqueue(found, seq, payload).heard = r.heard \cup {r.buf[1].frame}
  BY <1>1, <1>3 DEF Enqueue, Receiver
<1> HIDE DEF bytes, found, payload
<1>5. CASE ~Intact(bytes)
  BY <1>2, <1>5 DEF bytes
<1>6. CASE Intact(bytes)
  BY <1>2, <1>3, <1>4, <1>6 DEF bytes
<1> QED
  BY <1>5, <1>6

\* A frame heard stays heard.
LEMMA HeardStays ==
  ASSUME NEW r \in Receivers, NEW bytes \in Seq(Cell)
  PROVE  r.heard \subseteq UART_RxComplete(r, bytes).heard
<1>1. ASSUME NEW q \in Receivers, NEW c \in Cell PROVE q.heard \subseteq ReceiveByte(q, c).heard
  <2>1. q \in Receiver /\ q.state \in {"NEW", "OPEN", "ESCAPE", "FLUSH"}
    BY DEF Receivers, Receiver
  <2>2. AtNew(q, c).heard = q.heard
    BY <2>1 DEF AtNew, Receiver
  <2>3. CASE q.state = "FLUSH"
    BY <2>1, <2>3 DEF ReceiveByte, Receiver
  <2>4. CASE q.state = "NEW"
    BY <2>2, <2>4 DEF ReceiveByte
  <2>5. CASE q.state = "ESCAPE"
    <3>1. ReceiveByte(q, c) = AtEscape(q, c)
      BY <2>5 DEF ReceiveByte
    <3>2. AtEscape(q, c).heard = q.heard
      BY <2>1, <2>2 DEF AtEscape, Receiver
    <3> QED
      BY <3>1, <3>2
  <2>6. CASE q.state = "OPEN"
    <3> DEFINE p == [q EXCEPT !.state = "NEW"]
    <3>1. ReceiveByte(q, c) = AtOpen(q, c)
      BY <2>6 DEF ReceiveByte
    <3>2. p \in Receivers /\ p.heard = q.heard
      BY <2>1 DEF Receivers, Receiver
    <3>3. q.heard \subseteq CompletePacket(p).heard
      <4> HIDE DEF p
      <4> QED
        BY <3>2, CompletePacketFacts
    <3>4. [q EXCEPT !.state = "ESCAPE"].heard = q.heard /\ [q EXCEPT !.buf = Append(@, c)].heard = q.heard
      BY <2>1 DEF Receiver
    <3>5. AtOpen(q, c) \in {CompletePacket(p), [q EXCEPT !.state = "ESCAPE"], p,
                            [q EXCEPT !.buf = Append(@, c)]}
      BY DEF AtOpen
    <3> HIDE DEF p
    <3> QED
      BY <3>1, <3>2, <3>3, <3>4, <3>5
  <2> QED
    BY <2>1, <2>3, <2>4, <2>5, <2>6
<1> DEFINE S == {s \in Seq(Cell) : r.heard \subseteq UART_RxComplete(r, s).heard}
<1>2. <<>> \in S
  <2>1. [byte |-> 0, frame |-> 0] \in Cell /\ <<>> \in Seq(Cell)
    BY DEF Cell, Byte
  <2>2. UART_RxComplete(r, <<>>) = r
    BY <2>1, CompleteFacts
  <2> QED
    BY <2>1, <2>2
<1>3. ASSUME NEW s \in Seq(Cell), NEW c \in Cell, s \in S PROVE Append(s, c) \in S
  <2>1. UART_RxComplete(r, s) \in Receivers
    BY CompleteFacts
  <2>2. UART_RxComplete(r, Append(s, c)) = ReceiveByte(UART_RxComplete(r, s), c)
    BY CompleteFacts
  <2>3. r.heard \subseteq UART_RxComplete(r, s).heard
    BY <1>3
  <2>4. UART_RxComplete(r, s).heard \subseteq ReceiveByte(UART_RxComplete(r, s), c).heard
    BY <1>1, <2>1, Zenon
  <2>5. r.heard \subseteq UART_RxComplete(r, Append(s, c)).heard
    <3> HIDE DEF S
    <3> QED
      BY <2>2, <2>3, <2>4
  <2>6. Append(s, c) \in Seq(Cell)
    BY AppendProperties
  <2> QED
    BY <2>5, <2>6
<1>4. \A s \in Seq(Cell), c \in Cell : s \in S => Append(s, c) \in S
  BY <1>3
<1>5. bytes \in S
  <2> HIDE DEF S
  <2> QED
    BY <1>2, <1>4, SeqInduct
<1> QED
  BY <1>5

\* A frame that begins where the receiver looks for one goes to CompletePacket, whole.
LEMMA DecodeFrame ==
  ASSUME NEW r \in Receivers, r.state \in {"NEW", "ESCAPE"}, NEW p \in Packets, NEW k \in Nat
  PROVE  UART_RxComplete(r, Tagged(FrameOf(p), k))
           = CompletePacket([r EXCEPT !.state = "NEW", !.buf = Tagged(p, k)])
<1> DEFINE B == At(BOUNDARY_BYTE, k)
           first == Append(<<>>, B)
           data  == Tagged(EscapedSeq(p), k)
           q == [r EXCEPT !.state = "OPEN", !.buf = <<>>]
           t == [r EXCEPT !.state = "OPEN", !.buf = Tagged(p, k)]
<1>0. r \in Receiver
  BY DEF Receivers
<1>1. /\ B \in Cell /\ B.byte = BOUNDARY_BYTE /\ first \in Seq(Cell) /\ data \in Seq(Cell)
      /\ Tagged(FrameOf(p), k) = Append(first \o data, B)
  BY FrameSplit
<1>2. p \in Seq(Byte) /\ Len(p) <= maxRxFrameSize /\ Len(p) \in Nat
  BY SlipAssumption DEF Packets, maxRxFrameSize, HeaderLen
<1>3. Tagged(p, k) \in Seq(Cell)
  BY <1>2, TaggedFacts
<1>4. q \in Receivers /\ q.state = "OPEN" /\ q.buf = <<>>
  <2>1. <<>> \in Seq(Cell) /\ "OPEN" \in {"NEW", "OPEN", "ESCAPE", "FLUSH"}
    OBVIOUS
  <2>2. \A b \in Seq(Cell) : [r EXCEPT !.state = "OPEN", !.buf = b] \in Receivers
    BY <2>1, WithState
  <2>3. q \in Receivers
    BY <2>1, <2>2, Zenon
  <2>4. q.state = "OPEN" /\ q.buf = <<>>
    BY <1>0 DEF Receiver
  <2> QED
    BY <2>3, <2>4
<1>5. ReceiveByte(r, B) = q
  <2>1. AtNew(r, B) = q
    BY <1>1 DEF AtNew
  <2>2. CASE r.state = "NEW"
    BY <2>1, <2>2 DEF ReceiveByte
  <2>3. CASE r.state = "ESCAPE"
    <3>1. {c \in {BOUNDARY_BYTE, ESCAPE_BYTE} : Escaped(c) = <<ESCAPE_BYTE, BOUNDARY_BYTE>>} = {}
      BY DEF Escaped, BOUNDARY_BYTE, ESCAPE_BYTE, BOUNDARY_SUBSTITUTE, ESCAPE_SUBSTITUTE
    <3>2. AtEscape(r, B) = AtNew(r, B)
      <4> HIDE DEF B
      <4> QED
        BY <1>1, <3>1 DEF AtEscape
    <3>3. ReceiveByte(r, B) = AtEscape(r, B)
      BY <2>3 DEF ReceiveByte
    <3> QED
      BY <2>1, <3>2, <3>3
  <2> QED
    BY <2>2, <2>3
<1> HIDE DEF B
<1>6. UART_RxComplete(r, first) = q
  <2> HIDE DEF q
  <2> QED
    BY <1>1, <1>5, CompleteFew
<1>7. UART_RxComplete(q, data) = t
  <2>1. Len(q.buf) + Len(p) <= maxRxFrameSize
    <3>1. Len(<<>>) = 0
      OBVIOUS
    <3>2. Len(q.buf) = 0
      BY <1>4, <3>1
    <3> HIDE DEF q
    <3> QED
      BY <1>2, <3>2
  <2>2. UART_RxComplete(q, Tagged(EscapedSeq(p), k)) = [q EXCEPT !.buf = @ \o Tagged(p, k)]
    <3> HIDE DEF q
    <3> QED
      BY <1>2, <1>4, <2>1, DecodeData
  <2>3. q.buf \o Tagged(p, k) = Tagged(p, k)
    <3> HIDE DEF q
    <3> QED
      BY <1>3, <1>4, ConcatEmptySeq
  <2>4. [q EXCEPT !.buf = Tagged(p, k)] = t
    BY <1>0 DEF Receiver
  <2> HIDE DEF q, t
  <2> QED
    BY <2>2, <2>3, <2>4
<1>8. UART_RxComplete(r, first \o data) = t
  <2> HIDE DEF first, data, q, t
  <2>1. UART_RxComplete(r, first \o data) = UART_RxComplete(UART_RxComplete(r, first), data)
    BY <1>1, CompleteConcat
  <2> QED
    BY <1>6, <1>7, <2>1
<1>9. UART_RxComplete(r, Append(first \o data, B)) = ReceiveByte(t, B)
  <2> HIDE DEF first, data, t
  <2>1. first \o data \in Seq(Cell)
    BY <1>1, ConcatProperties
  <2>2. UART_RxComplete(r, Append(first \o data, B)) = ReceiveByte(UART_RxComplete(r, first \o data), B)
    BY <1>1, <2>1, CompleteFacts
  <2> QED
    BY <1>8, <2>2
<1>10. ReceiveByte(t, B) = CompletePacket([r EXCEPT !.state = "NEW", !.buf = Tagged(p, k)])
  <2>1. t.state = "OPEN"
    BY <1>0 DEF Receiver
  <2>2. [t EXCEPT !.state = "NEW"] = [r EXCEPT !.state = "NEW", !.buf = Tagged(p, k)]
    BY <1>0 DEF Receiver
  <2>3. ReceiveByte(t, B) = CompletePacket([t EXCEPT !.state = "NEW"])
    <3> HIDE DEF t
    <3>1. ReceiveByte(t, B) = AtOpen(t, B)
      BY <2>1 DEF ReceiveByte
    <3>2. B.byte = BOUNDARY_BYTE
      BY <1>1
    <3>3. AtOpen(t, B) = CompletePacket([t EXCEPT !.state = "NEW"])
      BY <3>2 DEF AtOpen, BOUNDARY_BYTE, ESCAPE_BYTE
    <3> QED
      BY <3>1, <3>3
  <2> HIDE DEF t
  <2> QED
    BY <2>2, <2>3
<1> HIDE DEF first, data
<1> QED
  BY <1>1, <1>9, <1>10, Zenon

\* No byte of an escaped packet is a boundary.
LEMMA NoBoundary ==
  ASSUME NEW data \in Seq(Byte), NEW k \in Nat
  PROVE  \A i \in 1..Len(Tagged(EscapedSeq(data), k)) :
           Tagged(EscapedSeq(data), k)[i].byte # BOUNDARY_BYTE
<1> DEFINE Free(s) == \A i \in 1..Len(s) : s[i] # BOUNDARY_BYTE
           S == {d \in Seq(Byte) : Free(EscapedSeq(d))}
<1>1. <<>> \in S
  <2>1. EscapedSeq(<<>>) = <<>>
    <3>1. 0 \in Byte /\ <<>> \in Seq(Byte)
      BY DEF Byte
    <3> QED
      BY <3>1, EscapedAppend
  <2> QED
    BY <2>1
<1>2. ASSUME NEW b \in Byte PROVE Free(Escaped(b))
  <2>1. CASE b = BOUNDARY_BYTE
    BY <2>1 DEF Escaped, BOUNDARY_BYTE, ESCAPE_BYTE, BOUNDARY_SUBSTITUTE
  <2>2. CASE b = ESCAPE_BYTE
    BY <2>2 DEF Escaped, BOUNDARY_BYTE, ESCAPE_BYTE, ESCAPE_SUBSTITUTE
  <2>3. CASE b # BOUNDARY_BYTE /\ b # ESCAPE_BYTE
    BY <2>3 DEF Escaped
  <2> QED
    BY <2>1, <2>2, <2>3
<1>3. ASSUME NEW d \in Seq(Byte), NEW b \in Byte, d \in S PROVE Append(d, b) \in S
  <2> DEFINE x == EscapedSeq(d)
             y == Escaped(b)
  <2>1. Append(d, b) \in Seq(Byte)
    BY AppendProperties
  <2>2. EscapedSeq(Append(d, b)) = x \o y /\ x \in Seq(Byte) /\ y \in Seq(Byte)
    BY EscapedAppend, EscapedType
  <2>3. Free(x) /\ Free(y)
    BY <1>2, <1>3
  <2> HIDE DEF x, y
  <2>4. Free(x \o y)
    <3>1. /\ Len(x \o y) = Len(x) + Len(y) /\ Len(x) \in Nat /\ Len(y) \in Nat
          /\ \A i \in 1..(Len(x) + Len(y)) : (x \o y)[i] = IF i <= Len(x) THEN x[i] ELSE y[i - Len(x)]
      BY <2>2, ConcatProperties
    <3>2. ASSUME NEW i \in 1..(Len(x) + Len(y)) PROVE (x \o y)[i] # BOUNDARY_BYTE
      <4>1. CASE i <= Len(x)
        <5>1. i \in 1..Len(x)
          BY <3>1, <4>1
        <5> QED
          BY <2>3, <3>1, <4>1, <5>1
      <4>2. CASE ~(i <= Len(x))
        <5>1. i - Len(x) \in 1..Len(y)
          BY <3>1, <4>2
        <5> QED
          BY <2>3, <3>1, <4>2, <5>1
      <4> QED
        BY <4>1, <4>2
    <3> QED
      BY <3>1, <3>2
  <2> QED
    BY <2>1, <2>2, <2>4
<1>4. \A d \in Seq(Byte), b \in Byte : d \in S => Append(d, b) \in S
  BY <1>3
<1>5. data \in S
  <2> HIDE DEF S
  <2> QED
    BY <1>1, <1>4, SeqInduct
<1> DEFINE e == EscapedSeq(data)
<1>6. e \in Seq(Byte) /\ Free(e)
  BY <1>5, EscapedFacts
<1> HIDE DEF e
<1>7. Len(Tagged(e, k)) = Len(e) /\ \A i \in 1..Len(e) : Tagged(e, k)[i] = At(e[i], k)
  BY <1>6, TaggedFacts
<1>8. ASSUME NEW i \in 1..Len(Tagged(e, k)) PROVE Tagged(e, k)[i].byte # BOUNDARY_BYTE
  <2>1. i \in 1..Len(e)
    BY <1>7
  <2>2. Tagged(e, k)[i] = At(e[i], k) /\ e[i] # BOUNDARY_BYTE
    BY <1>6, <1>7, <2>1
  <2>3. At(e[i], k).byte = e[i]
    BY DEF At
  <2> QED
    BY <2>2, <2>3
<1> QED
  BY <1>8 DEF e

\* Bytes that are no boundary keep a receiver that looks for one in the flush.
LEMMA Flushed ==
  ASSUME NEW r \in Receivers, r.state \in {"NEW", "FLUSH"}, NEW bytes \in Seq(Cell),
         \A i \in 1..Len(bytes) : bytes[i].byte # BOUNDARY_BYTE, bytes # <<>>
  PROVE  UART_RxComplete(r, bytes).state = "FLUSH"
<1> DEFINE Free(s) == \A i \in 1..Len(s) : s[i].byte # BOUNDARY_BYTE
           S == {s \in Seq(Cell) : Free(s) =>
                   UART_RxComplete(r, s).state = IF s = <<>> THEN r.state ELSE "FLUSH"}
<1>1. <<>> \in S
  <2>1. [byte |-> 0, frame |-> 0] \in Cell /\ <<>> \in Seq(Cell)
    BY DEF Cell, Byte
  <2>2. UART_RxComplete(r, <<>>) = r
    BY <2>1, CompleteFacts
  <2> QED
    BY <2>1, <2>2
<1>2. ASSUME NEW s \in Seq(Cell), NEW c \in Cell, s \in S PROVE Append(s, c) \in S
  <2> DEFINE q == UART_RxComplete(r, s)
             t == Append(s, c)
  <2>1. t \in Seq(Cell) /\ t # <<>> /\ Len(t) = Len(s) + 1 /\ Len(s) \in Nat
        /\ (\A i \in 1..Len(s) : t[i] = s[i]) /\ t[Len(s) + 1] = c
    BY AppendProperties
  <2>2. q \in Receivers /\ UART_RxComplete(r, t) = ReceiveByte(q, c)
    BY CompleteFacts
  <2> HIDE DEF t
  <2>3. ASSUME Free(t) PROVE UART_RxComplete(r, t).state = "FLUSH"
    <3>1. Free(s)
      BY <2>1, <2>3
    <3>2. c.byte # BOUNDARY_BYTE
      BY <2>1, <2>3
    <3>3. q.state \in {"NEW", "FLUSH"}
      BY <1>2, <3>1
    <3> HIDE DEF q
    <3>4. q \in Receiver
      BY <2>2 DEF Receivers
    <3>5. ReceiveByte(q, c).state = "FLUSH"
      BY <3>2, <3>3, <3>4 DEF ReceiveByte, AtNew, Receiver
    <3> QED
      BY <2>2, <3>5
  <2>4. t \in S
    BY <2>1, <2>3
  <2> QED
    BY <2>4 DEF t
<1>3. \A s \in Seq(Cell), c \in Cell : s \in S => Append(s, c) \in S
  BY <1>2
<1>4. bytes \in S
  <2> HIDE DEF S
  <2> QED
    BY <1>1, <1>3, SeqInduct
<1> QED
  BY <1>4

\* Wherever the receiver was, after a frame that arrives as it was sent it looks for the next.
LEMMA AfterFrame ==
  ASSUME NEW r \in Receivers, NEW p \in Packets, NEW k \in Nat
  PROVE  UART_RxComplete(r, Tagged(FrameOf(p), k)).state = "NEW"
<1> DEFINE B == At(BOUNDARY_BYTE, k)
           first == Append(<<>>, B)
           data  == Tagged(EscapedSeq(p), k)
<1>0. r \in Receiver /\ r.state \in {"NEW", "OPEN", "ESCAPE", "FLUSH"}
  BY DEF Receivers, Receiver
<1>1. /\ B \in Cell /\ B.byte = BOUNDARY_BYTE /\ first \in Seq(Cell) /\ data \in Seq(Cell)
      /\ data # <<>> /\ Tagged(FrameOf(p), k) = Append(first \o data, B)
  BY FrameSplit
<1>2. CASE r.state \in {"NEW", "ESCAPE"}
  <2> DEFINE t == [r EXCEPT !.state = "NEW", !.buf = Tagged(p, k)]
  <2>1. UART_RxComplete(r, Tagged(FrameOf(p), k)) = CompletePacket(t)
    BY <1>2, DecodeFrame
  <2>2. t \in Receivers
    <3>1. p \in Seq(Byte)
      BY DEF Packets
    <3>2. Tagged(p, k) \in Seq(Cell) /\ "NEW" \in {"NEW", "OPEN", "ESCAPE", "FLUSH"}
      BY <3>1, TaggedFacts
    <3> QED
      BY <3>2, WithState
  <2>3. t.state = "NEW"
    BY <1>0 DEF Receiver
  <2>4. CompletePacket(t).state = t.state
    <3> HIDE DEF t
    <3> QED
      BY <2>2, CompletePacketFacts
  <2> HIDE DEF t
  <2> QED
    BY <2>1, <2>3, <2>4, Zenon
<1>3. CASE r.state \in {"OPEN", "FLUSH"}
  <2> DEFINE q == ReceiveByte(r, B)
  <2>1. q.state = "NEW"
    <3>1. CASE r.state = "OPEN"
      <4> DEFINE u == [r EXCEPT !.state = "NEW"]
      <4>1. q = AtOpen(r, B)
        BY <3>1 DEF ReceiveByte
      <4>2. AtOpen(r, B) = CompletePacket(u)
        <5> HIDE DEF B
        <5> QED
          BY <1>1 DEF AtOpen, BOUNDARY_BYTE, ESCAPE_BYTE
      <4>3. u \in Receivers /\ u.state = "NEW"
        BY <1>0 DEF Receivers, Receiver
      <4>4. CompletePacket(u).state = "NEW"
        <5> HIDE DEF u
        <5> QED
          BY <4>3, CompletePacketFacts
      <4> QED
        BY <4>1, <4>2, <4>4
    <3>2. CASE r.state = "FLUSH"
      <4> HIDE DEF B
      <4> QED
        BY <1>0, <1>1, <3>2 DEF ReceiveByte, Receiver
    <3> QED
      BY <1>3, <3>1, <3>2
  <2>2. q \in Receivers
    BY <1>1, ReceiveByteType
  <2>3. UART_RxComplete(r, first) = q
    BY <1>1, CompleteFew
  <2> HIDE DEF q
  <2> DEFINE u == UART_RxComplete(q, data)
  <2>4. u \in Receivers /\ u.state = "FLUSH"
    <3>1. u \in Receivers
      BY <1>1, <2>2, CompleteFacts
    <3>2. \A i \in 1..Len(data) : data[i].byte # BOUNDARY_BYTE
      <4>1. p \in Seq(Byte)
        BY DEF Packets
      <4> QED
        BY <4>1, NoBoundary
    <3> HIDE DEF data, B
    <3>3. u.state = "FLUSH"
      BY <1>1, <2>1, <2>2, <3>2, Flushed
    <3> QED
      BY <3>1, <3>3
  <2>5. UART_RxComplete(r, first \o data) = u
    <3>1. UART_RxComplete(r, first \o data) = UART_RxComplete(UART_RxComplete(r, first), data)
      <4> HIDE DEF first, data
      <4> QED
        BY <1>1, CompleteConcat
    <3> QED
      BY <2>3, <3>1
  <2> HIDE DEF u, first, data, B
  <2>6. UART_RxComplete(r, Append(first \o data, B)) = ReceiveByte(u, B)
    <3>1. first \o data \in Seq(Cell)
      BY <1>1, ConcatProperties
    <3>2. UART_RxComplete(r, Append(first \o data, B)) = ReceiveByte(UART_RxComplete(r, first \o data), B)
      BY <1>1, <3>1, CompleteFacts
    <3> QED
      BY <2>5, <3>2
  <2>7. ReceiveByte(u, B).state = "NEW"
    <3>1. u \in Receiver
      BY <2>4 DEF Receivers
    <3> QED
      BY <1>1, <2>4, <3>1 DEF ReceiveByte, Receiver
  <2> QED
    BY <1>1, <2>6, <2>7
<1> QED
  BY <1>0, <1>2, <1>3

\* A frame that begins where the receiver looks for one is heard.
LEMMA FrameHeard ==
  ASSUME NEW r \in Receivers, r.state = "NEW", NEW p \in Packets, NEW k \in Nat
  PROVE  UART_RxComplete(r, Tagged(FrameOf(p), k)).heard = r.heard \cup {k}
<1> DEFINE t == [r EXCEPT !.state = "NEW", !.buf = Tagged(p, k)]
<1>0. r \in Receiver
  BY DEF Receivers
<1>1. UART_RxComplete(r, Tagged(FrameOf(p), k)) = CompletePacket(t)
  BY DecodeFrame
<1>2. p \in Seq(Byte) /\ Intact(p) /\ 1 \in 1..Len(p)
  BY DEF Packets
<1>3. Tagged(p, k) \in Seq(Cell) /\ "NEW" \in {"NEW", "OPEN", "ESCAPE", "FLUSH"}
  BY <1>2, TaggedFacts
<1>4. t \in Receivers
  BY <1>3, WithState
<1>5. t.buf = Tagged(p, k) /\ t.heard = r.heard
  BY <1>0 DEF Receiver
<1>6. Bytes(t.buf) = p /\ t.buf[1].frame = k
  <2>1. Bytes(Tagged(p, k)) = p
    BY <1>2, TaggedFacts
  <2>2. Tagged(p, k)[1] = At(p[1], k)
    BY <1>2, TaggedFacts
  <2>3. At(p[1], k).frame = k
    BY DEF At
  <2> HIDE DEF t
  <2> QED
    BY <1>5, <2>1, <2>2, <2>3
<1> HIDE DEF t
<1>7. CompletePacket(t).heard = t.heard \cup {t.buf[1].frame}
  BY <1>2, <1>4, <1>6, CompletePacketFacts
<1> QED
  BY <1>1, <1>5, <1>6, <1>7

\* Damage costs the frame it hits and at most the next: of two frames that arrive as they
\* were sent, one behind the other, the second is heard, wherever the receiver was before
\* and whatever is in the packets.
THEOREM SecondFrameHeard ==
  ASSUME NEW r \in Receivers, NEW p \in Packets, NEW q \in Packets, NEW j \in Nat, NEW k \in Nat
  PROVE  k \in UART_RxComplete(r, Tagged(FrameOf(p), j) \o Tagged(FrameOf(q), k)).heard
<1> DEFINE a == Tagged(FrameOf(p), j)
           b == Tagged(FrameOf(q), k)
           s == UART_RxComplete(r, a)
<1>1. a \in Seq(Cell) /\ b \in Seq(Cell)
  <2>1. FrameOf(p) \in Seq(Byte) /\ FrameOf(q) \in Seq(Byte)
    BY FrameSplit
  <2> QED
    BY <2>1, TaggedFacts
<1>2. s \in Receivers /\ s.state = "NEW"
  <2>1. s.state = "NEW"
    BY AfterFrame
  <2>2. s \in Receivers
    <3> HIDE DEF a
    <3>1. [byte |-> 0, frame |-> 0] \in Cell
      BY DEF Cell, Byte
    <3> QED
      BY <1>1, <3>1, CompleteFacts
  <2> QED
    BY <2>1, <2>2
<1>3. UART_RxComplete(s, b).heard = s.heard \cup {k}
  <2> HIDE DEF s
  <2> QED
    BY <1>2, FrameHeard
<1>4. UART_RxComplete(r, a \o b) = UART_RxComplete(s, b)
  <2> HIDE DEF a, b
  <2> QED
    BY <1>1, CompleteConcat
<1> HIDE DEF s
<1> QED
  BY <1>3, <1>4

\* The encoder makes a frame of an intact packet, and cuts nothing off.
LEMMA ConvertFrame ==
  ASSUME NEW type \in Nibble, NEW seq \in Nibble, NEW ack \in Nibble,
         NEW payload \in Seq(Byte), Len(payload) <= PacketSize
  PROVE  /\ PacketBytes(type, seq, ack, payload) \in Packets
         /\ ConvertPacketToBytes(type, seq, ack, payload) = FrameOf(PacketBytes(type, seq, ack, payload))
<1> DEFINE p == PacketBytes(type, seq, ack, payload)
<1>1. PacketSays(p, type, seq, payload)
  BY PacketFacts
<1>2. ConvertPacketToBytes(type, seq, ack, payload) = FrameOf(p)
  BY FrameBytes DEF FrameOf
<1> HIDE DEF p
<1>3. p \in Seq(Byte) /\ Len(p) = Len(payload) + 6 /\ Intact(p)
  BY <1>1 DEF PacketSays
<1>4. Len(payload) \in Nat /\ PacketSize \in Nat /\ maxRxFrameSize = PacketSize + 6
  BY SlipAssumption DEF maxRxFrameSize, HeaderLen
<1>5. Len(p) \in 6..maxRxFrameSize
  BY <1>3, <1>4
<1> QED
  BY <1>2, <1>3, <1>5 DEF Packets, p

\* What ConvertPacketToBytes makes of a DATA packet in sequence, UART_RxComplete turns into
\* its payload, at the end of what is to be read, one packet less free and the next one
\* expected: for every packet size and every payload, whatever bytes are in it.
THEOREM FrameDecoded ==
  ASSUME NEW r \in Receivers, r.state = "NEW", r.free > 0, NEW ack \in Nibble,
         NEW payload \in Seq(Byte), Len(payload) <= PacketSize, NEW k \in Nat
  PROVE  UART_RxComplete(r, Tagged(ConvertPacketToBytes(DataType, r.expected, ack, payload), k))
           = [r EXCEPT !.buf = <<>>, !.recv = Append(@, payload), !.expected = (@ + 1) % 8,
                       !.free = @ - 1, !.heard = @ \cup {k}]
<1> DEFINE p == PacketBytes(DataType, r.expected, ack, payload)
           t == [r EXCEPT !.state = "NEW", !.buf = Tagged(p, k)]
           found == [t EXCEPT !.heard = @ \cup {t.buf[1].frame}]
<1>0. r \in Receiver /\ r.expected \in Nibble /\ DataType \in Nibble
  BY DEF Receivers, Receiver, Nibble, DataType
<1>1. p \in Packets
      /\ ConvertPacketToBytes(DataType, r.expected, ack, payload) = FrameOf(p)
  BY <1>0, ConvertFrame
<1>2. PacketSays(p, DataType, r.expected, payload)
  BY <1>0, PacketFacts
<1> HIDE DEF p
<1>3. UART_RxComplete(r, Tagged(FrameOf(p), k)) = CompletePacket(t)
  BY <1>1, DecodeFrame
<1>4. /\ p \in Seq(Byte) /\ Intact(p) /\ p[1] \div 16 = r.expected /\ p[2] = DataType
      /\ SubSeq(p, HeaderLen + 1, Len(p) - CrcLen) = payload /\ 1 \in 1..Len(p)
  BY <1>1, <1>2 DEF PacketSays, Packets
<1>5. t.buf = Tagged(p, k) /\ t = [r EXCEPT !.buf = Tagged(p, k)]
  BY <1>0 DEF Receiver
<1>6. Bytes(t.buf) = p /\ t.buf[1].frame = k
  <2>1. Bytes(Tagged(p, k)) = p
    BY <1>4, TaggedFacts
  <2>2. Tagged(p, k)[1] = At(p[1], k)
    BY <1>4, TaggedFacts
  <2>3. At(p[1], k).frame = k
    BY DEF At
  <2> HIDE DEF t
  <2> QED
    BY <1>5, <2>1, <2>2, <2>3
<1>7. CompletePacket(t) = Enqueue(found, r.expected, payload)
  <2>1. CompletePacket(t) =
          IF ~Intact(Bytes(t.buf)) THEN t
          ELSE IF Bytes(t.buf)[2] % 16 # DataType THEN found
          ELSE Enqueue(found, Bytes(t.buf)[1] \div 16,
                       SubSeq(Bytes(t.buf), HeaderLen + 1, Len(Bytes(t.buf)) - CrcLen))
    BY DEF CompletePacket, Bytes
  <2>2. DataType % 16 = DataType
    BY DEF DataType
  <2> HIDE DEF t, found
  <2> QED
    BY <1>4, <1>6, <2>1, <2>2
<1>8. found = [r EXCEPT !.buf = Tagged(p, k), !.heard = @ \cup {k}]
  <2>1. found = [t EXCEPT !.heard = @ \cup {k}]
    <3> HIDE DEF t
    <3> QED
      BY <1>6
  <2> HIDE DEF found
  <2> QED
    BY <1>0, <1>5, <2>1 DEF Receiver
<1> HIDE DEF t, found
<1>9. found.expected = r.expected /\ found.free = r.free /\ r.free # 0
  BY <1>0, <1>8 DEF Receiver
<1>10. Enqueue(found, r.expected, payload)
         = [found EXCEPT !.expected = (@ + 1) % 8, !.recv = Append(@, payload), !.free = @ - 1,
                         !.buf = <<>>]
  BY <1>9 DEF Enqueue
<1>11. [found EXCEPT !.expected = (@ + 1) % 8, !.recv = Append(@, payload), !.free = @ - 1,
                     !.buf = <<>>]
         = [r EXCEPT !.buf = <<>>, !.recv = Append(@, payload), !.expected = (@ + 1) % 8,
                     !.free = @ - 1, !.heard = @ \cup {k}]
  BY <1>0, <1>8 DEF Receiver
<1> QED
  BY <1>1, <1>3, <1>7, <1>10, <1>11, Zenon

\* What FillTake puts in a buffer is a frame.
LEMMA EncodedFrame ==
  ASSUME NEW k \in {0} \cup DOMAIN Payload
  PROVE  \E p \in Packets : Encoded(k) = FrameOf(p)
<1>1. CASE k = 0
  <2>1. AckType \in Nibble /\ 0 \in Nibble /\ 1 \in Nibble /\ <<>> \in Seq(Byte)
    BY DEF AckType, Nibble
  <2>2. Len(<<>>) <= PacketSize
    BY SlipAssumption
  <2>3. /\ PacketBytes(AckType, 0, 1, <<>>) \in Packets
        /\ ConvertPacketToBytes(AckType, 0, 1, <<>>) = FrameOf(PacketBytes(AckType, 0, 1, <<>>))
    BY <2>1, <2>2, ConvertFrame
  <2>4. Encoded(k) = ConvertPacketToBytes(AckType, 0, 1, <<>>)
    BY <1>1 DEF Encoded
  <2> QED
    BY <2>3, <2>4, Zenon
<1>2. CASE k \in DOMAIN Payload
  <2> DEFINE seq == (k - 1) % 8
  <2>1. k \in Nat \ {0}
    BY <1>2, SlipAssumption
  <2>2. seq \in Nibble /\ DataType \in Nibble /\ 0 \in Nibble
    BY <2>1 DEF Nibble, DataType
  <2> HIDE DEF seq
  <2>3. Payload[k] \in Seq(Byte) /\ Len(Payload[k]) <= PacketSize
    <3>1. Payload[k] \in Seq(Byte) /\ Len(Payload[k]) \in 1..PacketSize
      BY <1>2, SlipAssumption
    <3> QED
      BY <3>1, SlipAssumption
  <2>4. /\ PacketBytes(DataType, seq, 0, Payload[k]) \in Packets
        /\ ConvertPacketToBytes(DataType, seq, 0, Payload[k])
             = FrameOf(PacketBytes(DataType, seq, 0, Payload[k]))
    BY <2>2, <2>3, ConvertFrame
  <2>5. Encoded(k) = ConvertPacketToBytes(DataType, seq, 0, Payload[k])
    BY <2>1 DEF Encoded, seq
  <2> QED
    BY <2>4, <2>5, Zenon
<1> QED
  BY <1>1, <1>2

-----------------------------------------------------------------------------
\* The line.

Frames == {FrameOf(p) : p \in Packets}

Numbers == {0} \cup DOMAIN Payload

TxTypes ==
  /\ script \in Seq(Numbers) /\ txQueue \in Seq(Numbers)
  /\ txFreeBuffers \in Nat
  /\ pending \in Seq(Frames) /\ txHeld \in Frames \cup {None}
  /\ txPaused \in BOOLEAN /\ dataSent \in BOOLEAN

LineTypes ==
  /\ line \in Seq(Cell) /\ clean \in Seq(BOOLEAN) /\ faults \in Nat

RxTypes ==
  /\ piece \in Nat \ {0}
  /\ rxFreeBuffers \in Nat
  /\ rxQueue \in Seq(Seq(Cell) \ {<<>>}) /\ rxHeld \in Seq(Cell)
  /\ reading \in BOOLEAN /\ rxPaused \in BOOLEAN /\ dataReceived \in BOOLEAN
  /\ rx \in Receivers /\ read \in Seq(Byte)

LEMMA FramesType ==
  ASSUME NEW f \in Frames
  PROVE  f \in Seq(Byte) /\ f # <<>> /\ \A k \in Nat : Tagged(f, k) \in Seq(Cell)
<1>1. PICK p \in Packets : f = FrameOf(p)
  BY DEF Frames
<1>2. f \in Seq(Byte) /\ f # <<>>
  <2>1. 0 \in Nat
    OBVIOUS
  <2> QED
    BY <1>1, <2>1, FrameSplit
<1>3. \A k \in Nat : Tagged(f, k) \in Seq(Cell)
  BY <1>2, TaggedFacts
<1> QED
  BY <1>2, <1>3

LEMMA DamagedType ==
  ASSUME NEW f \in Seq(Byte), NEW d \in Damaged(f)
  PROVE  d \in Seq(Byte)
<1>1. Len(f) \in Nat /\ DOMAIN f = 1..Len(f) /\ Noise \subseteq Byte
  BY SlipAssumption
<1>2. ASSUME NEW i \in 1..Len(f)
      PROVE  /\ SubSeq(f, 1, i - 1) \in Seq(Byte) /\ SubSeq(f, i, Len(f)) \in Seq(Byte)
             /\ SubSeq(f, i + 1, Len(f)) \in Seq(Byte)
  <2>1. \A j \in 1..Len(f) : f[j] \in Byte
    BY ElementOfSeq
  <2>2. \A m, n \in Int : m >= 1 /\ n <= Len(f) => SubSeq(f, m, n) \in Seq(Byte)
    <3> SUFFICES ASSUME NEW m \in Int, NEW n \in Int, m >= 1, n <= Len(f)
                 PROVE  SubSeq(f, m, n) \in Seq(Byte)
      OBVIOUS
    <3>1. \A j \in m..n : f[j] \in Byte
      BY <1>1, <2>1
    <3> QED
      BY <3>1, SubSeqProperties
  <2>3. i \in Int /\ i >= 1 /\ i <= Len(f) /\ i - 1 \in Int /\ i - 1 <= Len(f)
        /\ i + 1 \in Int /\ i + 1 >= 1 /\ Len(f) \in Int /\ 1 \in Int
    BY <1>1
  <2> QED
    BY <2>2, <2>3
<1>3. CASE d \in {RemoveAt(f, i) : i \in DOMAIN f}
  <2>1. PICK i \in 1..Len(f) : d = RemoveAt(f, i)
    BY <1>1, <1>3
  <2>2. d = SubSeq(f, 1, i - 1) \o SubSeq(f, i + 1, Len(f))
    BY <2>1 DEF RemoveAt
  <2> QED
    BY <1>2, <2>2, ConcatProperties
<1>4. CASE d \in {[f EXCEPT ![i] = b] : i \in DOMAIN f, b \in Noise}
  <2>1. PICK i \in 1..Len(f), b \in Byte : d = [f EXCEPT ![i] = b]
    BY <1>1, <1>4
  <2> QED
    BY <2>1, ExceptSeq
<1>5. CASE d \in {InsertAt(f, i, b) : i \in DOMAIN f, b \in Noise}
  <2>1. PICK i \in 1..Len(f), b \in Byte : d = InsertAt(f, i, b)
    BY <1>1, <1>5
  <2>2. d = (SubSeq(f, 1, i - 1) \o <<b>>) \o SubSeq(f, i, Len(f))
    BY <2>1 DEF InsertAt
  <2>3. <<b>> \in Seq(Byte)
    OBVIOUS
  <2>4. SubSeq(f, 1, i - 1) \o <<b>> \in Seq(Byte)
    BY <1>2, <2>3, ConcatProperties
  <2> QED
    BY <1>2, <2>2, <2>4, ConcatProperties
<1> QED
  BY <1>3, <1>4, <1>5 DEF Damaged

\* A callback brings at least one byte, and leaves the rest on the line.
LEMMA PieceFacts ==
  ASSUME NEW s \in Seq(Cell), s # <<>>, NEW m \in Nat \ {0}
  PROVE  LET n == Min({m, Len(s)}) IN
         /\ n \in 1..Len(s)
         /\ SubSeq(s, 1, n) \in Seq(Cell) \ {<<>>} /\ SubSeq(s, n + 1, Len(s)) \in Seq(Cell)
         /\ SubSeq(s, 1, n) \o SubSeq(s, n + 1, Len(s)) = s
<1> DEFINE l == Len(s)
           n == Min({m, l})
<1>1. l \in Nat /\ l >= 1
  BY EmptySeq
<1>2. n \in 1..l
  <2> HIDE DEF l
  <2>1. \E x \in {m, l} : \A y \in {m, l} : x <= y
    BY <1>1
  <2>2. n \in {m, l} /\ \A y \in {m, l} : n <= y
    BY <2>1 DEF Min
  <2> QED
    BY <1>1, <2>2
<1> HIDE DEF n
<1>3. \A i \in 1..l : s[i] \in Cell
  BY ElementOfSeq
<1>4. SubSeq(s, 1, n) \in Seq(Cell) /\ Len(SubSeq(s, 1, n)) = n
  <2>1. \A i \in 1..n : s[i] \in Cell
    BY <1>1, <1>2, <1>3
  <2> QED
    BY <1>1, <1>2, <2>1, SubSeqProperties
<1>5. SubSeq(s, 1, n) # <<>>
  BY <1>1, <1>2, <1>4
<1>6. SubSeq(s, n + 1, l) \in Seq(Cell)
  <2>1. \A i \in (n + 1)..l : s[i] \in Cell
    BY <1>1, <1>2, <1>3
  <2> QED
    BY <1>1, <1>2, <2>1, SubSeqProperties
<1>7. SubSeq(s, 1, n) \o SubSeq(s, n + 1, l) = s
  <2>1. 1 \in 1..(Len(s) + 1) /\ n \in (1 - 1)..Len(s) /\ Len(s) \in n..Len(s)
    BY <1>1, <1>2
  <2>2. SubSeq(s, 1, n) \o SubSeq(s, n + 1, Len(s)) = SubSeq(s, 1, Len(s))
    BY <2>1, ConcatAdjacentSubSeq
  <2>3. SubSeq(s, 1, Len(s)) = s
    BY SubSeqFull
  <2> QED
    BY <2>2, <2>3
<1> QED
  BY <1>2, <1>4, <1>5, <1>6, <1>7 DEF n

\* The counts of BuffersInPlace.
Counts ==
  /\ txFreeBuffers + Len(pending) + (IF txHeld = None THEN 0 ELSE 1) = TxBuffers
  /\ rxFreeBuffers + Len(rxQueue) + (IF rxHeld = None THEN 0 ELSE 1)
       + (IF reading THEN 1 ELSE 0) = RxBuffers

\* Its flags: a buffer that waits to be sent will set dataSent.
Flags ==
  /\ dataSent \/ pending # <<>>
  /\ rxQueue # <<>> => dataReceived
  /\ reading \/ rxQueue # <<>> \/ rxHeld # None

InPlace == TxTypes /\ LineTypes /\ RxTypes /\ Counts /\ Flags

LEMMA InPlaceGivesBuffersInPlace == InPlace => BuffersInPlace
<1> SUFFICES ASSUME InPlace PROVE BuffersInPlace
  OBVIOUS
<1>1. rx \in Receiver /\ Len(rx.recv) + rx.free = RxPackets
  BY DEF InPlace, RxTypes, Receivers
<1> QED
  BY <1>1 DEF InPlace, Counts, Flags, BuffersInPlace

\* InPlace holds at the start, and every step keeps it.
LEMMA InPlaceInit == Init => InPlace
<1> SUFFICES ASSUME Init PROVE InPlace
  OBVIOUS
<1>1. TxTypes
  <2>1. script \in Seq(Numbers)
    BY SlipAssumption DEF Init, Numbers
  <2>2. /\ txQueue \in Seq(Numbers) /\ txFreeBuffers \in Nat /\ pending \in Seq(Frames)
        /\ txHeld = None /\ txPaused = FALSE /\ dataSent = TRUE
    BY SlipAssumption DEF Init
  <2> QED
    BY <2>1, <2>2 DEF TxTypes
<1>2. LineTypes
  BY DEF Init, LineTypes
<1>3. RxTypes
  <2>1. piece \in Nat \ {0}
    BY SlipAssumption DEF Init, SLIPPED_LEN, HeaderLen, CrcLen
  <2>2. rxFreeBuffers \in Nat /\ rxQueue \in Seq(Seq(Cell) \ {<<>>}) /\ rxHeld \in Seq(Cell)
    <3>1. rxFreeBuffers = RxBuffers - 1 /\ rxQueue = <<>> /\ rxHeld = <<>>
      BY DEF Init, None
    <3>2. RxBuffers - 1 \in Nat
      BY SlipAssumption
    <3> QED
      BY <3>1, <3>2
  <2>3. reading \in BOOLEAN /\ rxPaused \in BOOLEAN /\ dataReceived \in BOOLEAN /\ read \in Seq(Byte)
    <3>1. reading = TRUE /\ rxPaused = FALSE /\ dataReceived = FALSE /\ read = <<>>
      BY DEF Init
    <3>2. reading \in BOOLEAN /\ rxPaused \in BOOLEAN /\ dataReceived \in BOOLEAN
      BY <3>1, Zenon
    <3>3. read \in Seq(Byte)
      <4>1. <<>> \in Seq(Byte)
        OBVIOUS
      <4> QED
        BY <3>1, <4>1, Zenon
    <3> QED
      BY <3>2, <3>3
  <2>4. FreshReceiver \in Receivers
    BY SlipAssumption DEF FreshReceiver, Receivers, Receiver
  <2>5. rx \in Receivers
    BY <2>4 DEF Init
  <2> QED
    BY <2>1, <2>2, <2>3, <2>5 DEF RxTypes
<1>4. Counts
  <2>1. /\ txFreeBuffers = TxBuffers /\ pending = <<>> /\ txHeld = None
        /\ rxFreeBuffers = RxBuffers - 1 /\ rxQueue = <<>> /\ rxHeld = None /\ reading
    BY DEF Init
  <2> QED
    BY <2>1, SlipAssumption DEF Counts
<1>5. Flags
  BY DEF Init, Flags
<1> QED
  BY <1>1, <1>2, <1>3, <1>4, <1>5 DEF InPlace

\* The thread and the callback of the sender.
LEMMA InPlaceSend ==
  ASSUME InPlace, Queue \/ FillTake \/ FillPut \/ FillEnd \/ TransmitCallback
  PROVE  InPlace'
<1>1. /\ script \in Seq(Numbers) /\ txQueue \in Seq(Numbers) /\ txFreeBuffers \in Nat
      /\ pending \in Seq(Frames) /\ txHeld \in Frames \cup {None}
      /\ txPaused \in BOOLEAN /\ dataSent \in BOOLEAN
      /\ txFreeBuffers + Len(pending) + (IF txHeld = None THEN 0 ELSE 1) = TxBuffers
      /\ dataSent \/ pending # <<>>
  BY DEF InPlace, TxTypes, Counts, Flags
<1>2. /\ line \in Seq(Cell) /\ clean \in Seq(BOOLEAN) /\ faults \in Nat
  BY DEF InPlace, LineTypes
<1>3. UNCHANGED <<rxVars, piece>>
  BY DEF Queue, FillTake, FillPut, FillEnd, TransmitCallback
<1>4. RxTypes' /\ (rxQueue # <<>> => dataReceived)' /\ (reading \/ rxQueue # <<>> \/ rxHeld # None)'
      /\ (rxFreeBuffers + Len(rxQueue) + (IF rxHeld = None THEN 0 ELSE 1)
           + (IF reading THEN 1 ELSE 0) = RxBuffers)'
  BY <1>3 DEF InPlace, RxTypes, Counts, Flags, rxVars
<1>5. CASE Queue
  <2>1. /\ UNCHANGED <<txFreeBuffers, pending, txHeld, txPaused, dataSent, line, clean, faults>>
        /\ script # <<>> /\ txQueue' = Append(txQueue, Head(script)) /\ script' = Tail(script)
    BY <1>5 DEF Queue, lineVars
  <2>2. txQueue' \in Seq(Numbers) /\ script' \in Seq(Numbers)
    <3>1. Head(script) \in Numbers /\ Tail(script) \in Seq(Numbers)
      BY <1>1, <2>1, HeadTailProperties
    <3> QED
      BY <1>1, <2>1, <3>1, AppendProperties
  <2> QED
    BY <1>1, <1>2, <1>4, <2>1, <2>2 DEF InPlace, TxTypes, LineTypes, Counts, Flags
<1>6. CASE FillTake
  <2>1. /\ UNCHANGED <<script, pending, dataSent, line, clean, faults>>
        /\ txHeld = None /\ txQueue # <<>> /\ txFreeBuffers > 0
        /\ txHeld' = Encoded(Head(txQueue)) /\ txQueue' = Tail(txQueue)
        /\ txFreeBuffers' = txFreeBuffers - 1 /\ txPaused' = (pending = <<>>)
    BY <1>6 DEF FillTake, lineVars
  <2>2. Head(txQueue) \in Numbers /\ txQueue' \in Seq(Numbers)
    BY <1>1, <2>1, HeadTailProperties
  <2>3. txHeld' \in Frames /\ txHeld' # None
    <3>1. \E p \in Packets : Encoded(Head(txQueue)) = FrameOf(p)
      BY <2>2, EncodedFrame DEF Numbers
    <3>2. txHeld' \in Frames
      BY <2>1, <3>1 DEF Frames
    <3> QED
      BY <3>2, FramesType DEF None
  <2>4. txFreeBuffers' \in Nat /\ txFreeBuffers' + Len(pending') + 1 = TxBuffers
    <3>1. Len(pending) \in Nat
      BY <1>1
    <3> QED
      BY <1>1, <2>1, <3>1
  <2>5. txPaused' \in BOOLEAN
    BY <2>1
  <2>6. TxTypes'
    BY <1>1, <2>1, <2>2, <2>3, <2>4, <2>5 DEF TxTypes
  <2>7. LineTypes'
    BY <1>2, <2>1 DEF LineTypes
  <2>8. Counts' /\ Flags'
    BY <1>1, <1>4, <2>1, <2>3, <2>4 DEF Counts, Flags
  <2> QED
    BY <1>4, <2>6, <2>7, <2>8 DEF InPlace
<1>7. CASE FillPut
  <2>1. /\ UNCHANGED <<script, txQueue, txFreeBuffers, dataSent, line, clean, faults>>
        /\ txHeld # None /\ pending' = Append(pending, txHeld) /\ txHeld' = None /\ txPaused' = TRUE
    BY <1>7 DEF FillPut, lineVars
  <2>2. pending' \in Seq(Frames) /\ Len(pending') = Len(pending) + 1 /\ pending' # <<>>
    <3>1. txHeld \in Frames
      BY <1>1, <2>1
    <3> QED
      BY <1>1, <2>1, <3>1, AppendProperties
  <2>3. TxTypes'
    BY <1>1, <2>1, <2>2 DEF TxTypes
  <2>4. LineTypes'
    BY <1>2, <2>1 DEF LineTypes
  <2>5. txFreeBuffers' + Len(pending') + 0 = TxBuffers
    <3>1. Len(pending) \in Nat
      BY <1>1
    <3> QED
      BY <1>1, <2>1, <2>2, <3>1
  <2>6. Counts' /\ Flags'
    BY <1>4, <2>1, <2>2, <2>5 DEF Counts, Flags
  <2> QED
    BY <1>4, <2>3, <2>4, <2>6 DEF InPlace
<1>8. CASE FillEnd
  <2>1. /\ UNCHANGED <<script, txQueue, txFreeBuffers, pending, txHeld, line, clean, faults>>
        /\ txHeld = None /\ txPaused' = FALSE
        /\ dataSent' = (dataSent /\ txFreeBuffers > 0)
    BY <1>8 DEF FillEnd, lineVars
  <2>2. txFreeBuffers > 0 \/ pending # <<>>
    <3>1. txFreeBuffers + Len(pending) = TxBuffers /\ TxBuffers > 0 /\ Len(pending) \in Nat
      BY <1>1, <2>1, SlipAssumption
    <3>2. pending = <<>> => Len(pending) = 0
      OBVIOUS
    <3> QED
      BY <1>1, <3>1, <3>2
  <2>3. (dataSent \/ pending # <<>>)' /\ dataSent' \in BOOLEAN
    BY <1>1, <2>1, <2>2
  <2>4. TxTypes'
    BY <1>1, <2>1, <2>3 DEF TxTypes
  <2>5. LineTypes'
    BY <1>2, <2>1 DEF LineTypes
  <2>6. Counts' /\ Flags'
    BY <1>1, <1>4, <2>1, <2>3 DEF Counts, Flags
  <2> QED
    BY <1>4, <2>4, <2>5, <2>6 DEF InPlace
<1>9. CASE TransmitCallback
  <2>1. /\ UNCHANGED <<script, txQueue, txHeld, txPaused>>
        /\ pending # <<>> /\ pending' = Tail(pending)
        /\ txFreeBuffers' = txFreeBuffers + 1 /\ dataSent' = TRUE
    BY <1>9 DEF TransmitCallback
  <2>2. Head(pending) \in Frames /\ pending' \in Seq(Frames) /\ Len(pending') = Len(pending) - 1
    BY <1>1, <2>1, HeadTailProperties
  <2>3. TxTypes'
    BY <1>1, <2>1, <2>2 DEF TxTypes
  <2>4. LineTypes'
    <3> DEFINE k == Len(clean) + 1
    <3>1. k \in Nat
      BY <1>2
    <3>2. Head(pending) \in Seq(Byte)
      BY <2>2, FramesType
    <3> HIDE DEF k
    <3>3. PICK bytes \in Seq(Byte), c \in BOOLEAN : line' = line \o Tagged(bytes, k) /\ clean' = Append(clean, c)
      <4>1. CASE line' = line \o Tagged(Head(pending), k) /\ clean' = Append(clean, TRUE)
        BY <3>2, <4>1
      <4>2. CASE /\ \E bytes \in Damaged(Head(pending)) \ {Head(pending)} : line' = line \o Tagged(bytes, k)
                 /\ clean' = Append(clean, FALSE)
        BY <3>2, <4>2, DamagedType
      <4> QED
        BY <1>9, <4>1, <4>2 DEF TransmitCallback, k
    <3>4. faults' \in Nat
      <4>1. UNCHANGED faults \/ faults' = faults + 1
        BY <1>9, Zenon DEF TransmitCallback
      <4> QED
        BY <1>2, <4>1
    <3>5. Tagged(bytes, k) \in Seq(Cell)
      BY <3>1, TaggedFacts
    <3>6. line' \in Seq(Cell)
      BY <1>2, <3>3, <3>5, ConcatProperties
    <3>7. clean' \in Seq(BOOLEAN)
      BY <1>2, <3>3, AppendProperties
    <3> QED
      BY <3>4, <3>6, <3>7 DEF LineTypes
  <2>5. txFreeBuffers' + Len(pending') + (IF txHeld' = None THEN 0 ELSE 1) = TxBuffers
    <3>1. Len(pending) \in Nat
      BY <1>1
    <3> QED
      BY <1>1, <2>1, <2>2, <3>1
  <2>6. Counts' /\ Flags'
    BY <1>4, <2>1, <2>5 DEF Counts, Flags
  <2> QED
    BY <1>4, <2>3, <2>4, <2>6 DEF InPlace
<1> QED
  BY <1>5, <1>6, <1>7, <1>8, <1>9

\* The callback and the thread of the receiver, and the application.
LEMMA InPlaceReceive ==
  ASSUME InPlace, ReceiveCallback \/ ProcessTake \/ ProcessPut \/ ProcessEnd \/ AJ_SerialRecv
  PROVE  InPlace'
<1>1. /\ piece \in Nat \ {0} /\ rxFreeBuffers \in Nat
      /\ rxQueue \in Seq(Seq(Cell) \ {<<>>}) /\ rxHeld \in Seq(Cell)
      /\ reading \in BOOLEAN /\ rxPaused \in BOOLEAN /\ dataReceived \in BOOLEAN
      /\ rx \in Receivers /\ read \in Seq(Byte)
      /\ rxFreeBuffers + Len(rxQueue) + (IF rxHeld = None THEN 0 ELSE 1)
           + (IF reading THEN 1 ELSE 0) = RxBuffers
      /\ rxQueue # <<>> => dataReceived
      /\ reading \/ rxQueue # <<>> \/ rxHeld # None
  BY DEF InPlace, RxTypes, Counts, Flags
<1>2. line \in Seq(Cell) /\ clean \in Seq(BOOLEAN) /\ faults \in Nat /\ Len(rxQueue) \in Nat
  BY <1>1 DEF InPlace, LineTypes
<1>3. UNCHANGED <<txVars, piece, clean, faults>>
  BY DEF ReceiveCallback, ProcessTake, ProcessPut, ProcessEnd, AJ_SerialRecv, lineVars
<1>4. TxTypes' /\ (dataSent \/ pending # <<>>)'
      /\ (txFreeBuffers + Len(pending) + (IF txHeld = None THEN 0 ELSE 1) = TxBuffers)'
  BY <1>3 DEF InPlace, TxTypes, Counts, Flags, txVars
<1>5. ASSUME line' \in Seq(Cell) PROVE LineTypes'
  BY <1>2, <1>3, <1>5 DEF LineTypes
<1>6. CASE ReceiveCallback
  <2> DEFINE n == Min({piece, Len(line)})
             head == SubSeq(line, 1, n)
  <2>1. /\ UNCHANGED <<rxHeld, rxPaused, rx, read>>
        /\ line # <<>> /\ reading /\ rxQueue' = Append(rxQueue, head)
        /\ line' = SubSeq(line, n + 1, Len(line))
        /\ reading' = (rxFreeBuffers > 0) /\ rxFreeBuffers' = Max({rxFreeBuffers - 1, 0})
        /\ dataReceived' = TRUE
    BY <1>6 DEF ReceiveCallback
  <2>2. head \in Seq(Cell) \ {<<>>} /\ line' \in Seq(Cell)
    BY <1>1, <1>2, <2>1, PieceFacts
  <2> HIDE DEF head
  <2>3. rxQueue' \in Seq(Seq(Cell) \ {<<>>}) /\ Len(rxQueue') = Len(rxQueue) + 1 /\ rxQueue' # <<>>
    BY <1>1, <2>1, <2>2, AppendProperties
  <2>4. rxFreeBuffers' = IF rxFreeBuffers > 0 THEN rxFreeBuffers - 1 ELSE 0
    <3> DEFINE S == {rxFreeBuffers - 1, 0}
    <3>1. \E x \in S : \A y \in S : x >= y
      BY <1>1
    <3>2. Max(S) \in S /\ \A y \in S : Max(S) >= y
      BY <3>1 DEF Max
    <3> QED
      BY <1>1, <2>1, <3>2
  <2>5. RxTypes'
    BY <1>1, <1>3, <2>1, <2>3, <2>4 DEF RxTypes
  <2>6. rxFreeBuffers' + Len(rxQueue') + (IF rxHeld' = None THEN 0 ELSE 1)
          + (IF reading' THEN 1 ELSE 0) = RxBuffers
    <3> DEFINE h == IF rxHeld = None THEN 0 ELSE 1
    <3>1. h \in Nat /\ (IF rxHeld' = None THEN 0 ELSE 1) = h
      BY <2>1
    <3>2. rxFreeBuffers + Len(rxQueue) + h + 1 = RxBuffers
      BY <1>1, <2>1
    <3> HIDE DEF h
    <3>3. CASE rxFreeBuffers > 0
      <4>1. reading' = TRUE /\ rxFreeBuffers' = rxFreeBuffers - 1
        BY <2>1, <2>4, <3>3
      <4>2. (rxFreeBuffers - 1) + (Len(rxQueue) + 1) + h + 1 = RxBuffers
        BY <1>1, <1>2, <3>1, <3>2
      <4> QED
        BY <2>3, <3>1, <4>1, <4>2
    <3>4. CASE ~(rxFreeBuffers > 0)
      <4>1. ~reading' /\ rxFreeBuffers' = 0
        <5>1. ~reading'
          BY <2>1, <3>4, Zenon
        <5>2. rxFreeBuffers' = 0
          BY <2>4, <3>4
        <5> QED
          BY <5>1, <5>2
      <4>2. 0 + (Len(rxQueue) + 1) + h + 0 = RxBuffers
        BY <1>1, <1>2, <3>1, <3>2, <3>4
      <4> QED
        BY <2>3, <3>1, <4>1, <4>2
    <3> QED
      BY <3>3, <3>4
  <2>7. Counts' /\ Flags'
    BY <1>4, <2>1, <2>3, <2>6 DEF Counts, Flags
  <2> QED
    BY <1>4, <1>5, <2>2, <2>5, <2>7 DEF InPlace
<1>7. CASE ProcessTake
  <2>1. /\ UNCHANGED <<line, rxFreeBuffers, reading, dataReceived, rx, read>>
        /\ rxHeld = None /\ rxQueue # <<>>
        /\ rxHeld' = Head(rxQueue) /\ rxQueue' = Tail(rxQueue) /\ rxPaused' = FALSE
    BY <1>7 DEF ProcessTake, lineVars
  <2>2. /\ rxHeld' \in Seq(Cell) /\ rxHeld' # None /\ rxQueue' \in Seq(Seq(Cell) \ {<<>>})
        /\ Len(rxQueue') = Len(rxQueue) - 1
    BY <1>1, <2>1, HeadTailProperties DEF None
  <2>3. RxTypes'
    BY <1>1, <1>3, <2>1, <2>2 DEF RxTypes
  <2>4. rxFreeBuffers' + Len(rxQueue') + (IF rxHeld' = None THEN 0 ELSE 1)
          + (IF reading' THEN 1 ELSE 0) = RxBuffers
    BY <1>1, <1>2, <2>1, <2>2
  <2>5. Counts' /\ Flags'
    BY <1>1, <1>4, <2>1, <2>2, <2>4 DEF Counts, Flags
  <2> QED
    BY <1>2, <1>4, <1>5, <2>1, <2>3, <2>5 DEF InPlace
<1>8. CASE ProcessPut
  <2>1. /\ UNCHANGED <<line, rxQueue, dataReceived, read>>
        /\ rxHeld # None /\ rx' = UART_RxComplete(rx, rxHeld) /\ rxHeld' = None
        /\ rxPaused' = TRUE /\ reading' = TRUE
        /\ rxFreeBuffers' = IF reading THEN rxFreeBuffers + 1 ELSE rxFreeBuffers
    BY <1>8 DEF ProcessPut, lineVars
  <2>2. rx' \in Receivers
    <3>1. [byte |-> 0, frame |-> 0] \in Cell
      BY DEF Cell, Byte
    <3> QED
      BY <1>1, <2>1, <3>1, CompleteFacts
  <2>3. RxTypes'
    BY <1>1, <1>3, <2>1, <2>2 DEF RxTypes, None
  <2>4. rxFreeBuffers' + Len(rxQueue') + (IF rxHeld' = None THEN 0 ELSE 1)
          + (IF reading' THEN 1 ELSE 0) = RxBuffers
    <3>1. reading' = TRUE /\ rxHeld' = None /\ rxQueue' = rxQueue
      BY <2>1
    <3>2. rxFreeBuffers + Len(rxQueue) + 1 + (IF reading THEN 1 ELSE 0) = RxBuffers
      BY <1>1, <2>1
    <3>3. rxFreeBuffers' + Len(rxQueue) + 0 + 1 = RxBuffers
      <4>1. CASE reading
        BY <1>1, <1>2, <2>1, <3>2, <4>1
      <4>2. CASE ~reading
        BY <1>1, <1>2, <2>1, <3>2, <4>2
      <4> QED
        BY <4>1, <4>2
    <3> QED
      BY <3>1, <3>3
  <2>5. Counts' /\ Flags'
    BY <1>1, <1>4, <2>1, <2>4 DEF Counts, Flags
  <2> QED
    BY <1>2, <1>4, <1>5, <2>1, <2>3, <2>5 DEF InPlace
<1>9. CASE ProcessEnd
  <2>1. /\ UNCHANGED <<line, rxFreeBuffers, reading, rxQueue, rxHeld, rx, read>>
        /\ dataReceived' = (rxQueue # <<>> /\ dataReceived) /\ rxPaused' = FALSE
    BY <1>9 DEF ProcessEnd, lineVars
  <2>2. RxTypes'
    BY <1>1, <1>3, <2>1 DEF RxTypes
  <2>3. Counts' /\ Flags'
    BY <1>1, <1>4, <2>1 DEF Counts, Flags
  <2> QED
    BY <1>2, <1>4, <1>5, <2>1, <2>2, <2>3 DEF InPlace
<1>10. CASE AJ_SerialRecv
  <2> DEFINE there == FlattenSeq(rx.recv)
  <2>1. UNCHANGED <<line, rxFreeBuffers, reading, rxQueue, rxHeld, rxPaused, dataReceived>>
    BY <1>10 DEF AJ_SerialRecv, lineVars
  <2>2. there \in Seq(Byte) /\ Len(there) \in Nat
    <3>1. rx.recv \in Seq(Seq(Byte)) /\ <<>> \in Seq(Byte)
      BY <1>1 DEF Receivers, Receiver
    <3> QED
      BY <3>1, FlattenFacts
  <2> HIDE DEF there
  <2>3. PICK k \in Reads : /\ read' = read \o SubSeq(there, 1, Min({k, Len(there)}))
                           /\ rx' = Read(rx, Min({k, Len(there)}))
    BY <1>10 DEF AJ_SerialRecv, there
  <2> DEFINE n == Min({k, Len(there)})
  <2>4. n \in 0..Len(there)
    <3>1. k \in Nat
      BY SlipAssumption
    <3>2. \E x \in {k, Len(there)} : \A y \in {k, Len(there)} : x <= y
      BY <2>2, <3>1
    <3>3. n \in {k, Len(there)} /\ \A y \in {k, Len(there)} : n <= y
      BY <3>2 DEF Min
    <3> QED
      BY <2>2, <3>1, <3>3
  <2> HIDE DEF n
  <2>5. rx' \in Receivers
    <3>1. n \in Nat
      BY <2>2, <2>4
    <3>2. \A m \in Nat : Read(rx, m) \in Receivers
      BY <1>1, ReadType
    <3>3. rx' = Read(rx, n)
      BY <2>3 DEF n
    <3> QED
      BY <3>1, <3>2, <3>3, Zenon
  <2>6. read' \in Seq(Byte)
    <3>1. \A i \in 1..n : there[i] \in Byte
      BY <2>2, <2>4, ElementOfSeq
    <3>2. SubSeq(there, 1, n) \in Seq(Byte)
      BY <2>2, <2>4, <3>1, SubSeqProperties
    <3> QED
      BY <1>1, <2>3, <3>2, ConcatProperties DEF n
  <2>7. RxTypes'
    BY <1>1, <1>3, <2>1, <2>5, <2>6 DEF RxTypes
  <2>8. Counts' /\ Flags'
    BY <1>1, <1>4, <2>1 DEF Counts, Flags
  <2> QED
    BY <1>2, <1>4, <1>5, <2>1, <2>7, <2>8 DEF InPlace
<1> QED
  BY <1>6, <1>7, <1>8, <1>9, <1>10

LEMMA InPlaceNext == InPlace /\ [Next]_vars => InPlace'
<1> SUFFICES ASSUME InPlace, [Next]_vars PROVE InPlace'
  OBVIOUS
<1>1. CASE Next
  BY <1>1, InPlaceSend, InPlaceReceive DEF Next
<1>2. CASE UNCHANGED vars
  BY <1>2 DEF InPlace, TxTypes, LineTypes, RxTypes, Counts, Flags, vars, txVars, lineVars, rxVars
<1> QED
  BY <1>1, <1>2

LEMMA AlwaysInPlace == Spec => []InPlace
<1>1. Init => InPlace
  BY InPlaceInit
<1>2. InPlace /\ [Next]_vars => InPlace'
  BY InPlaceNext
<1> QED
  BY <1>1, <1>2, PTL DEF Spec

\* No buffer and no packet is lost or used twice, for any number of them, whatever the line
\* does to the bytes and wherever the callbacks come between the steps of the threads, and
\* the flags that wake the threads are set when there is work for them.
THEOREM BuffersAlwaysInPlace == Spec => []BuffersInPlace
<1>1. InPlace => BuffersInPlace
  BY InPlaceGivesBuffersInPlace
<1> QED
  BY <1>1, AlwaysInPlace, PTL

-----------------------------------------------------------------------------
\* Which frames the receiver has heard.

\* FlattenSeq taken apart at the front, and in the middle.
LEMMA FlattenHead ==
  ASSUME NEW E, NEW seq \in Seq(Seq(E)), seq # <<>>
  PROVE  FlattenSeq(seq) = Head(seq) \o FlattenSeq(Tail(seq))
<1> DEFINE S == {s \in Seq(Seq(E)) : s # <<>> => FlattenSeq(s) = Head(s) \o FlattenSeq(Tail(s))}
<1>1. FlattenSeq(<<>>) = <<>>
  BY DEF FlattenSeq
<1>2. <<>> \in S
  OBVIOUS
<1>3. ASSUME NEW s \in Seq(Seq(E)), NEW x \in Seq(E), s \in S PROVE Append(s, x) \in S
  <2>1. FlattenSeq(Append(s, x)) = FlattenSeq(s) \o x
    BY FlattenFacts
  <2>2. CASE s = <<>>
    <3>1. FlattenSeq(Append(s, x)) = x
      BY <1>1, <2>1, <2>2, ConcatEmptySeq
    <3>2. Head(Append(s, x)) = x /\ Tail(Append(s, x)) = <<>>
      BY <2>2
    <3>3. x \o <<>> = x
      OBVIOUS
    <3>4. FlattenSeq(Append(s, x)) = Head(Append(s, x)) \o FlattenSeq(Tail(Append(s, x)))
      BY <1>1, <3>1, <3>2, <3>3
    <3>5. Append(s, x) \in Seq(Seq(E))
      BY AppendProperties
    <3> QED
      BY <3>4, <3>5
  <2>3. CASE s # <<>>
    <3> DEFINE h == Head(s)
               t == Tail(s)
    <3>1. h \in Seq(E) /\ t \in Seq(Seq(E))
      BY <2>3, HeadTailProperties
    <3>2. FlattenSeq(s) = h \o FlattenSeq(t)
      BY <1>3, <2>3
    <3>3. Head(Append(s, x)) = h /\ Tail(Append(s, x)) = Append(t, x)
      BY <2>3, HeadTailAppend
    <3> HIDE DEF h, t
    <3>4. FlattenSeq(Append(t, x)) = FlattenSeq(t) \o x /\ FlattenSeq(t) \in Seq(E)
      BY <3>1, FlattenFacts
    <3>5. (h \o FlattenSeq(t)) \o x = h \o (FlattenSeq(t) \o x)
      <4>1. \A u, v, w \in Seq(E) : Regroups(u, v, w)
        BY Assoc, Zenon
      <4>2. Regroups(h, FlattenSeq(t), x)
        BY <3>1, <3>4, <4>1, Zenon
      <4> QED
        BY <4>2 DEF Regroups
    <3>6. FlattenSeq(Append(s, x)) = Head(Append(s, x)) \o FlattenSeq(Tail(Append(s, x)))
      BY <2>1, <3>2, <3>3, <3>4, <3>5, Zenon
    <3>7. Append(s, x) \in Seq(Seq(E))
      BY AppendProperties
    <3> QED
      BY <3>6, <3>7
  <2> QED
    BY <2>2, <2>3
<1>4. \A s \in Seq(Seq(E)), x \in Seq(E) : s \in S => Append(s, x) \in S
  BY <1>3
<1>5. seq \in S
  <2> HIDE DEF S
  <2> QED
    BY <1>2, <1>4, SeqInduct
<1> QED
  BY <1>5

LEMMA FlattenConcat ==
  ASSUME NEW E, NEW a \in Seq(Seq(E)), NEW b \in Seq(Seq(E))
  PROVE  FlattenSeq(a \o b) = FlattenSeq(a) \o FlattenSeq(b)
<1>00. \A u, v, w \in Seq(E) : Regroups(u, v, w)
  BY Assoc, Zenon
<1> DEFINE S == {s \in Seq(Seq(E)) : FlattenSeq(a \o s) = FlattenSeq(a) \o FlattenSeq(s)}
<1>0. \A s \in Seq(Seq(E)) : FlattenSeq(s) \in Seq(E)
  <2>1. <<>> \in Seq(E)
    OBVIOUS
  <2> QED
    BY <2>1, FlattenFacts
<1>1. <<>> \in S
  <2>1. FlattenSeq(<<>>) = <<>>
    BY DEF FlattenSeq
  <2>2. a \o <<>> = a
    OBVIOUS
  <2>3. FlattenSeq(a) \o <<>> = FlattenSeq(a)
    BY <1>0, ConcatEmptySeq
  <2>4. FlattenSeq(a \o <<>>) = FlattenSeq(a) \o FlattenSeq(<<>>)
    BY <2>1, <2>2, <2>3
  <2> QED
    BY <2>4
<1>2. ASSUME NEW s \in Seq(Seq(E)), NEW x \in Seq(E), s \in S PROVE Append(s, x) \in S
  <2>1. a \o Append(s, x) = Append(a \o s, x) /\ a \o s \in Seq(Seq(E)) /\ Append(s, x) \in Seq(Seq(E))
    BY SMTT(30)
  <2>2. FlattenSeq(Append(a \o s, x)) = FlattenSeq(a \o s) \o x
    BY <2>1, FlattenFacts
  <2>3. FlattenSeq(Append(s, x)) = FlattenSeq(s) \o x
    BY FlattenFacts
  <2>4. FlattenSeq(a \o s) = FlattenSeq(a) \o FlattenSeq(s)
    BY <1>2
  <2>5. (FlattenSeq(a) \o FlattenSeq(s)) \o x = FlattenSeq(a) \o (FlattenSeq(s) \o x)
    <3>1. FlattenSeq(a) \in Seq(E) /\ FlattenSeq(s) \in Seq(E)
      BY <1>0
    <3>2. Regroups(FlattenSeq(a), FlattenSeq(s), x)
      BY <1>00, <3>1, Zenon
    <3> QED
      BY <3>2 DEF Regroups
  <2>6. FlattenSeq(a \o Append(s, x)) = FlattenSeq(a) \o FlattenSeq(Append(s, x))
    BY <2>1, <2>2, <2>3, <2>4, <2>5, Zenon
  <2> QED
    BY <2>1, <2>6
<1>3. \A s \in Seq(Seq(E)), x \in Seq(E) : s \in S => Append(s, x) \in S
  BY <1>2
<1>4. b \in S
  <2> HIDE DEF S
  <2> QED
    BY <1>1, <1>3, SeqInduct
<1> QED
  BY <1>4

Begins(s, start) == \E e \in Seq(Cell) : s = start \o e

\* Of two ways to cut a sequence in two, the longer first part begins with the shorter.
LEMMA LongerPart ==
  ASSUME NEW a \in Seq(Cell), NEW b \in Seq(Cell), NEW c \in Seq(Cell), NEW d \in Seq(Cell),
         a \o b = c \o d, Len(c) <= Len(a)
  PROVE  Begins(a, c)
<1> DEFINE l == Len(a)
           m == Len(c)
           e == SubSeq(a, m + 1, l)
<1>1. l \in Nat /\ m \in Nat /\ Len(b) \in Nat /\ Len(d) \in Nat /\ m <= l
  OBVIOUS
<1>2. \A i \in 1..(l + Len(b)) : (a \o b)[i] = IF i <= l THEN a[i] ELSE b[i - l]
  BY ConcatProperties
<1>3. \A i \in 1..(m + Len(d)) : (c \o d)[i] = IF i <= m THEN c[i] ELSE d[i - m]
  BY ConcatProperties
<1> HIDE DEF l, m
<1>4. /\ e \in Seq(Cell) /\ Len(e) = l - m
      /\ \A i \in 1..(l - m) : e[i] = a[i + m]
  <2>1. \A i \in (m + 1)..l : a[i] \in Cell
    BY <1>1, ElementOfSeq DEF l
  <2>2. /\ e \in Seq(Cell) /\ Len(e) = IF m + 1 <= l THEN l - (m + 1) + 1 ELSE 0
        /\ \A i \in 1..(l - (m + 1) + 1) : e[i] = a[(m + 1) + i - 1]
    BY <1>1, <2>1, SubSeqProperties, SMTT(30)
  <2> HIDE DEF e
  <2>3. ASSUME NEW i \in 1..(l - m) PROVE e[i] = a[i + m]
    <3>1. i \in 1..(l - (m + 1) + 1) /\ (m + 1) + i - 1 = i + m
      BY <1>1
    <3> QED
      BY <2>2, <3>1
  <2>4. Len(e) = l - m
    BY <1>1, <2>2
  <2> QED
    BY <2>2, <2>3, <2>4
<1> HIDE DEF e
<1>5. /\ c \o e \in Seq(Cell) /\ Len(c \o e) = l
      /\ \A i \in 1..l : (c \o e)[i] = IF i <= m THEN c[i] ELSE e[i - m]
  <2>1. /\ c \o e \in Seq(Cell) /\ Len(c \o e) = m + (l - m)
        /\ \A i \in 1..(m + (l - m)) : (c \o e)[i] = IF i <= m THEN c[i] ELSE e[i - m]
    <3>1. /\ c \o e \in Seq(Cell) /\ Len(c \o e) = Len(c) + Len(e)
          /\ \A i \in 1..(Len(c) + Len(e)) : (c \o e)[i] = IF i <= Len(c) THEN c[i] ELSE e[i - Len(c)]
      BY <1>4, ConcatProperties
    <3>2. Len(c) = m /\ Len(e) = l - m
      BY <1>4 DEF m
    <3> QED
      BY <3>1, <3>2
  <2>2. m + (l - m) = l
    BY <1>1
  <2> QED
    BY <2>1, <2>2
<1>6. ASSUME NEW i \in 1..l PROVE a[i] = (c \o e)[i]
  <2>1. CASE i <= m
    <3>1. a[i] = (a \o b)[i]
      <4>1. i \in 1..(l + Len(b)) /\ i <= l
        BY <1>1
      <4> QED
        BY <1>2, <4>1
    <3>2. c[i] = (c \o d)[i]
      <4>1. i \in 1..(m + Len(d))
        BY <1>1, <2>1
      <4> QED
        BY <1>3, <2>1, <4>1
    <3> QED
      BY <1>5, <2>1, <3>1, <3>2
  <2>2. CASE ~(i <= m)
    <3>1. i - m \in 1..(l - m) /\ (i - m) + m = i
      BY <1>1, <2>2
    <3>2. e[i - m] = a[(i - m) + m]
      BY <1>4, <3>1
    <3> QED
      BY <1>5, <2>2, <3>1, <3>2
  <2> QED
    BY <2>1, <2>2
<1>7. Len(a) = l
  BY DEF l
<1>8. a = c \o e
  BY <1>5, <1>6, <1>7, SeqEqual
<1> QED
  BY <1>4, <1>8 DEF Begins

\* Receivers that find the same frames in what comes.
Same(a, b) ==
  /\ a.state = b.state /\ a.heard = b.heard
  /\ a.state \in {"OPEN", "ESCAPE"} => a.buf = b.buf

\* Reading what has been received does not change what is found in the bytes to come.
LEMMA SameByte ==
  ASSUME NEW a \in Receivers, NEW b \in Receivers, Same(a, b), NEW c \in Cell
  PROVE  Same(ReceiveByte(a, c), ReceiveByte(b, c))
<1>1. a \in Receiver /\ b \in Receiver /\ a.state \in {"NEW", "OPEN", "ESCAPE", "FLUSH"}
      /\ b.state = a.state /\ b.heard = a.heard
  BY DEF Receivers, Receiver, Same
<1>2. Same(AtNew(a, c), AtNew(b, c))
  <2> DEFINE s == IF c.byte = BOUNDARY_BYTE THEN "OPEN" ELSE "FLUSH"
  <2>1. /\ AtNew(a, c).state = s /\ AtNew(a, c).heard = a.heard /\ AtNew(a, c).buf = <<>>
        /\ AtNew(b, c).state = s /\ AtNew(b, c).heard = b.heard /\ AtNew(b, c).buf = <<>>
    BY <1>1 DEF AtNew, Receiver
  <2> HIDE DEF s
  <2> QED
    BY <1>1, <2>1 DEF Same
<1>3. CASE a.state = "FLUSH"
  <2> DEFINE s == IF c.byte = BOUNDARY_BYTE THEN "NEW" ELSE "FLUSH"
  <2>1. ReceiveByte(a, c) = [a EXCEPT !.state = s] /\ ReceiveByte(b, c) = [b EXCEPT !.state = s]
    BY <1>1, <1>3 DEF ReceiveByte
  <2>2. s \notin {"OPEN", "ESCAPE"}
    OBVIOUS
  <2> HIDE DEF s
  <2> QED
    BY <1>1, <2>1, <2>2 DEF Same, Receiver
<1>4. CASE a.state = "NEW"
  BY <1>1, <1>2, <1>4 DEF ReceiveByte
<1>5. CASE a.state = "ESCAPE"
  <2>1. ReceiveByte(a, c) = AtEscape(a, c) /\ ReceiveByte(b, c) = AtEscape(b, c) /\ a.buf = b.buf
    BY <1>1, <1>5 DEF ReceiveByte, Same
  <2> DEFINE plain == {p \in {BOUNDARY_BYTE, ESCAPE_BYTE} : Escaped(p) = <<ESCAPE_BYTE, c.byte>>}
             d == [c EXCEPT !.byte = CHOOSE p \in plain : TRUE]
  <2>2. /\ AtEscape(a, c) = IF plain = {} THEN AtNew(a, c)
                            ELSE [a EXCEPT !.state = "OPEN", !.buf = Append(@, d)]
        /\ AtEscape(b, c) = IF plain = {} THEN AtNew(b, c)
                            ELSE [b EXCEPT !.state = "OPEN", !.buf = Append(@, d)]
    BY DEF AtEscape
  <2> HIDE DEF plain, d
  <2>3. Same([a EXCEPT !.state = "OPEN", !.buf = Append(@, d)], [b EXCEPT !.state = "OPEN", !.buf = Append(@, d)])
    BY <1>1, <2>1 DEF Same, Receiver
  <2> QED
    BY <1>2, <2>1, <2>2, <2>3
<1>6. CASE a.state = "OPEN"
  <2> DEFINE x == [a EXCEPT !.state = "NEW"]
             y == [b EXCEPT !.state = "NEW"]
  <2>1. ReceiveByte(a, c) = AtOpen(a, c) /\ ReceiveByte(b, c) = AtOpen(b, c) /\ a.buf = b.buf
    BY <1>1, <1>6 DEF ReceiveByte, Same
  <2>2. /\ x \in Receivers /\ y \in Receivers /\ x.state = "NEW" /\ y.state = "NEW"
        /\ x.heard = a.heard /\ y.heard = b.heard /\ x.buf = a.buf /\ y.buf = b.buf
    BY <1>1 DEF Receivers, Receiver
  <2>3. Same(x, y)
    <3> HIDE DEF x, y
    <3> QED
      BY <1>1, <2>2 DEF Same
  <2>4. Same(CompletePacket(x), CompletePacket(y))
    <3> HIDE DEF x, y
    <3>1. \A z \in Receivers : /\ CompletePacket(z).state = z.state
                               /\ CompletePacket(z).heard = IF Intact(Bytes(z.buf)) THEN z.heard \cup {z.buf[1].frame}
                                                            ELSE z.heard
      BY CompletePacketFacts
    <3>2. /\ CompletePacket(x).state = "NEW" /\ CompletePacket(y).state = "NEW"
      BY <2>2, <3>1
    <3>3. CompletePacket(x).heard = CompletePacket(y).heard
      BY <1>1, <2>1, <2>2, <3>1
    <3> QED
      BY <3>2, <3>3 DEF Same
  <2>5. /\ Same([a EXCEPT !.state = "ESCAPE"], [b EXCEPT !.state = "ESCAPE"])
        /\ Same([a EXCEPT !.buf = Append(@, c)], [b EXCEPT !.buf = Append(@, c)])
    BY <1>1, <2>1 DEF Same, Receiver
  <2>6. CASE c.byte = BOUNDARY_BYTE
    <3>1. AtOpen(a, c) = CompletePacket(x) /\ AtOpen(b, c) = CompletePacket(y)
      BY <2>6 DEF AtOpen, BOUNDARY_BYTE, ESCAPE_BYTE
    <3> HIDE DEF x, y
    <3> QED
      BY <2>1, <2>4, <3>1
  <2>7. CASE c.byte = ESCAPE_BYTE
    <3>1. AtOpen(a, c) = [a EXCEPT !.state = "ESCAPE"] /\ AtOpen(b, c) = [b EXCEPT !.state = "ESCAPE"]
      BY <2>7 DEF AtOpen, BOUNDARY_BYTE, ESCAPE_BYTE
    <3> QED
      BY <2>1, <2>5, <3>1
  <2>8. CASE c.byte # BOUNDARY_BYTE /\ c.byte # ESCAPE_BYTE
    <3>1. /\ AtOpen(a, c) = IF Len(a.buf) = maxRxFrameSize THEN x ELSE [a EXCEPT !.buf = Append(@, c)]
          /\ AtOpen(b, c) = IF Len(b.buf) = maxRxFrameSize THEN y ELSE [b EXCEPT !.buf = Append(@, c)]
      BY <2>8 DEF AtOpen
    <3> HIDE DEF x, y
    <3> QED
      BY <2>1, <2>3, <2>5, <3>1
  <2> QED
    BY <2>6, <2>7, <2>8
<1> QED
  BY <1>1, <1>3, <1>4, <1>5, <1>6

LEMMA SameBytes ==
  ASSUME NEW a \in Receivers, NEW b \in Receivers, Same(a, b), NEW bytes \in Seq(Cell)
  PROVE  Same(UART_RxComplete(a, bytes), UART_RxComplete(b, bytes))
<1> DEFINE S == {s \in Seq(Cell) : Same(UART_RxComplete(a, s), UART_RxComplete(b, s))}
<1>0. [byte |-> 0, frame |-> 0] \in Cell /\ <<>> \in Seq(Cell)
  BY DEF Cell, Byte
<1>1. <<>> \in S
  <2>1. UART_RxComplete(a, <<>>) = a /\ UART_RxComplete(b, <<>>) = b
    BY <1>0, CompleteFacts
  <2> QED
    BY <1>0, <2>1
<1>2. ASSUME NEW s \in Seq(Cell), NEW c \in Cell, s \in S PROVE Append(s, c) \in S
  <2> DEFINE x == UART_RxComplete(a, s)
             y == UART_RxComplete(b, s)
  <2>1. /\ x \in Receivers /\ UART_RxComplete(a, Append(s, c)) = ReceiveByte(x, c)
        /\ y \in Receivers /\ UART_RxComplete(b, Append(s, c)) = ReceiveByte(y, c)
    BY CompleteFacts
  <2>2. Same(x, y)
    BY <1>2
  <2>3. Append(s, c) \in Seq(Cell)
    BY AppendProperties
  <2>4. Same(ReceiveByte(x, c), ReceiveByte(y, c))
    <3> HIDE DEF x, y
    <3> QED
      BY <2>1, <2>2, SameByte
  <2>5. Same(UART_RxComplete(a, Append(s, c)), UART_RxComplete(b, Append(s, c)))
    <3> HIDE DEF x, y
    <3> QED
      BY <2>1, <2>4
  <2> QED
    BY <2>3, <2>5
<1>3. \A s \in Seq(Cell), c \in Cell : s \in S => Append(s, c) \in S
  BY <1>2
<1>4. bytes \in S
  <2> HIDE DEF S
  <2> QED
    BY <1>1, <1>3, SeqInduct
<1> QED
  BY <1>4

\* The first frames of a sequence, and the rest.
LEMMA FirstFrames ==
  ASSUME NEW E, NEW F \in Seq(Seq(E)), NEW k \in 1..Len(F)
  PROVE  /\ SubSeq(F, 1, k - 1) \in Seq(Seq(E)) /\ F[k] \in Seq(E)
         /\ FlattenSeq(SubSeq(F, 1, k - 1)) \in Seq(E)
         /\ FlattenSeq(SubSeq(F, 1, k)) = FlattenSeq(SubSeq(F, 1, k - 1)) \o F[k]
         /\ \E rest \in Seq(E) : FlattenSeq(F) = FlattenSeq(SubSeq(F, 1, k)) \o rest
<1> DEFINE n == Len(F)
<1>1. n \in Nat /\ k \in 1..n
  OBVIOUS
<1>2. \A i \in 1..n : F[i] \in Seq(E)
  BY ElementOfSeq
<1>3. \A i, j \in Int : i >= 1 /\ j <= n => SubSeq(F, i, j) \in Seq(Seq(E))
  <2> SUFFICES ASSUME NEW i \in Int, NEW j \in Int, i >= 1, j <= n
               PROVE  SubSeq(F, i, j) \in Seq(Seq(E))
    OBVIOUS
  <2>1. \A m \in i..j : F[m] \in Seq(E)
    BY <1>1, <1>2
  <2> QED
    BY <2>1, SubSeqProperties
<1>4. /\ SubSeq(F, 1, k - 1) \in Seq(Seq(E)) /\ SubSeq(F, 1, k) \in Seq(Seq(E))
      /\ SubSeq(F, k + 1, n) \in Seq(Seq(E)) /\ F[k] \in Seq(E)
  <2>1. /\ 1 \in Int /\ k - 1 \in Int /\ k \in Int /\ k + 1 \in Int /\ n \in Int
        /\ 1 >= 1 /\ k - 1 <= n /\ k <= n /\ k + 1 >= 1 /\ n <= n
    BY <1>1
  <2> QED
    BY <1>1, <1>2, <1>3, <2>1
<1>5. SubSeq(F, 1, k) = Append(SubSeq(F, 1, k - 1), F[k])
  <2>1. 1 \in 1..Len(F) /\ k \in 1..Len(F)
    BY <1>1
  <2>2. SubSeq(F, 1, k) = SubSeq(F, 1, k - 1) \o <<F[k]>>
    BY <2>1, SubSeqRecursiveSecond
  <2>3. Append(SubSeq(F, 1, k - 1), F[k]) = SubSeq(F, 1, k - 1) \o <<F[k]>>
    BY <1>4, AppendIsConcat
  <2> QED
    BY <2>2, <2>3
<1>6. SubSeq(F, 1, k) \o SubSeq(F, k + 1, n) = F
  <2>1. 1 \in 1..(Len(F) + 1) /\ k \in (1 - 1)..Len(F) /\ Len(F) \in k..Len(F)
    BY <1>1
  <2>2. SubSeq(F, 1, k) \o SubSeq(F, k + 1, Len(F)) = SubSeq(F, 1, Len(F))
    BY <2>1, ConcatAdjacentSubSeq
  <2>3. SubSeq(F, 1, Len(F)) = F
    BY SubSeqFull
  <2> QED
    BY <2>2, <2>3, Zenon
<1> HIDE DEF n
<1>7. /\ FlattenSeq(SubSeq(F, 1, k - 1)) \in Seq(E)
      /\ FlattenSeq(SubSeq(F, 1, k)) = FlattenSeq(SubSeq(F, 1, k - 1)) \o F[k]
  BY <1>4, <1>5, FlattenFacts
<1>8. FlattenSeq(F) = FlattenSeq(SubSeq(F, 1, k)) \o FlattenSeq(SubSeq(F, k + 1, n))
  <2>1. FlattenSeq(SubSeq(F, 1, k) \o SubSeq(F, k + 1, n))
          = FlattenSeq(SubSeq(F, 1, k)) \o FlattenSeq(SubSeq(F, k + 1, n))
    BY <1>4, FlattenConcat
  <2> QED
    BY <1>6, <2>1
<1>9. FlattenSeq(SubSeq(F, k + 1, n)) \in Seq(E)
  BY <1>4, FlattenFacts
<1> QED
  BY <1>4, <1>7, <1>8, <1>9

\* What is between the line and the decoder, in the order it was sent.
ToCome == (rxHeld \o FlattenSeq(rxQueue)) \o line

\* F has what was put on the line for each frame, past what the decoder has had of it: the
\* frame itself if it was not damaged, and the receiver is where all that takes it.
Sent(F, past) ==
  /\ Len(F) = Len(clean)
  /\ \A k \in 1..Len(clean) : clean[k] => \E p \in Packets : F[k] = Tagged(FrameOf(p), k)
  /\ FlattenSeq(F) = past \o ToCome
  /\ Same(rx, UART_RxComplete(FreshReceiver, past))

History == \E F \in Seq(Seq(Cell)), past \in Seq(Cell) : Sent(F, past)

LEMMA ToComeType == InPlace => ToCome \in Seq(Cell) /\ FlattenSeq(rxQueue) \in Seq(Cell)
                                 /\ rxQueue \in Seq(Seq(Cell))
<1> SUFFICES ASSUME InPlace
             PROVE  ToCome \in Seq(Cell) /\ FlattenSeq(rxQueue) \in Seq(Cell) /\ rxQueue \in Seq(Seq(Cell))
  OBVIOUS
<1>1. rxQueue \in Seq(Seq(Cell) \ {<<>>}) /\ rxHeld \in Seq(Cell) /\ line \in Seq(Cell)
  BY DEF InPlace, RxTypes, LineTypes
<1>2. rxQueue \in Seq(Seq(Cell))
  <2>1. Seq(Cell) \ {<<>>} \subseteq Seq(Cell)
    OBVIOUS
  <2> QED
    BY <1>1, <2>1, SeqMonotonic
<1>3. FlattenSeq(rxQueue) \in Seq(Cell)
  BY <1>1, <1>2, FlattenFacts
<1>4. rxHeld \o FlattenSeq(rxQueue) \in Seq(Cell)
  BY <1>1, <1>3, ConcatProperties
<1>5. ToCome \in Seq(Cell)
  BY <1>1, <1>4, ConcatProperties DEF ToCome
<1> QED
  BY <1>2, <1>3, <1>5

LEMMA FreshType == FreshReceiver \in Receivers /\ FreshReceiver.state = "NEW" /\ FreshReceiver.heard = {}
  BY SlipAssumption DEF FreshReceiver, Receivers, Receiver

\* Every byte of a frame has its number, and the last has gone through the decoder when no
\* byte with that number is to come.
LEMMA FramePassed ==
  ASSUME NEW past \in Seq(Cell), NEW toCome \in Seq(Cell), NEW before \in Seq(Cell),
         NEW rest \in Seq(Cell), NEW p \in Packets, NEW k \in Nat,
         past \o toCome = (before \o Tagged(FrameOf(p), k)) \o rest,
         \A i \in DOMAIN toCome : toCome[i].frame # k
  PROVE  Begins(past, before \o Tagged(FrameOf(p), k))
<1> DEFINE f == Tagged(FrameOf(p), k)
           g == before \o f
<1>1. /\ f \in Seq(Cell) /\ Len(f) \in Nat /\ Len(f) >= 1
      /\ \A i \in 1..Len(f) : f[i].frame = k
  <2>1. FrameOf(p) \in Seq(Byte) /\ FrameOf(p) # <<>>
    BY FrameSplit
  <2>2. Len(FrameOf(p)) \in Nat /\ Len(FrameOf(p)) >= 1
    BY <2>1, EmptySeq
  <2>3. f \in Seq(Cell) /\ Len(f) = Len(FrameOf(p)) /\ \A i \in 1..Len(FrameOf(p)) : f[i] = At(FrameOf(p)[i], k)
    BY <2>1, TaggedFacts
  <2> HIDE DEF f
  <2>4. \A i \in 1..Len(f) : f[i].frame = k
    <3>1. \A b : At(b, k).frame = k
      BY DEF At
    <3> QED
      BY <2>3, <3>1, Zenon
  <2> QED
    BY <2>2, <2>3, <2>4
<1> HIDE DEF f
<1>2. /\ g \in Seq(Cell) /\ Len(g) = Len(before) + Len(f)
      /\ \A i \in 1..(Len(before) + Len(f)) : g[i] = IF i <= Len(before) THEN before[i] ELSE f[i - Len(before)]
  BY <1>1, ConcatProperties
<1>3. Len(before) \in Nat /\ Len(g) \in Nat /\ Len(g) >= 1 /\ g[Len(g)].frame = k
  <2>1. Len(before) \in Nat
    OBVIOUS
  <2>2. Len(g) \in 1..(Len(before) + Len(f)) /\ ~(Len(g) <= Len(before)) /\ Len(g) - Len(before) = Len(f)
    BY <1>1, <1>2, <2>1
  <2>3. g[Len(g)] = f[Len(f)]
    <3> HIDE DEF g
    <3> QED
      BY <1>2, <2>2
  <2> QED
    BY <1>1, <2>1, <2>2, <2>3
<1> HIDE DEF g
<1>4. past \o toCome = g \o rest
  BY DEF f, g
<1>5. Len(g) <= Len(past)
  <2>1. SUFFICES ASSUME Len(past) < Len(g) PROVE FALSE
    BY <1>2, <1>3
  <2> DEFINE i == Len(g) - Len(past)
  <2>2. Len(past) \in Nat /\ Len(toCome) \in Nat /\ Len(rest) \in Nat
    OBVIOUS
  <2>3. Len(past) + Len(toCome) = Len(g) + Len(rest)
    <3>1. Len(past \o toCome) = Len(past) + Len(toCome) /\ Len(g \o rest) = Len(g) + Len(rest)
      BY <1>2, ConcatProperties
    <3> QED
      BY <1>4, <3>1
  <2>4. i \in 1..Len(toCome)
    BY <1>3, <2>1, <2>2, <2>3
  <2>5. (g \o rest)[Len(g)] = g[Len(g)]
    BY <1>2, <1>3, <2>2, ConcatProperties, SMTT(30)
  <2>6. (past \o toCome)[Len(g)] = toCome[i]
    BY <1>3, <2>1, <2>2, <2>3, ConcatProperties, SMTT(30)
  <2>7. toCome[i].frame = k
    BY <1>3, <1>4, <2>5, <2>6
  <2>8. i \in DOMAIN toCome
    BY <2>4
  <2> QED
    BY <2>7, <2>8
<1>6. Begins(past, g)
  <2>0. \A a, b, c, d \in Seq(Cell) :
          a \o b = c \o d /\ Len(c) <= Len(a) => Begins(a, c)
    BY LongerPart
  <2>1. g \in Seq(Cell) /\ past \o toCome = g \o rest /\ Len(g) <= Len(past)
    BY <1>2, <1>4, <1>5
  <2> QED
    BY <2>0, <2>1, Zenon
<1> QED
  BY <1>6 DEF f, g

\* The history explains what has been heard.
LEMMA HistoryGivesResynchronised ==
  ASSUME InPlace, History, NEW k \in DOMAIN clean,
         \A i \in DOMAIN ToCome : ToCome[i].frame # k,
         clean[k], k = 1 \/ clean[k - 1]
  PROVE  k \in rx.heard
<1>1. PICK F \in Seq(Seq(Cell)), past \in Seq(Cell) : Sent(F, past)
  BY DEF History
<1>2. clean \in Seq(BOOLEAN) /\ rx \in Receivers /\ ToCome \in Seq(Cell)
  BY ToComeType DEF InPlace, LineTypes, RxTypes
<1>3. Len(clean) \in Nat /\ k \in 1..Len(clean) /\ Len(F) = Len(clean) /\ k \in Nat
  BY <1>1, <1>2 DEF Sent
<1> DEFINE before == FlattenSeq(SubSeq(F, 1, k - 1))
<1>4. PICK p \in Packets : F[k] = Tagged(FrameOf(p), k)
  BY <1>1, <1>3 DEF Sent
<1> DEFINE f == Tagged(FrameOf(p), k)
<1>5. f \in Seq(Cell)
  <2>1. FrameOf(p) \in Seq(Byte)
    BY <1>3, FrameSplit
  <2> QED
    BY <1>3, <2>1, TaggedFacts
<1>6. /\ before \in Seq(Cell) /\ FlattenSeq(SubSeq(F, 1, k)) = before \o f
      /\ \E rest \in Seq(Cell) : FlattenSeq(F) = FlattenSeq(SubSeq(F, 1, k)) \o rest
  <2>1. k \in 1..Len(F)
    BY <1>3
  <2> QED
    BY <1>4, <2>1, FirstFrames
<1>7. PICK rest \in Seq(Cell) : past \o ToCome = (before \o f) \o rest
  BY <1>1, <1>6 DEF Sent
<1>8. Begins(past, before \o f)
  <2> HIDE DEF before
  <2> QED
    BY <1>2, <1>3, <1>6, <1>7, FramePassed
<1>9. PICK e \in Seq(Cell) : past = (before \o f) \o e
  BY <1>8 DEF Begins
<1> DEFINE r == UART_RxComplete(FreshReceiver, before)
<1>10. FreshReceiver \in Receivers /\ FreshReceiver.state = "NEW" /\ FreshReceiver.heard = {}
  BY FreshType
<1>11. k \in UART_RxComplete(FreshReceiver, before \o f).heard
  <2>1. CASE k = 1
    <3>1. before = <<>>
      <4>1. SubSeq(F, 1, k - 1) = <<>>
        <5>1. 1 \in Int /\ 0 \in Int /\ 0 < 1
          OBVIOUS
        <5> QED
          BY <2>1, <5>1, SubSeqEmpty
      <4>2. FlattenSeq(<<>>) = <<>>
        BY DEF FlattenSeq
      <4> QED
        BY <4>1, <4>2
    <3>2. before \o f = f
      BY <1>5, <3>1, ConcatEmptySeq
    <3> HIDE DEF before
    <3>3. UART_RxComplete(FreshReceiver, f).heard = FreshReceiver.heard \cup {k}
      <4>1. \A a \in Receivers : a.state = "NEW" => UART_RxComplete(a, f).heard = a.heard \cup {k}
        BY <1>3, FrameHeard
      <4> QED
        BY <1>10, <4>1, Zenon
    <3> QED
      BY <3>2, <3>3
  <2>2. CASE k # 1
    <3> DEFINE j == k - 1
               start == FlattenSeq(SubSeq(F, 1, j - 1))
    <3>1. j \in 1..Len(F) /\ j \in Nat /\ j \in 1..Len(clean) /\ clean[j]
      BY <1>3, <2>2
    <3> HIDE DEF j
    <3>2. PICK q \in Packets : F[j] = Tagged(FrameOf(q), j)
      BY <1>1, <3>1 DEF Sent
    <3> DEFINE g == Tagged(FrameOf(q), j)
    <3>3. start \in Seq(Cell) /\ FlattenSeq(SubSeq(F, 1, j)) = start \o g /\ g \in Seq(Cell)
      BY <3>1, <3>2, FirstFrames
    <3>4. before = start \o g
      BY <3>3 DEF j
    <3> HIDE DEF start, before
    <3>5. before \o f = start \o (g \o f)
      <4>1. Regroups(start, g, f)
        BY <1>5, <3>3, CellAssoc, Zenon
      <4> QED
        BY <3>4, <4>1 DEF Regroups
    <3> DEFINE s == UART_RxComplete(FreshReceiver, start)
    <3>6. s \in Receivers
      <4>1. [byte |-> 0, frame |-> 0] \in Cell
        BY DEF Cell, Byte
      <4> QED
        BY <1>10, <3>3, <4>1, CompleteFacts
    <3>7. g \o f \in Seq(Cell)
      BY <1>5, <3>3, ConcatProperties
    <3>8. UART_RxComplete(FreshReceiver, start \o (g \o f)) = UART_RxComplete(s, g \o f)
      BY <1>10, <3>3, <3>7, CompleteConcat
    <3> HIDE DEF s
    <3>9. k \in UART_RxComplete(s, g \o f).heard
      BY <1>3, <3>1, <3>6, SecondFrameHeard
    <3> QED
      BY <3>5, <3>8, <3>9
  <2> QED
    BY <2>1, <2>2
<1> HIDE DEF before
<1> DEFINE h == before \o f
<1>12. h \in Seq(Cell)
  BY <1>5, <1>6, ConcatProperties
<1>13. /\ UART_RxComplete(FreshReceiver, h) \in Receivers
       /\ UART_RxComplete(FreshReceiver, h \o e) = UART_RxComplete(UART_RxComplete(FreshReceiver, h), e)
  <2> HIDE DEF h
  <2>1. [byte |-> 0, frame |-> 0] \in Cell
    BY DEF Cell, Byte
  <2>2. UART_RxComplete(FreshReceiver, h) \in Receivers
    BY <1>10, <1>12, <2>1, CompleteFacts
  <2>3. UART_RxComplete(FreshReceiver, h \o e) = UART_RxComplete(UART_RxComplete(FreshReceiver, h), e)
    BY <1>10, <1>12, CompleteConcat
  <2> QED
    BY <2>2, <2>3
<1>14. k \in UART_RxComplete(FreshReceiver, past).heard
  <2> DEFINE t == UART_RxComplete(FreshReceiver, h)
  <2>1. t \in Receivers /\ UART_RxComplete(FreshReceiver, past) = UART_RxComplete(t, e) /\ k \in t.heard
    BY <1>9, <1>11, <1>13
  <2> HIDE DEF t
  <2>2. t.heard \subseteq UART_RxComplete(t, e).heard
    BY <2>1, HeardStays
  <2> QED
    BY <2>1, <2>2
<1> QED
  BY <1>1, <1>14 DEF Sent, Same

\* The history starts empty.
LEMMA HistoryInit == Init => History
<1> SUFFICES ASSUME Init PROVE History
  OBVIOUS
<1>1. /\ line = <<>> /\ clean = <<>> /\ rxQueue = <<>> /\ rxHeld = <<>> /\ rx = FreshReceiver
  BY DEF Init, None
<1>2. FlattenSeq(<<>>) = <<>>
  BY DEF FlattenSeq
<1>3. <<>> \in Seq(Cell) /\ <<>> \in Seq(Seq(Cell))
  OBVIOUS
<1>4. <<>> \o <<>> = <<>>
  BY <1>3, ConcatEmptySeq
<1>5. ToCome = <<>>
  BY <1>1, <1>2, <1>4 DEF ToCome
<1>6. UART_RxComplete(FreshReceiver, <<>>) = FreshReceiver
  <2>1. [byte |-> 0, frame |-> 0] \in Cell
    BY DEF Cell, Byte
  <2> QED
    BY <1>3, <2>1, FreshType, CompleteFacts
<1>7. Sent(<<>>, <<>>)
  <2>1. Len(<<>>) = Len(clean) /\ \A k \in 1..Len(clean) : FALSE
    BY <1>1
  <2>2. FlattenSeq(<<>>) = <<>> \o ToCome
    BY <1>2, <1>4, <1>5
  <2>3. Same(rx, UART_RxComplete(FreshReceiver, <<>>))
    BY <1>1, <1>6 DEF Same
  <2> QED
    BY <2>1, <2>2, <2>3 DEF Sent
<1> QED
  BY <1>3, <1>7 DEF History

\* Steps that move what is to come, or take from what has been received, and no more.
LEMMA HistoryKept ==
  ASSUME History, clean' = clean, ToCome' = ToCome, Same(rx', rx)
  PROVE  History'
<1>1. PICK F \in Seq(Seq(Cell)), past \in Seq(Cell) : Sent(F, past)
  BY DEF History
<1>2. Same(rx', UART_RxComplete(FreshReceiver, past))
  <2> DEFINE r == UART_RxComplete(FreshReceiver, past)
  <2>1. Same(rx, r)
    BY <1>1 DEF Sent
  <2> HIDE DEF r
  <2>2. Same(rx', r)
    BY <2>1 DEF Same
  <2> QED
    BY <2>2 DEF r
<1>3. Sent(F, past)'
  BY <1>1, <1>2 DEF Sent
<1> QED
  BY <1>3 DEF History

\* Steps before the line leave it alone.
LEMMA HistorySend ==
  ASSUME InPlace, InPlace', History, Queue \/ FillTake \/ FillPut \/ FillEnd
  PROVE  History'
<1>1. UNCHANGED <<line, clean, rxHeld, rxQueue, rx>>
  BY DEF Queue, FillTake, FillPut, FillEnd, lineVars, rxVars
<1>2. ToCome' = ToCome
  BY <1>1 DEF ToCome
<1>3. Same(rx', rx)
  BY <1>1 DEF Same
<1> QED
  BY <1>1, <1>2, <1>3, HistoryKept

\* The next frame, whole or damaged, is put on the line.
LEMMA HistoryTransmit ==
  ASSUME InPlace, InPlace', History, TransmitCallback
  PROVE  History'
<1> DEFINE k == Len(clean) + 1
<1>1. PICK F \in Seq(Seq(Cell)), past \in Seq(Cell) : Sent(F, past)
  BY DEF History
<1>2. /\ UNCHANGED <<rxHeld, rxQueue, rx>> /\ pending # <<>>
      /\ pending \in Seq(Frames) /\ clean \in Seq(BOOLEAN) /\ line \in Seq(Cell)
      /\ rxHeld \in Seq(Cell) /\ FlattenSeq(rxQueue) \in Seq(Cell) /\ ToCome \in Seq(Cell)
  BY ToComeType DEF TransmitCallback, rxVars, InPlace, TxTypes, LineTypes, RxTypes
<1>3. k \in Nat /\ Len(clean) \in Nat
  BY <1>2
<1>4. Head(pending) \in Frames /\ Head(pending) \in Seq(Byte)
  BY <1>2, HeadTailProperties, FramesType
<1> HIDE DEF k
<1>5. PICK bytes \in Seq(Byte), whole \in BOOLEAN :
        /\ line' = line \o Tagged(bytes, k) /\ clean' = Append(clean, whole)
        /\ whole => bytes = Head(pending)
  <2>1. CASE line' = line \o Tagged(Head(pending), k) /\ clean' = Append(clean, TRUE)
    BY <1>4, <2>1
  <2>2. CASE /\ \E d \in Damaged(Head(pending)) \ {Head(pending)} : line' = line \o Tagged(d, k)
             /\ clean' = Append(clean, FALSE)
    BY <1>4, <2>2, DamagedType
  <2> QED
    BY <2>1, <2>2 DEF TransmitCallback, k
<1> DEFINE f == Tagged(bytes, k)
           G == Append(F, f)
<1>6. f \in Seq(Cell)
  BY <1>3, TaggedFacts
<1>7. PICK p \in Packets : Head(pending) = FrameOf(p)
  BY <1>4 DEF Frames
<1>8. whole => \E q \in Packets : f = Tagged(FrameOf(q), k)
  BY <1>5, <1>7
<1> HIDE DEF f
<1>9. /\ G \in Seq(Seq(Cell)) /\ Len(G) = Len(F) + 1 /\ G[Len(F) + 1] = f
      /\ \A i \in 1..Len(F) : G[i] = F[i]
      /\ FlattenSeq(G) = FlattenSeq(F) \o f
  BY <1>6, AppendProperties, FlattenFacts
<1>10. /\ Len(clean') = k /\ clean'[k] = whole /\ Len(F) = Len(clean)
       /\ \A i \in 1..Len(clean) : clean'[i] = clean[i]
  <2>1. Len(F) = Len(clean)
    BY <1>1 DEF Sent
  <2> QED
    BY <1>2, <1>5, <2>1, AppendProperties DEF k
<1> HIDE DEF G
<1>11. \A i \in 1..Len(clean') : clean'[i] => \E q \in Packets : G[i] = Tagged(FrameOf(q), i)
  <2> SUFFICES ASSUME NEW i \in 1..Len(clean'), clean'[i]
               PROVE  \E q \in Packets : G[i] = Tagged(FrameOf(q), i)
    OBVIOUS
  <2>1. CASE i = k
    <3>1. whole
      BY <1>10, <2>1
    <3>2. G[i] = f
      BY <1>9, <1>10, <2>1 DEF k
    <3> QED
      BY <1>8, <2>1, <3>1, <3>2
  <2>2. CASE i # k
    <3>1. i \in 1..Len(clean)
      BY <1>3, <1>10, <2>2 DEF k
    <3>2. clean[i] /\ G[i] = F[i]
      BY <1>9, <1>10, <3>1
    <3> QED
      BY <1>1, <3>1, <3>2 DEF Sent
  <2> QED
    BY <2>1, <2>2
<1>12. FlattenSeq(G) = past \o ToCome'
  <2> DEFINE held == rxHeld \o FlattenSeq(rxQueue)
  <2>1. held \in Seq(Cell)
    BY <1>2, ConcatProperties
  <2>2. ToCome' = held \o (line \o f) /\ ToCome = held \o line
    BY <1>2, <1>5 DEF ToCome, f
  <2>3. FlattenSeq(F) = past \o ToCome
    BY <1>1 DEF Sent
  <2> HIDE DEF held
  <2>4. Regroups(held, line, f) /\ Regroups(past, ToCome, f)
    BY <1>2, <1>6, <2>1, CellAssoc, Zenon
  <2>5. (held \o line) \o f = held \o (line \o f)
    BY <2>4 DEF Regroups
  <2>6. (past \o ToCome) \o f = past \o (ToCome \o f)
    BY <2>4 DEF Regroups
  <2> QED
    BY <1>9, <2>2, <2>3, <2>5, <2>6
<1>13. PICK H \in Seq(Seq(Cell)) : H = G
  BY <1>9
<1>14. Sent(H, past)'
  <2>1. Len(H) = Len(clean')
    BY <1>3, <1>9, <1>10, <1>13 DEF k
  <2>2. Same(rx', UART_RxComplete(FreshReceiver, past))
    BY <1>1, <1>2 DEF Sent
  <2> QED
    BY <1>11, <1>12, <1>13, <2>1, <2>2 DEF Sent
<1> QED
  BY <1>14 DEF History

\* A callback of the receiver and the thread that takes its buffers move what is to come.
LEMMA HistoryMoved ==
  ASSUME InPlace, History, ReceiveCallback \/ ProcessTake
  PROVE  History'
<1>1. /\ piece \in Nat \ {0} /\ line \in Seq(Cell) /\ rxHeld \in Seq(Cell)
      /\ rxQueue \in Seq(Seq(Cell)) /\ FlattenSeq(rxQueue) \in Seq(Cell)
  BY ToComeType DEF InPlace, RxTypes, LineTypes
<1>2. UNCHANGED <<clean, rx>>
  BY DEF ReceiveCallback, ProcessTake, lineVars
<1>3. ASSUME ReceiveCallback PROVE ToCome' = ToCome
  <2> DEFINE n == Min({piece, Len(line)})
             head == SubSeq(line, 1, n)
             tail == SubSeq(line, n + 1, Len(line))
             Q == FlattenSeq(rxQueue)
  <2>1. /\ rxHeld' = rxHeld /\ line # <<>> /\ rxQueue' = Append(rxQueue, head) /\ line' = tail
    BY <1>3 DEF ReceiveCallback
  <2>2. head \in Seq(Cell) /\ tail \in Seq(Cell) /\ head \o tail = line
    BY <1>1, <2>1, PieceFacts
  <2> HIDE DEF head, tail
  <2>3. FlattenSeq(rxQueue') = Q \o head
    BY <1>1, <2>1, <2>2, FlattenFacts
  <2>4. Q \in Seq(Cell)
    BY <1>1
  <2>5. ToCome' = (rxHeld \o (Q \o head)) \o tail /\ ToCome = (rxHeld \o Q) \o (head \o tail)
    BY <2>1, <2>2, <2>3 DEF ToCome
  <2> HIDE DEF Q
  <2>6. rxHeld \o Q \in Seq(Cell)
    BY <1>1, <2>4, ConcatProperties
  <2>7. Regroups(rxHeld, Q, head)
    BY <1>1, <2>2, <2>4, CellAssoc, Zenon
  <2>8. Regroups(rxHeld \o Q, head, tail)
    BY <2>2, <2>6, CellAssoc, Zenon
  <2> QED
    BY <2>5, <2>7, <2>8 DEF Regroups
<1>4. ASSUME ProcessTake PROVE ToCome' = ToCome
  <2> DEFINE Q == FlattenSeq(rxQueue)
  <2>1. /\ rxHeld = <<>> /\ rxQueue # <<>> /\ rxHeld' = Head(rxQueue)
        /\ rxQueue' = Tail(rxQueue) /\ line' = line
    BY <1>4 DEF ProcessTake, None, lineVars
  <2>2. Q = Head(rxQueue) \o FlattenSeq(Tail(rxQueue))
    BY <1>1, <2>1, FlattenHead
  <2>3. <<>> \o Q = Q
    BY <1>1, ConcatEmptySeq
  <2>4. ToCome' = (Head(rxQueue) \o FlattenSeq(Tail(rxQueue))) \o line
        /\ ToCome = (<<>> \o Q) \o line
    BY <2>1 DEF ToCome
  <2> HIDE DEF Q
  <2> QED
    BY <2>2, <2>3, <2>4
<1>5. ToCome' = ToCome
  BY <1>3, <1>4
<1>6. Same(rx', rx)
  BY <1>2 DEF Same
<1> QED
  BY <1>2, <1>5, <1>6, HistoryKept

\* The buffer held goes through the decoder.
LEMMA HistoryDecoded ==
  ASSUME InPlace, History, ProcessPut
  PROVE  History'
<1>1. PICK F \in Seq(Seq(Cell)), past \in Seq(Cell) : Sent(F, past)
  BY DEF History
<1> DEFINE Q == FlattenSeq(rxQueue)
           r == UART_RxComplete(FreshReceiver, past)
<1>2. /\ UNCHANGED <<clean, line, rxQueue>>
      /\ rx' = UART_RxComplete(rx, rxHeld) /\ rxHeld' = <<>>
  BY DEF ProcessPut, None, lineVars
<1>3. /\ line \in Seq(Cell) /\ rxHeld \in Seq(Cell) /\ Q \in Seq(Cell) /\ rx \in Receivers
  BY ToComeType DEF InPlace, RxTypes, LineTypes
<1>4. ToCome' = (<<>> \o Q) \o line /\ ToCome = (rxHeld \o Q) \o line
  BY <1>2 DEF ToCome
<1> HIDE DEF Q
<1>5. <<>> \o Q = Q /\ Q \o line \in Seq(Cell)
  BY <1>3, ConcatEmptySeq, ConcatProperties
<1>6. Regroups(rxHeld, Q, line) /\ Regroups(past, rxHeld, Q \o line)
  BY <1>3, <1>5, CellAssoc, Zenon
<1>7. (rxHeld \o Q) \o line = rxHeld \o (Q \o line)
  BY <1>6 DEF Regroups
<1>8. (past \o rxHeld) \o (Q \o line) = past \o (rxHeld \o (Q \o line))
  BY <1>6 DEF Regroups
<1>9. FlattenSeq(F) = (past \o rxHeld) \o ToCome'
  <2>1. FlattenSeq(F) = past \o ToCome
    BY <1>1 DEF Sent
  <2> QED
    BY <1>4, <1>5, <1>7, <1>8, <2>1
<1>10. FreshReceiver \in Receivers
  BY FreshType
<1>11. r \in Receivers
  <2>1. [byte |-> 0, frame |-> 0] \in Cell
    BY DEF Cell, Byte
  <2> QED
    BY <1>10, <2>1, CompleteFacts
<1>12. UART_RxComplete(FreshReceiver, past \o rxHeld) = UART_RxComplete(r, rxHeld)
  BY <1>3, <1>10, CompleteConcat
<1>13. Same(rx, r)
  BY <1>1 DEF Sent
<1> HIDE DEF r
<1>14. Same(rx', UART_RxComplete(FreshReceiver, past \o rxHeld))
  <2>1. Same(UART_RxComplete(rx, rxHeld), UART_RxComplete(r, rxHeld))
    BY <1>3, <1>11, <1>13, SameBytes
  <2> QED
    BY <1>2, <1>12, <2>1
<1>15. past \o rxHeld \in Seq(Cell)
  BY <1>3, ConcatProperties
<1>16. PICK now \in Seq(Cell) : now = past \o rxHeld
  BY <1>15
<1>17. Sent(F, now)'
  <2>1. /\ Len(F) = Len(clean)
        /\ \A k \in 1..Len(clean) : clean[k] => \E p \in Packets : F[k] = Tagged(FrameOf(p), k)
    BY <1>1 DEF Sent
  <2> QED
    BY <1>2, <1>9, <1>14, <1>16, <2>1 DEF Sent
<1> QED
  BY <1>17 DEF History

\* So does an application that reads.
LEMMA HistoryRead ==
  ASSUME History, ProcessEnd \/ AJ_SerialRecv
  PROVE  History'
<1>1. UNCHANGED <<clean, line, rxQueue, rxHeld>>
  BY DEF ProcessEnd, AJ_SerialRecv, lineVars
<1>2. ToCome' = ToCome
  BY <1>1 DEF ToCome
<1>3. Same(rx', rx)
  <2>1. CASE ProcessEnd
    BY <2>1 DEF ProcessEnd, Same
  <2>2. CASE AJ_SerialRecv
    <3>1. PICK n : rx' = Read(rx, n)
      BY <2>2 DEF AJ_SerialRecv
    <3> QED
      BY <3>1 DEF Read, Same
  <2> QED
    BY <2>1, <2>2
<1> QED
  BY <1>1, <1>2, <1>3, HistoryKept

\* Damage costs the frame it hits and at most the next: for every stream of packets, every
\* number of damaged bytes, and however the bytes are cut into buffers and given to the
\* decoder, a frame that arrived whole behind one that did is found.
THEOREM AlwaysResynchronised == Spec => []Resynchronised
<1>1. Init => InPlace /\ History
  BY InPlaceInit, HistoryInit
<1>2. InPlace /\ History /\ [Next]_vars => InPlace' /\ History'
  <2> SUFFICES ASSUME InPlace, History, [Next]_vars PROVE InPlace' /\ History'
    OBVIOUS
  <2>1. InPlace'
    BY InPlaceNext
  <2>2. CASE Next
    BY <2>1, <2>2, HistorySend, HistoryTransmit, HistoryMoved, HistoryDecoded, HistoryRead DEF Next
  <2>3. CASE UNCHANGED vars
    <3>1. UNCHANGED <<clean, line, rxQueue, rxHeld, rx>>
      BY <2>3 DEF vars, lineVars, rxVars
    <3>2. ToCome' = ToCome
      BY <3>1 DEF ToCome
    <3>3. Same(rx', rx)
      BY <3>1 DEF Same
    <3> QED
      BY <2>1, <3>1, <3>2, <3>3, HistoryKept
  <2> QED
    BY <2>2, <2>3
<1>3. InPlace /\ History => Resynchronised
  BY HistoryGivesResynchronised DEF Resynchronised, ToCome
<1> QED
  BY <1>1, <1>2, <1>3, PTL DEF Spec
=============================================================================
