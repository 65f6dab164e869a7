-------------------------------- MODULE E2e ---------------------------------
(***************************************************************************)
(* e2e.cpp: the AUTOSAR E2E header and its CRC, as the code computes them, *)
(* and the CRC's definition to compare with, division of polynomials over  *)
(* GF(2).  The width of the register and of a byte are parameters, since a *)
(* 64-bit register is out of TLC's reach; the fields length, counter and   *)
(* data_id have one byte each.                                             *)
(***************************************************************************)
EXTENDS Integers, Sequences

CONSTANTS
  W,                \* bits of the CRC register: 64
  B,                \* bits of a byte: 8
  kReflectedPoly    \* the polynomial but for x^W, x^(W-1) in bit 0

\* The CRC field holds whole bytes and the polynomial has its constant term,
\* as 0xC96C5795D7870F42 has.
ASSUME E2eConstants ==
  /\ B \in Nat \ {0} /\ W \in Nat \ {0} /\ W % B = 0
  /\ kReflectedPoly \in 2 ^ (W - 1) .. 2 ^ W - 1

Byte == {b \in Nat : b < 2 ^ B}

kE2eCrc64Init    == 2 ^ W - 1
kE2eCrc64Xorout  == 2 ^ W - 1
kE2eOffsetLength == W \div B
kE2eHeaderSize   == kE2eOffsetLength + 3

\* Bytes numbered from 0, as the offsets are.
At(buf, offset) == buf[offset + 1]
From(buf, offset) == SubSeq(buf, offset + 1, Len(buf))

unpack_be(bytes) ==
  LET value[i \in 0 .. Len(bytes)] ==
        IF i = 0 THEN 0 ELSE value[i - 1] * 2 ^ B + bytes[i]
  IN  value[Len(bytes)]

\* Only of a buffer that holds a header.
e2e_parse(buf) ==
  [crc     |-> unpack_be(SubSeq(buf, 1, kE2eOffsetLength)),
   length  |-> At(buf, kE2eOffsetLength),
   counter |-> At(buf, kE2eOffsetLength + 1),
   data_id |-> At(buf, kE2eOffsetLength + 2)]

\* The operator ^ of C++, on numbers without a sign.
Xor[m, n \in Nat] ==
  IF m = 0 THEN n ELSE ((m + n) % 2) + 2 * Xor[m \div 2, n \div 2]

\* Mutant of ShiftBit: the bit is tested after the shift.
ShiftThenTest(crc) ==
  LET half == crc \div 2
  IN  IF half % 2 = 1 THEN Xor[half, kReflectedPoly] ELSE half

ShiftBit(crc) ==
  IF crc % 2 = 1 THEN Xor[crc \div 2, kReflectedPoly] ELSE crc \div 2

e2e_crc64_xz_update(crc, data) ==
  LET bits(c)  == LET after[k \in 0 .. B] ==
                        IF k = 0 THEN c ELSE ShiftBit(after[k - 1])
                  IN  after[B]
      upto[i \in 0 .. Len(data)] ==
        IF i = 0 THEN crc ELSE bits(Xor[upto[i - 1], data[i]])
  IN  upto[Len(data)]

e2e_crc64_xz(data) ==
  Xor[e2e_crc64_xz_update(kE2eCrc64Init, data), kE2eCrc64Xorout]

e2e_validate(buf) ==
  IF Len(buf) < kE2eHeaderSize THEN "kTooShort"
  ELSE IF e2e_crc64_xz(From(buf, kE2eOffsetLength)) = e2e_parse(buf).crc
       THEN "kOk" ELSE "kCrcMismatch"

-----------------------------------------------------------------------------
(* The definition: the remainder of the message, as a polynomial, times    *)
(* x^W, with the first W coefficients complemented, by the polynomial; the *)
(* remainder is complemented.  A byte is sent lowest bit first.            *)

BitOf(n, k) == (n \div 2 ^ k) % 2

Bits(data) ==
  [j \in 1 .. B * Len(data) |-> BitOf(data[1 + (j - 1) \div B], (j - 1) % B)]

\* Coefficients from x^W down.
Divisor == <<1>> \o [j \in 1 .. W |-> BitOf(kReflectedPoly, j - 1)]

Remainder(dividend) ==
  LET n == Len(dividend) - W
      \* after k steps of the long division the first k coefficients are 0
      rest[k \in 0 .. n] ==
        IF k = 0 THEN dividend
        ELSE LET r == rest[k - 1]
             IN  IF r[k] = 0 THEN r
                 ELSE [j \in DOMAIN r |->
                        IF j \in k .. k + W THEN (r[j] + Divisor[j - k + 1]) % 2
                                            ELSE r[j]]
  IN  SubSeq(rest[n], n + 1, n + W)

ReferenceCrc(data) ==
  LET shifted  == Bits(data) \o [j \in 1 .. W |-> 0]
      dividend == [j \in DOMAIN shifted |->
                    IF j <= W THEN 1 - shifted[j] ELSE shifted[j]]
      r        == Remainder(dividend)
      value[j \in 0 .. W] ==
        IF j = 0 THEN 0 ELSE value[j - 1] + (1 - r[j]) * 2 ^ (j - 1)
  IN  value[W]
=============================================================================
