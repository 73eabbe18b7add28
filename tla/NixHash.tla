------------------------------- MODULE NixHash -------------------------------
(***************************************************************************)
(* Nix's base-32 and the base-64 of flake.lock, which name the same digest *)
(* in store paths, narinfos and flake.lock.  A character is its position   *)
(* in the alphabet; what is in no alphabet is an error and left out.       *)
(***************************************************************************)
EXTENDS Naturals, Sequences

CONSTANTS
  ByteValues,  \* bound: the bytes that digests are made of
  MaxBytes     \* bound: their length

ASSUME ByteAssumption == ByteValues \subseteq 0 .. 255 /\ MaxBytes \in Nat

Chars(bits, width) == (bits + width - 1) \div width
Shl(x, k) == x * 2^k
Shr(x, k) == x \div 2^k
U8(x)     == x % 256

\* x | y, from the lowest bit on.
Or(x, y) ==
  LET or[at \in (0 .. x) \X (0 .. y)] ==
        IF at = <<0, 0>> THEN 0
        ELSE 2 * or[<<at[1] \div 2, at[2] \div 2>>]
             + IF at[1] % 2 = 1 \/ at[2] % 2 = 1 THEN 1 ELSE 0
  IN  or[<<x, y>>]

\* Mutant: a digit that crosses into the next byte is cut off.
SpillNever(digit, off) == 0

\* The part of a digit that goes into the next byte.
Spill(digit, off) == IF off > 3 THEN U8(Shr(digit, 8 - off)) ELSE 0

\* What a digit, i places from the end, puts into a byte: it is or-ed into the
\* byte it begins in, and into the next.
Into(digit, i, byte) ==
  LET first == (5 * i) \div 8
      off   == (5 * i) % 8
  IN  CASE byte = first     -> U8(Shl(digit, off))
        [] byte = first + 1 -> Spill(digit, off)
        [] OTHER            -> 0

\* nix_base32_decode: the last character holds the lowest bits.
nix_base32_decode(s) ==
  LET Byte(b) ==
        LET acc[i \in 0 .. Len(s)] ==
              IF i = 0 THEN 0 ELSE Or(acc[i - 1], Into(s[Len(s) - (i - 1)], i - 1, b))
        IN  acc[Len(s)]
  IN  [k \in 1 .. (Len(s) * 5) \div 8 |-> Byte(k - 1)]

\* The mask leaves the lowest five bits.
Five(c0, c1, j) == Or(Shr(c0, j), Shl(c1, 8 - j)) % 32

\* nix_base32_encode.
nix_base32_encode(digest) ==
  LET len == Chars(Len(digest) * 8, 5)
      Digit(n) ==
        LET i == (n * 5) \div 8 + 1
        IN  Five(digest[i], IF i < Len(digest) THEN digest[i + 1] ELSE 0, (n * 5) % 8)
  IN  [k \in 1 .. len |-> Digit(len - k)]

\* Two characters hold a byte, and three hold two.
TwoChars(a, b)      == U8(Or(Shl(a, 2), Shr(b, 4)))
ThreeChars(a, b, c) == <<TwoChars(a, b), U8(Or(Shl(b, 4), Shr(c, 2)))>>

\* Mutant: three remaining characters are taken for two.
RestOfTwo(r) == IF Len(r) >= 2 THEN <<TwoChars(r[1], r[2])>> ELSE << >>

\* What is left after groups of four characters: one character is no byte.
Rest(r) ==
  CASE Len(r) = 2 -> <<TwoChars(r[1], r[2])>>
    [] Len(r) = 3 -> ThreeChars(r[1], r[2], r[3])
    [] OTHER -> << >>

Group(a, b, c, d) ==
  LET n == Or(Or(Or(Shl(a, 18), Shl(b, 12)), Shl(c, 6)), d)
  IN  <<U8(Shr(n, 16)), U8(Shr(n, 8)), U8(n)>>

\* base64_decode, of characters without the padding.
base64_decode(s) ==
  LET groups == Len(s) \div 4
      Three(g) == Group(s[4 * g + 1], s[4 * g + 2], s[4 * g + 3], s[4 * g + 4])
      Byte(k) == LET three == Three(k \div 3) IN three[(k % 3) + 1]
  IN  [k \in 1 .. 3 * groups |-> Byte(k - 1)] \o Rest(SubSeq(s, 4 * groups + 1, Len(s)))

-----------------------------------------------------------------------------
VARIABLE bytes  \* the digest

HashInit  == bytes = << >>
AppendByte(b) == Len(bytes) < MaxBytes /\ bytes' = Append(bytes, b)
HashSpec  == HashInit /\ [][\E b \in ByteValues : AppendByte(b)]_bytes

\* The bits of a digest: in base-32 from the lowest of the first byte on, in
\* base-64 from the highest.
LowBit(k)  == IF k \div 8 < Len(bytes) THEN (bytes[(k \div 8) + 1] \div 2^(k % 8)) % 2 ELSE 0
HighBit(k) == IF k \div 8 < Len(bytes) THEN (bytes[(k \div 8) + 1] \div 2^(7 - (k % 8))) % 2 ELSE 0

\* Base-32 by its definition: the digits of the digest as a number, whose
\* lowest byte comes first, from the highest digit to the lowest.
Base32 ==
  LET len == Chars(Len(bytes) * 8, 5)
      Digit(n) ==
        LET bit(j) == LowBit(5 * n + j)
        IN  16 * bit(4) + 8 * bit(3) + 4 * bit(2) + 2 * bit(1) + bit(0)
  IN  [k \in 1 .. len |-> Digit(len - k)]

\* Base-64 by its definition (RFC 4648), without the padding.
Base64 ==
  LET Digit(n) ==
        LET bit(j) == HighBit(6 * n + j)
        IN  32 * bit(0) + 16 * bit(1) + 8 * bit(2) + 4 * bit(3) + 2 * bit(4) + bit(5)
  IN  [k \in 1 .. Chars(Len(bytes) * 8, 6) |-> Digit(k - 1)]

\* A digest is written in base-32 as defined, and read back to itself, whatever
\* its length: store paths and narinfos name the bytes that the code means.
Base32IsRight ==
  nix_base32_encode(bytes) = Base32 /\ nix_base32_decode(Base32) = bytes

\* The narHash of flake.lock is read to the bytes that it encodes.
Base64IsRight == base64_decode(Base64) = bytes
=============================================================================
