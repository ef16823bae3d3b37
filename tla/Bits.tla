-------------------------------- MODULE Bits --------------------------------
(***************************************************************************)
(* The operators ^ and | of the language on unsigned numbers, by halves    *)
(* down to one bit, and the bits of a byte.                                *)
(***************************************************************************)
EXTENDS Integers

\* u8 and u16.
Byte == 0..255
Ones == 256 * 256 - 1
Word == 0..Ones

Xor1(a, b) == (a + b) % 2
Xor2(a, b) == 2 * Xor1(a \div 2, b \div 2) + Xor1(a % 2, b % 2)
Xor4(a, b) == 4 * Xor2(a \div 4, b \div 4) + Xor2(a % 4, b % 4)
Xor8(a, b) == 16 * Xor4(a \div 16, b \div 16) + Xor4(a % 16, b % 16)
Xor(a, b) == 256 * Xor8(a \div 256, b \div 256) + Xor8(a % 256, b % 256)

\* Of two numbers of two bits.
Or1(a, b) == IF a + b = 0 THEN 0 ELSE 1
Or(a, b) == 2 * Or1(a \div 2, b \div 2) + Or1(a % 2, b % 2)

\* What bit i of a byte counts.
Weight(i) == <<1, 2, 4, 8, 16, 32, 64, 128>>[i + 1]
=============================================================================
