-------------------------------- MODULE Per --------------------------------
(***************************************************************************)
(* The PER encoding of core/per.rs, as MCS and GCC use it.  A read returns *)
(* an outcome, the value and the bytes that follow it.                     *)
(***************************************************************************)
EXTENDS Message

Got(value, rest) == [out |-> "ok", value |-> value, rest |-> rest]
Bad(in) == [out |-> "error", value |-> 0, rest |-> in]
\* What reads `in' once `r' has been read.
Then(r, Next(_, _)) == IF r.out = "ok" THEN Next(r.value, r.rest) ELSE r

\* A number of n bytes, the most significant first.
ReadBytes(n, in) == IF Len(in) < n THEN Bad(in) ELSE Got(Num(First(n, in)), Behind(n, in))

\* A fault: 0x80 goes into one byte.
WriteLengthLong(n) ==
    IF n > 128 THEN ToBytes(2, IF n < 32768 THEN n + 32768 ELSE n) ELSE ToBytes(1, n)
\* Lengths take one byte up to 0x7f and two behind that, for 15 bits.
WriteLength(n) ==
    IF n > 127 THEN ToBytes(2, IF n < 32768 THEN n + 32768 ELSE n) ELSE ToBytes(1, n)
ReadLength(in) ==
    Then(ReadBytes(1, in), LAMBDA a, rest :
        IF a >= 128 THEN Then(ReadBytes(1, rest), LAMBDA b, more : Got(((a - 128) * 256) + b, more))
        ELSE Got(a, rest))

\* Choices, selections, enumerates and numbers of a set are a byte.
WriteChoice(n) == ToBytes(1, n)
ReadChoice(in) == ReadBytes(1, in)
WriteSelection(n) == ToBytes(1, n)
ReadSelection(in) == ReadBytes(1, in)
WriteNumberOfSet(n) == ToBytes(1, n)
ReadNumberOfSet(in) == ReadBytes(1, in)
WriteEnumerates(n) == ToBytes(1, n)
ReadEnumerates(in) == ReadBytes(1, in)

\* Integers say how many bytes they take; 0xff and 0xffff go into the next size.
IntegerSize(n) == IF n < 255 THEN 1 ELSE IF n < 65535 THEN 2 ELSE 4
WriteInteger(n) == WriteLength(IntegerSize(n)) \o ToBytes(IntegerSize(n), n)
ReadInteger(in) ==
    Then(ReadLength(in), LAMBDA size, rest :
        IF size \in {1, 2, 4} THEN ReadBytes(size, rest) ELSE Bad(rest))

\* A number above a minimum; the difference and the sum must be u16.
WriteInteger16(n, minimum) == ToBytes(2, n - minimum)
ReadInteger16(minimum, in) ==
    Then(ReadBytes(2, in), LAMBDA n, rest :
        IF n + minimum < 65536 THEN Got(n + minimum, rest)
        ELSE [out |-> "panic", value |-> 0, rest |-> rest])

\* An object identifier of six numbers in five bytes.  The reader stores the
\* fourth and the fifth byte in the same place: the fifth number is always 0.
WriteObjectIdentifier(oid) ==
    <<5, ((oid[1] % 16) * 16) + (oid[2] % 16)>> \o SubSeq(oid, 3, 6)
ReadObjectIdentifier(oid, in) ==
    Then(ReadLength(in), LAMBDA size, rest :
        IF size # 5 \/ Len(rest) < 5 THEN Bad(rest)
        ELSE Got(oid = <<rest[1] \div 16, rest[1] % 16, rest[2], rest[3], 0, rest[5]>>,
                 Behind(5, rest)))

\* A numeric string has a byte for each digit: the digit and the one behind it.
Less(n, minimum) == IF n >= minimum THEN n - minimum ELSE n
WriteNumericString(digits, minimum) ==
    WriteLength(Less(Len(digits), minimum))
    \o [i \in DOMAIN digits |-> digits[i] * 16 + (IF i < Len(digits) THEN digits[i + 1] ELSE 0)]

WritePadding(n) == [i \in 1..n |-> 0]

\* An octet stream that the reader knows.
WriteOctetStream(octets, minimum) ==
    WriteLength(IF Len(octets) >= minimum THEN Len(octets) - minimum ELSE minimum) \o octets
ReadOctetStream(octets, minimum, in) ==
    Then(ReadLength(in), LAMBDA n, rest :
        IF n + minimum = Len(octets) /\ IsPrefix(octets, rest)
        THEN Got(n, Behind(Len(octets), rest)) ELSE Bad(rest))
=============================================================================
