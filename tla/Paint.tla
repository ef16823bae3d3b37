------------------------------- MODULE Paint -------------------------------
(***************************************************************************)
(* A server that paints: the orders and segments of the protocol, the      *)
(* bytes they take, and the pixels they add to a picture.  A picture is a  *)
(* sequence of pixels in the order they are painted, line after line, the  *)
(* lowest line first: it knows neither lines nor buffers, only what was    *)
(* painted one line width ago.  This is the reference of codec/rle.rs.     *)
(***************************************************************************)
EXTENDS Rle

\* An order: its opcode, how many pixels (pairs for 8), whether the count takes
\* the long form, colours, and the mask bytes of a fill-or-mix order.
Paints(op, n, long, colours, masks) ==
    [op |-> op, n |-> n, long |-> long, colours |-> colours, masks |-> masks]

Two(n) == <<n % 256, n \div 256>>
Head16(o) ==
    IF o.op >= 9 THEN <<240 + o.op>> ELSE IF o.long THEN <<240 + o.op>> \o Two(o.n) ELSE
    CASE o.op \in {0, 1, 3, 4}   -> IF o.n < 32 THEN <<32 * o.op + o.n>> ELSE <<32 * o.op, o.n - 32>>
      [] o.op = 2                -> IF o.n % 8 = 0 /\ o.n < 256 THEN <<64 + o.n \div 8>> ELSE <<64, o.n - 1>>
      [] o.op = 7                -> IF o.n % 8 = 0 /\ o.n < 128 THEN <<208 + o.n \div 8>> ELSE <<208, o.n - 1>>
      [] o.op = 6                -> IF o.n < 16 THEN <<192 + o.n>> ELSE <<192, o.n - 16>>
      [] o.op = 8                -> IF o.n < 16 THEN <<224 + o.n>> ELSE <<224, o.n - 16>>
Twos(s) == [i \in 1..(2 * Len(s)) |-> IF i % 2 = 1 THEN s[(i + 1) \div 2] % 256 ELSE s[i \div 2] \div 256]
OrderBytes(o) == Head16(o) \o Twos(o.colours) \o o.masks

\* Orders that can be written: a short count has a limit, the first colour of a pair
\* is counted up to one more than the pairs, and there are as many colours and
\* masks as the pixels take.
WellFormed(o) ==
    /\ o = Paints(o.op, o.n, o.long, o.colours, o.masks)
    /\ o.op \in {0, 1, 2, 3, 4, 6, 7, 8, 9, 10, 13, 14} /\ o.n \in 1..Ones /\ o.long \in BOOLEAN
    /\ ~o.long => o.n <= (CASE o.op \in {2, 7} -> 256 [] o.op \in {6, 8} -> 271 [] OTHER -> 287)
    /\ o.op \in {9, 10} => o.n = 8
    /\ o.op \in {13, 14} => o.n = 1
    /\ o.op = 8 => o.n < Ones
    /\ o.colours \in Seq(Word) /\ o.masks \in Seq(Byte)
    /\ Len(o.colours) = CASE o.op \in {3, 6, 7} -> 1 [] o.op = 8 -> 2 [] o.op = 4 -> o.n [] OTHER -> 0
    /\ Len(o.masks) = IF o.op \in {2, 7} THEN (o.n + 7) \div 8 ELSE 0

\* A picture under way: its pixels, the foreground, and whether the last order was
\* a background run.
NoPicture == [pixels |-> <<>>, fg |-> Ones, bg |-> FALSE]
Area(o) == CASE o.op = 8 -> 2 * o.n [] o.op \in {9, 10} -> 8 [] o.op >= 13 -> 1 [] OTHER -> o.n
MaskOf(o, k) == CASE o.op = 9 -> 3 [] o.op = 10 -> 5 [] OTHER -> o.masks[(k - 1) \div 8 + 1]
Colour(o, k, at, above, fg, bg, w) ==
    CASE o.op = 0            -> IF k = 1 /\ bg /\ at \notin {0, w} THEN Xor(above, fg) ELSE above
      [] o.op \in {1, 6}     -> Xor(above, fg)
      [] o.op \in {2, 7, 9, 10} ->
             IF (MaskOf(o, k) \div Weight((k - 1) % 8)) % 2 = 1 THEN Xor(above, fg) ELSE above
      [] o.op = 3            -> o.colours[1]
      [] o.op = 4            -> o.colours[k]
      [] o.op = 8            -> o.colours[IF k % 2 = 1 THEN 1 ELSE 2]
      [] o.op = 13           -> Ones
      [] o.op = 14           -> 0
Foreground(p, o) == IF o.op \in {6, 7} THEN o.colours[1] ELSE p.fg
\* One more pixel, the k-th of the order.
Touch(p, o, w, k, so_far) ==
    LET at == Len(so_far)
        above == IF at < w THEN 0 ELSE so_far[at - w + 1]
    IN  Append(so_far, Colour(o, k, at, above, Foreground(p, o), p.bg, w))
Strokes(p, o, w) ==
    LET new[k \in 0..Area(o)] ==
            IF k = 0 THEN p.pixels ELSE Touch(p, o, w, k, new[k - 1])
    IN  new
Painted(p, o, w) ==
    [pixels |-> Strokes(p, o, w)[Area(o)], fg |-> Foreground(p, o), bg |-> o.op = 0]
-----------------------------------------------------------------------------
\* A segment of a plane: bytes or differences in -128..127, and how often the
\* last is repeated.  The bytes that say a short run of one or two do not exist.
RunCode(raw, n) == IF n >= 16 THEN (n % 16) * 16 + n \div 16 ELSE 16 * Len(raw) + n
Coded(row, v) == IF row = 0 THEN v ELSE IF v < 0 THEN (0 - 2 * v) - 1 ELSE 2 * v
SegmentBytes(row, raw, n) == <<RunCode(raw, n)>> \o [i \in DOMAIN raw |-> Coded(row, raw[i])]

\* Segments that can be written.
WellFormedSegment(raw, n) ==
    /\ raw \in Seq(-128..255) /\ Len(raw) < 16
    /\ n \in (0..47) \ {1, 2} /\ (n >= 16 => raw = <<>>)

\* What a segment adds to a plane; `last' is the colour a run repeats.
Run(raw, n, last) == raw \o [i \in 1..n |-> IF raw = <<>> THEN last ELSE raw[Len(raw)]]
PaintedPlane(pixels, raw, n, last, w) ==
    LET run == Run(raw, n, last)
        N == Len(pixels)
    IN  pixels \o [i \in DOMAIN run |->
            (run[i] + (IF N + i <= w THEN 0 ELSE pixels[N + i - w])) % 256]
=============================================================================
