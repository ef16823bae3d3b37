-------------------------------- MODULE Rle --------------------------------
(***************************************************************************)
(* The two decoders of codec/rle.rs as records that are moved on by one    *)
(* order and one pixel (16 bits per pixel) or by one segment of a plane    *)
(* (32 bits per pixel).  `in' holds the bytes that were not read yet, and  *)
(* a result other than "more" ends the decoding.  Images are drawn from    *)
(* their last line up; `out' has the first line first.                     *)
(***************************************************************************)
EXTENDS Bits, Sequences

After(n, in) == SubSeq(in, n + 1, Len(in))
LE16(in) == in[1] + 256 * in[2]
Blank(n) == [i \in 1..n |-> 0]
NoLine == -1

Start16(w, h) ==
    [in |-> <<>>, out |-> Blank(w * h), result |-> "more",
     x |-> w, left |-> h, line |-> NoLine, prev |-> NoLine,
     op |-> 255, count |-> 0, colour1 |-> 0, colour2 |-> 0, mix |-> Ones,
     mask |-> 0, mixmask |-> 0, fom |-> 0, insertmix |-> FALSE, bicolour |-> FALSE]

Opcode(code) ==
    LET high == code \div 16
    IN  CASE high \in 12..14 -> high - 6
          [] high = 15       -> code % 16
          [] OTHER           -> high \div 2

\* A fault: a background run behind another one never starts with a foreground pixel.
InsertsNever(d, op, w) == d.insertmix
\* A background run behind another one does, except where the first line ends.
Inserts(d, op, w) == d.insertmix \/ (op = 0 /\ d.op = 0 /\ ~(d.x = w /\ d.prev = NoLine))

\* The head of an order: its code, then the count where the code has none, and the
\* colours it brings.
Long(code) == code \div 16 = 15
Narrow(code) == code \div 16 \in 12..14
InCode(code) == code % (IF Narrow(code) THEN 16 ELSE 32)
Sized(code) ==
    IF Long(code) THEN (IF Opcode(code) < 9 THEN 2 ELSE 0) ELSE (IF InCode(code) = 0 THEN 1 ELSE 0)
CountIn(in) ==
    LET code == in[1]
        op == Opcode(code)
        byEights == op \in {2, 7}
    IN  IF Long(code) THEN IF op < 9 THEN LE16(Tail(in)) ELSE IF op < 11 THEN 8 ELSE 1
        ELSE IF InCode(code) > 0 THEN (IF byEights THEN 8 ELSE 1) * InCode(code)
        ELSE in[2] + (IF byEights THEN 1 ELSE IF Narrow(code) THEN 16 ELSE 32)
Coloured(op) == CASE op = 8 -> 4 [] op \in {3, 6, 7} -> 2 [] OTHER -> 0

Order(d, w) ==
    LET op == Opcode(d.in[1])
        sized == 1 + Sized(d.in[1])
        colours == After(sized, d.in)
    IN  IF Len(d.in) < sized + Coloured(op) THEN [d EXCEPT !.result = "error"]
        ELSE [d EXCEPT
                !.in        = After(Coloured(op), colours),
                !.op        = CASE op \in {6, 7} -> op - 5 [] op \in {9, 10} -> 2 [] OTHER -> op,
                !.count     = CountIn(d.in),
                !.colour1   = IF op = 8 THEN LE16(colours) ELSE @,
                !.colour2   = CASE op = 8 -> LE16(After(2, colours))
                                [] op = 3 -> LE16(colours) [] OTHER -> @,
                !.mix       = IF op \in {6, 7} THEN LE16(colours) ELSE @,
                !.fom       = CASE op = 9 -> 3 [] op = 10 -> 5 [] OTHER -> 0,
                !.mixmask   = 0,
                !.insertmix = Inserts(d, op, w)]

NextLine(d, w) == [d EXCEPT !.x = 0, !.left = @ - 1, !.prev = d.line, !.line = (d.left - 1) * w]

\* One pixel of an order, on the next line when this one is full.
Plot(d, w) ==
    LET above == IF d.prev = NoLine THEN 0 ELSE d.out[d.prev + d.x + 1]
        next == (2 * d.mixmask) % 256
        reads == d.op = 2 /\ next = 0 /\ d.fom = 0
        bytes == CASE d.op = 4 -> 2 [] reads -> 1 [] OTHER -> 0
        mask == IF next # 0 THEN d.mask ELSE IF d.fom # 0 THEN d.fom ELSE d.in[1]
        bit == IF next = 0 THEN 1 ELSE next
        value == CASE d.op = 0  -> IF d.insertmix THEN Xor(above, d.mix) ELSE above
                   [] d.op = 1  -> Xor(above, d.mix)
                   [] d.op = 2  -> IF (mask \div bit) % 2 = 1 THEN Xor(above, d.mix) ELSE above
                   [] d.op = 3  -> d.colour2
                   [] d.op = 4  -> LE16(d.in)
                   [] d.op = 8  -> IF d.bicolour THEN d.colour2 ELSE d.colour1
                   [] d.op = 13 -> Ones
                   [] d.op = 14 -> 0
    IN  IF d.op \notin 0..4 \cup {8, 13, 14} THEN [d EXCEPT !.result = "panic"]
        ELSE IF Len(d.in) < bytes THEN [d EXCEPT !.result = "error"]
        ELSE [d EXCEPT
                !.in        = After(bytes, @),
                !.out[d.line + d.x + 1] = value,
                !.x         = @ + 1,
                !.count     = IF d.op = 8 /\ ~d.bicolour THEN @ ELSE @ - 1,
                !.mask      = IF d.op = 2 THEN mask ELSE @,
                !.mixmask   = IF d.op = 2 THEN bit ELSE @,
                !.insertmix = @ /\ d.op # 0,
                !.bicolour  = IF d.op = 8 THEN ~@ ELSE @]
Pixel(d, w) ==
    IF d.x < w THEN Plot(d, w)
    ELSE IF d.left = 0 THEN [d EXCEPT !.result = "error"]
    ELSE Plot(NextLine(d, w), w)

\* Five bits of red, six of green and five of blue, as blue, green, red and alpha.
Rgb32(v) ==
    <<((v % 32) * 527 + 23) \div 64, (((v \div 32) % 64) * 259 + 33) \div 64,
      ((v \div 2048) * 527 + 23) \div 64, 255>>
-----------------------------------------------------------------------------
\* Four planes: alpha, red, green and blue, behind a header that has to be 0x10.
StartPlanes(w, h, known) ==
    [in |-> <<>>, out |-> [p \in 1..4 |-> Blank(w * h)], result |-> IF known THEN "more" ELSE "error",
     plane |-> 1, row |-> 0, indexw |-> 0, colour |-> 0]

\* A difference from the pixel below: odd bytes are the negative ones.
Delta(x) == IF x % 2 = 1 THEN 0 - (x \div 2 + 1) ELSE x \div 2

\* A segment: some bytes, then the last of them again.  The length of a run of 16
\* to 47 takes the whole code.  A segment that leaves the plane is out of bounds.
Segment(d, w, h) ==
    LET code == d.in[1]
        swapped == (code % 16) * 16 + code \div 16
        long == swapped \in 16..47
        collen == IF long THEN 0 ELSE code \div 16
        replen == IF long THEN swapped ELSE code % 16
        colours == [i \in 1..collen |-> IF d.row = 0 THEN d.in[1 + i] ELSE Delta(d.in[1 + i])]
        colour == IF collen = 0 THEN d.colour ELSE colours[collen]
        run == colours \o [i \in 1..replen |-> colour]
        start == (h - d.row - 1) * w + d.indexw
        drawn == [i \in DOMAIN run |->
                    (run[i] + (IF d.row = 0 THEN 0 ELSE d.out[d.plane][start + i + w])) % 256]
        full == d.indexw + Len(run) >= w
        last == full /\ d.row + 1 = h
    IN  IF Len(d.in) < 1 + collen THEN [d EXCEPT !.result = "error"]
        ELSE IF start + Len(run) + (IF d.row = 0 THEN 0 ELSE w) > w * h THEN [d EXCEPT !.result = "panic"]
        ELSE [d EXCEPT
                !.in     = After(1 + collen, @),
                !.out[d.plane] = [i \in DOMAIN @ |->
                                    IF i - start \in DOMAIN run THEN drawn[i - start] ELSE @[i]],
                !.indexw = IF full THEN 0 ELSE @ + Len(run),
                !.colour = IF full THEN 0 ELSE colour,
                !.row    = IF last THEN 0 ELSE IF full THEN @ + 1 ELSE @,
                !.plane  = IF last THEN @ + 1 ELSE @,
                !.result = IF last /\ d.plane = 4 THEN "done" ELSE @]
=============================================================================
