---------------------------- MODULE WindowProofs ----------------------------
(***************************************************************************)
(* What is proved of the window: the decoders draw what the server paints, *)
(* a bitmap gets to its place, and the server follows the input.           *)
(***************************************************************************)
EXTENDS Window, SequenceTheorems, FiniteSetTheorems, WellFoundedInduction, TLAPS

Place(w, h, n) == (h - (n - 1) \div w - 1) * w + ((n - 1) % w) + 1

(***************************************************************************)
(* 16 bits per pixel: the decoder has drawn the first N pixels of the      *)
(* picture, and the rest of it is what the order under way still brings.   *)
(***************************************************************************)
Picture16 == [pixels : Seq(Word), fg : Word, bg : BOOLEAN]
Decoder16(w, h) ==
    [in : Seq(Byte), out : [1 .. (w * h) -> Word],
     result : {"more", "error", "drawn"},
     x : Nat, left : Nat, line : Int, prev : Int, op : Nat, count : Nat,
     colour1 : Word, colour2 : Word, mix : Word, mask : Byte, mixmask : Byte, fom : Byte,
     insertmix : BOOLEAN, bicolour : BOOLEAN]

\* Where the decoder stands behind N pixels.
Placed(d, w, h, N) ==
    IF N = 0 THEN d.x = w /\ d.left = h /\ d.line = NoLine /\ d.prev = NoLine
    ELSE /\ d.x = ((N - 1) % w) + 1
         /\ d.left = h - (N - 1) \div w - 1
         /\ d.line = d.left * w
         /\ d.prev = IF N <= w THEN NoLine ELSE d.line + w

\* The first N pixels are drawn, the others are not.
Faithful(out, pixels, w, h, N) ==
    \A n \in 1 .. (w * h) : out[Place(w, h, n)] = IF n <= N THEN pixels[n] ELSE 0

\* The last pixels of a picture are those of an order.
Ends(p, o, bg, w) ==
    LET N == Len(p.pixels) - Area(o)
    IN  /\ N \in Nat
        /\ p.bg = (o.op = 0) /\ (o.op \in {6, 7} => p.fg = o.colours[1])
        /\ \A k \in 1 .. Area(o) :
              p.pixels[N + k] = Colour(o, k, N + k - 1,
                                       IF N + k - 1 < w THEN 0 ELSE p.pixels[N + k - w],
                                       p.fg, bg, w)

\* What is left of the bytes and the count of an order behind k pixels.
Rest(o, k) ==
    CASE o.op = 4        -> After(2 * k, Twos(o.colours))
      [] o.op \in {2, 7} -> After((k + 7) \div 8, o.masks)
      [] OTHER           -> <<>>
Count(o, k) == IF o.op = 8 THEN o.n - k \div 2 ELSE Area(o) - k
Fills(o) == o.op \in {2, 7, 9, 10}

\* Between orders.
AtRest(d, p) ==
    d.in = <<>> /\ d.count = 0 /\ d.mix = p.fg /\ ~d.insertmix /\ ~d.bicolour /\ (d.op = 0 <=> p.bg)
\* In front of an order.
Before(d, p, o, bg) ==
    /\ d.in = OrderBytes(o) /\ d.count = 0 /\ ~d.insertmix /\ ~d.bicolour
    /\ d.op = 0 <=> bg
    /\ o.op \in {6, 7} \/ d.mix = p.fg
\* In an order, behind k pixels of it and N of the picture.
Within(d, p, o, bg, w, k, N) ==
    /\ d.op = IF Fills(o) THEN 2 ELSE IF o.op = 6 THEN 1 ELSE o.op
    /\ d.count = Count(o, k) /\ d.mix = p.fg /\ d.in = Rest(o, k)
    /\ d.fom = CASE o.op = 9 -> 3 [] o.op = 10 -> 5 [] OTHER -> 0
    /\ o.op \in {3, 8} => d.colour2 = o.colours[Len(o.colours)]
    /\ o.op = 8 => d.colour1 = o.colours[1]
    /\ d.insertmix <=> (o.op = 0 /\ k = 0 /\ bg /\ N \notin {0, w})
    /\ d.bicolour <=> (o.op = 8 /\ k % 2 = 1)
    /\ Fills(o) => IF k = 0 THEN d.mixmask = 0
                   ELSE d.mixmask = Weight((k - 1) % 8) /\ d.mask = MaskOf(o, k)

\* The first N pixels of the picture are in the image.
Drawn16(b, d, p, N) ==
    Placed(d, b.w, b.h, N) /\ Faithful(d.out, p.pixels, b.w, b.h, N) /\ N <= b.w * b.h
\* The last order is under way.
Underway(b, d, p, o, bg) ==
    LET N == Len(p.pixels) - Area(o)
    IN  /\ Ends(p, o, bg, b.w)
        /\ \/ Drawn16(b, d, p, N) /\ Before(d, p, o, bg)
           \/ \E k \in 0 .. (Area(o) - 1) : Drawn16(b, d, p, N + k) /\ Within(d, p, o, bg, b.w, k, N + k)
Following16(b, d, p) ==
    /\ d \in Decoder16(b.w, b.h) /\ p \in Picture16
    /\ \/ d.result = "error" /\ Len(p.pixels) > b.w * b.h
       \/ d.result \in {"more", "drawn"} /\ Drawn16(b, d, p, Len(p.pixels)) /\ AtRest(d, p)
       \/ d.result = "more" /\ \E o \in Orders, bg \in BOOLEAN : Underway(b, d, p, o, bg)

(***************************************************************************)
(* 32 bits per pixel: planes that are complete, one under way, and those   *)
(* that were not begun.                                                    *)
(***************************************************************************)
Planes == [planes : [1 .. 4 -> Seq(Byte)], last : Int]
Decoder32(w, h) ==
    [in : Seq(Byte), out : [1 .. 4 -> [1 .. (w * h) -> Byte]],
     result : {"more", "done", "drawn"},
     plane : 1 .. 5, row : 0 .. (h - 1), indexw : 0 .. (w - 1), colour : Int]

DrawnOf(d, w, h, q) ==
    IF q < d.plane THEN w * h ELSE IF q = d.plane THEN d.row * w + d.indexw ELSE 0
FaithfulPlanes(d, p, w, h) ==
    \A q \in 1 .. 4 : \A n \in 1 .. DrawnOf(d, w, h, q) : d.out[q][Place(w, h, n)] = p.planes[q][n]
\* A segment of a line and the pixels it brought.
Fresh(row, raw) == \A i \in DOMAIN raw : IF row = 0 THEN raw[i] >= 0 ELSE raw[i] < 128
Unread(d, p, w, raw, n) ==
    LET pixels == p.planes[d.plane]
        N == d.row * w + d.indexw
        run == Run(raw, n, d.colour)
    IN  /\ d.in = SegmentBytes(d.row, raw, n)
        /\ Len(raw) + n \in 1 .. (w - d.indexw) /\ Len(pixels) = N + Len(raw) + n
        /\ Fresh(d.row, raw)
        /\ \A i \in DOMAIN run :
              pixels[N + i] = (run[i] + (IF N + i <= w THEN 0 ELSE pixels[N + i - w])) % 256
        /\ p.last = IF Len(raw) + n = w - d.indexw THEN 0
                    ELSE IF raw = <<>> THEN d.colour ELSE raw[Len(raw)]

Following32(b, d, p) ==
    /\ d \in Decoder32(b.w, b.h) /\ p \in Planes
    /\ FaithfulPlanes(d, p, b.w, b.h)
    /\ d.result = "done" => d.plane = 5
    /\ d.plane = 5 => d.result \in {"done", "drawn"} /\ d.row = 0 /\ d.indexw = 0
    /\ d.result = "drawn" => d.plane = 5
    /\ \A q \in 1 .. 4 : q # d.plane => Len(p.planes[q]) = DrawnOf(d, b.w, b.h, q)
    /\ \/ d.in = <<>> /\ d.colour = p.last /\ (d.plane < 5 => Len(p.planes[d.plane]) = DrawnOf(d, b.w, b.h, d.plane))
       \/ d.plane < 5 /\ \E s \in Segments : Unread(d, p, b.w, s[1], s[2])

\* The three kinds of bitmaps; of planes with an unknown header nothing is read.
Follows(b, d, p) ==
    /\ b.compressed /\ b.bpp = 16 => Following16(b, d, p)
    /\ b.compressed /\ b.bpp = 32 => IF b.whole THEN Following32(b, d, p)
                                     ELSE d = StartPlanes(b.w, b.h, FALSE)
    /\ ~b.compressed => /\ d \in [in : {<<>>}, result : {"raw", "drawn"}]
                        /\ p = [NoPicture EXCEPT !.pixels = Raw(b)]
Following ==
    \/ bitmap = NoBitmap /\ decoder = NoBitmap /\ picture = NoPicture /\ gui = "open"
    \/ bitmap \in Bitmaps /\ Follows(bitmap, decoder, picture)
\* The window is black until the bitmap is drawn.
Shows ==
    IF decoder # NoBitmap /\ decoder.result = "drawn" THEN DrawnWhereItBelongs
    ELSE buffer = [i \in 1 .. (Width * Height) |-> Black]
InputInv == last_button \in {NoButton} \cup Buttons /\ InputFollows
IInv == Following /\ Shows /\ InputInv
-----------------------------------------------------------------------------
(***************************************************************************)
(* Lines and columns.                                                      *)
(***************************************************************************)
\* The line and the column of a number,
LEMMA DivMod ==
    ASSUME NEW w \in Nat \ {0}, NEW n \in Nat
    PROVE  n \div w \in Nat /\ n % w \in 0 .. (w - 1) /\ n = (n \div w) * w + (n % w)
  BY SMT

\* that are one pair only,
LEMMA Unique ==
    ASSUME NEW w \in Nat \ {0}, NEW r \in Nat, NEW s \in Nat, NEW c \in 0 .. (w - 1), NEW e \in 0 .. (w - 1), r * w + c = s * w + e
    PROVE  r = s /\ c = e
  <1>1. ~(r < s)
    <2> SUFFICES ASSUME r < s PROVE FALSE
      OBVIOUS
    <2>1. PICK t \in Nat : s = r + 1 + t
      <3> s - r - 1 \in Nat /\ s = r + 1 + (s - r - 1)
        OBVIOUS
      <3> QED
        OBVIOUS
    <2>2. s * w = r * w + w + t * w /\ t * w >= 0
      BY <2>1
    <2> QED
      BY <2>2
  <1>2. ~(s < r)
    <2> SUFFICES ASSUME s < r PROVE FALSE
      OBVIOUS
    <2>1. PICK t \in Nat : r = s + 1 + t
      <3> r - s - 1 \in Nat /\ r = s + 1 + (r - s - 1)
        OBVIOUS
      <3> QED
        OBVIOUS
    <2>2. r * w = s * w + w + t * w /\ t * w >= 0
      BY <2>1
    <2> QED
      BY <2>2
  <1> QED
    BY <1>1, <1>2

\* and those of a picture are the numbers below its size.
LEMMA InRange ==
    ASSUME NEW w \in Nat \ {0}, NEW h \in Nat \ {0}, NEW r \in 0 .. (h - 1), NEW c \in 0 .. (w - 1)
    PROVE  r * w + c \in 0 .. (w * h - 1)
  <1>1. PICK t \in Nat : h = r + 1 + t
    <2> h - r - 1 \in Nat /\ h = r + 1 + (h - r - 1)
      OBVIOUS
    <2> QED
      OBVIOUS
  <1>2. w * h = r * w + w + t * w /\ t * w >= 0 /\ r * w >= 0 /\ r * w \in Int
    BY <1>1
  <1> QED
    BY <1>2

\* The line of a pixel, counted from the lowest one.
LEMMA LineOf ==
    ASSUME NEW w \in Nat \ {0}, NEW h \in Nat \ {0}, NEW n \in 1 .. (w * h)
    PROVE  /\ w * h \in Nat /\ (n - 1) \div w \in 0 .. (h - 1) /\ (n - 1) % w \in 0 .. (w - 1)
           /\ n - 1 = ((n - 1) \div w) * w + ((n - 1) % w)
  <1>1. w * h \in Nat /\ n - 1 \in Nat
    OBVIOUS
  <1>2. /\ (n - 1) \div w \in Nat /\ (n - 1) % w \in 0 .. (w - 1)
        /\ n - 1 = ((n - 1) \div w) * w + ((n - 1) % w)
    BY <1>1, DivMod
  <1>3. ~((n - 1) \div w >= h)
    <2> DEFINE r == (n - 1) \div w
    <2> SUFFICES ASSUME r >= h PROVE FALSE
      OBVIOUS
    <2>1. PICK t \in Nat : r = h + t
      <3> r - h \in Nat /\ r = h + (r - h)
        BY <1>2
      <3> QED
        OBVIOUS
    <2>2. r * w = w * h + t * w /\ t * w >= 0 /\ t * w \in Int
      BY <2>1
    <2> HIDE DEF r
    <2>3. n - 1 = r * w + ((n - 1) % w)
      BY <1>2 DEF r
    <2> QED
      BY <1>1, <1>2, <2>2, <2>3
  <1> QED
    BY <1>1, <1>2, <1>3

\* Its place in the image,
LEMMA PlaceIs ==
    ASSUME NEW w \in Nat \ {0}, NEW h \in Nat \ {0}, NEW n \in 1 .. (w * h)
    PROVE  /\ Place(w, h, n) \in 1 .. (w * h)
           /\ Place(w, h, n) - 1 = (h - 1 - (n - 1) \div w) * w + ((n - 1) % w)
           /\ h - 1 - (n - 1) \div w \in 0 .. (h - 1)
  <1>1. h - 1 - (n - 1) \div w \in 0 .. (h - 1) /\ (n - 1) % w \in 0 .. (w - 1)
    <2> DEFINE r == (n - 1) \div w
    <2>1. r \in 0 .. (h - 1) /\ (n - 1) % w \in 0 .. (w - 1)
      BY LineOf
    <2> HIDE DEF r
    <2>2. h - 1 - r \in 0 .. (h - 1)
      BY <2>1
    <2> QED
      BY <2>1, <2>2 DEF r
  <1>2. (h - 1 - (n - 1) \div w) * w + ((n - 1) % w) \in 0 .. (w * h - 1)
    BY <1>1, InRange
  <1>3. h - (n - 1) \div w - 1 = h - 1 - (n - 1) \div w
    BY <1>1
  <1>4. Place(w, h, n) = (h - 1 - (n - 1) \div w) * w + ((n - 1) % w) + 1
    BY <1>3 DEF Place
  <1> QED
    BY <1>1, <1>2, <1>4

\* which is that of no other pixel,
LEMMA PlaceOnce ==
    ASSUME NEW w \in Nat \ {0}, NEW h \in Nat \ {0}, NEW n \in 1 .. (w * h), NEW m \in 1 .. (w * h),
           Place(w, h, n) = Place(w, h, m)
    PROVE  n = m
  <1> DEFINE r == (n - 1) \div w
             s == (m - 1) \div w
             c == (n - 1) % w
             e == (m - 1) % w
  <1>1. r \in 0 .. (h - 1) /\ s \in 0 .. (h - 1) /\ c \in 0 .. (w - 1) /\ e \in 0 .. (w - 1)
    BY LineOf
  <1>2. n - 1 = r * w + c /\ m - 1 = s * w + e
    BY LineOf
  <1>3. (h - 1 - r) * w + c = (h - 1 - s) * w + e
    BY PlaceIs
  <1>4. h - 1 - r \in Nat /\ h - 1 - s \in Nat
    BY <1>1
  <1> HIDE DEF r, s, c, e
  <1>5. h - 1 - r = h - 1 - s /\ c = e
    BY <1>1, <1>3, <1>4, Unique
  <1>6. r = s
    BY <1>1, <1>5
  <1> QED
    BY <1>2, <1>5, <1>6

\* and the pixel painted one line width before is below it.
LEMMA PlaceBelow ==
    ASSUME NEW w \in Nat \ {0}, NEW h \in Nat \ {0}, NEW n \in 1 .. (w * h), n > w
    PROVE  /\ n - w \in 1 .. (w * h) /\ Place(w, h, n - w) = Place(w, h, n) + w
           /\ (n - 1) \div w >= 1
  <1> DEFINE r == (n - 1) \div w
             s == (n - w - 1) \div w
             c == (n - 1) % w
             e == (n - w - 1) % w
  <1>1. n - w \in 1 .. (w * h) /\ w * h \in Nat
    OBVIOUS
  <1>2. r \in 0 .. (h - 1) /\ c \in 0 .. (w - 1) /\ n - 1 = r * w + c
    BY LineOf
  <1>3. s \in 0 .. (h - 1) /\ e \in 0 .. (w - 1) /\ n - w - 1 = s * w + e
    BY <1>1, LineOf
  <1>4. Place(w, h, n) - 1 = (h - 1 - r) * w + c /\ Place(w, h, n) \in 1 .. (w * h)
    BY PlaceIs
  <1>5. Place(w, h, n - w) - 1 = (h - 1 - s) * w + e /\ Place(w, h, n - w) \in 1 .. (w * h)
    BY <1>1, PlaceIs
  <1> HIDE DEF r, s, c, e
  <1>6. (s + 1) * w = s * w + w /\ s + 1 \in Nat
    BY <1>3
  <1>7. r * w + c = (s + 1) * w + e
    BY <1>2, <1>3, <1>6
  <1>8. r = s + 1 /\ c = e
    BY <1>2, <1>3, <1>6, <1>7, Unique
  <1>9. (h - 1 - s) * w = (h - 1 - r) * w + w
    BY <1>2, <1>3, <1>8
  <1>10. (h - 1 - r) * w \in Int
    BY <1>2
  <1>11. r >= 1
    BY <1>3, <1>8
  <1>12. Place(w, h, n - w) = Place(w, h, n) + w
    <2>1. Place(w, h, n - w) \in Int /\ Place(w, h, n) \in Int /\ c \in Int
      BY <1>1, <1>2, <1>4, <1>5
    <2>2. PICK y : y = (h - 1 - r) * w
      OBVIOUS
    <2>3. y \in Int /\ Place(w, h, n) - 1 = y + c /\ Place(w, h, n - w) - 1 = (y + w) + c
      BY <1>4, <1>5, <1>8, <1>9, <1>10, <2>2
    <2> QED
      BY <2>1, <2>3
  <1> QED
    BY <1>1, <1>11, <1>12 DEF r

-----------------------------------------------------------------------------
(***************************************************************************)
(* Words and sequences.                                                    *)
(***************************************************************************)
\* The range of a word.
LEMMA Words == Ones = 256 * 256 - 1 /\ (\A v : v \in Word <=> v \in Nat /\ v <= Ones)
  <1>1. Ones = 256 * 256 - 1
    BY DEF Ones
  <1>2. \A m \in Nat : \A v : v \in 0 .. m <=> v \in Nat /\ v <= m
    OBVIOUS
  <1>3. Ones \in Nat
    BY <1>1
  <1> QED
    BY <1>1, <1>2, <1>3, Zenon DEF Word

\* A word has two bytes.
LEMMA Halves ==
    ASSUME NEW a \in Word
    PROVE  (a % 256) + 256 * (a \div 256) = a /\ a % 256 \in Byte /\ a \div 256 \in Byte
  <1>1. a \in Nat /\ a <= 256 * 256 - 1
    BY Words
  <1>2. (a % 256) + 256 * (a \div 256) = a /\ a % 256 \in 0 .. 255 /\ a \div 256 \in Nat
    BY <1>1
  <1>3. a \div 256 <= 255
    BY <1>1, <1>2
  <1> QED
    BY <1>2, <1>3 DEF Byte

\* Two bytes make a word (LE16).
LEMMA Whole ==
    ASSUME NEW a \in Byte, NEW b \in Byte
    PROVE  a + 256 * b \in Word
  BY Words DEF Byte

\* Words in, a word out.
LEMMA XorWord ==
    ASSUME NEW a \in Word, NEW b \in Word
    PROVE  Xor(a, b) \in Word
  <1>1. \A x, y \in 0 .. 1 : Xor1(x, y) \in 0 .. 1
    BY DEF Xor1
  <1>2. \A x, y \in 0 .. 3 : Xor2(x, y) \in 0 .. 3
    <2> SUFFICES ASSUME NEW x \in 0 .. 3, NEW y \in 0 .. 3 PROVE Xor2(x, y) \in 0 .. 3
      OBVIOUS
    <2>1. x \div 2 \in 0 .. 1 /\ x % 2 \in 0 .. 1 /\ y \div 2 \in 0 .. 1 /\ y % 2 \in 0 .. 1
      OBVIOUS
    <2> QED
      BY <1>1, <2>1 DEF Xor2
  <1>3. \A x, y \in 0 .. 15 : Xor4(x, y) \in 0 .. 15
    <2> SUFFICES ASSUME NEW x \in 0 .. 15, NEW y \in 0 .. 15 PROVE Xor4(x, y) \in 0 .. 15
      OBVIOUS
    <2>1. x \div 4 \in 0 .. 3 /\ x % 4 \in 0 .. 3 /\ y \div 4 \in 0 .. 3 /\ y % 4 \in 0 .. 3
      OBVIOUS
    <2> QED
      BY <1>2, <2>1 DEF Xor4
  <1>4. \A x, y \in 0 .. 255 : Xor8(x, y) \in 0 .. 255
    <2> SUFFICES ASSUME NEW x \in 0 .. 255, NEW y \in 0 .. 255 PROVE Xor8(x, y) \in 0 .. 255
      OBVIOUS
    <2>1. x \div 16 \in 0 .. 15 /\ x % 16 \in 0 .. 15 /\ y \div 16 \in 0 .. 15 /\ y % 16 \in 0 .. 15
      OBVIOUS
    <2> QED
      BY <1>3, <2>1 DEF Xor8
  <1>5. /\ a \div 256 \in 0 .. 255 /\ a % 256 \in 0 .. 255
        /\ b \div 256 \in 0 .. 255 /\ b % 256 \in 0 .. 255
    BY Halves DEF Byte
  <1>6. PICK x \in 0 .. 255 : x = Xor8(a \div 256, b \div 256)
    BY <1>4, <1>5
  <1>7. PICK y \in 0 .. 255 : y = Xor8(a % 256, b % 256)
    BY <1>4, <1>5
  <1>8. Xor(a, b) = 256 * x + y
    BY <1>6, <1>7 DEF Xor
  <1>9. y + 256 * x \in Word
    BY Whole DEF Byte
  <1>10. Xor(a, b) = y + 256 * x
    BY <1>8
  <1> QED
    BY <1>9, <1>10

\* What is left of a sequence,
LEMMA AfterIs ==
    ASSUME NEW S, NEW s \in Seq(S), NEW n \in 0 .. Len(s)
    PROVE  /\ After(n, s) \in Seq(S) /\ Len(After(n, s)) = Len(s) - n
           /\ \A i \in 1 .. (Len(s) - n) : After(n, s)[i] = s[n + i]
  BY DEF After

\* of what was left of it,
LEMMA AfterTwice ==
    ASSUME NEW S, NEW s \in Seq(S), NEW n \in 0 .. Len(s), NEW m \in 0 .. (Len(s) - n)
    PROVE  After(m, After(n, s)) = After(n + m, s)
  <1>1. /\ After(n, s) \in Seq(S) /\ Len(After(n, s)) = Len(s) - n
        /\ \A i \in 1 .. (Len(s) - n) : After(n, s)[i] = s[n + i]
    BY AfterIs
  <1>2. /\ After(m, After(n, s)) \in Seq(S) /\ Len(After(m, After(n, s))) = Len(s) - n - m
        /\ \A i \in 1 .. (Len(s) - n - m) : After(m, After(n, s))[i] = After(n, s)[m + i]
    BY <1>1, AfterIs
  <1>3. /\ After(n + m, s) \in Seq(S) /\ Len(After(n + m, s)) = Len(s) - (n + m)
        /\ \A i \in 1 .. (Len(s) - (n + m)) : After(n + m, s)[i] = s[n + m + i]
    <2>1. n + m \in 0 .. Len(s)
      OBVIOUS
    <2> QED
      BY <2>1, AfterIs
  <1>4. \A i \in 1 .. (Len(s) - n - m) : After(m, After(n, s))[i] = After(n + m, s)[i]
    <2> SUFFICES ASSUME NEW i \in 1 .. (Len(s) - n - m)
                 PROVE  After(m, After(n, s))[i] = After(n + m, s)[i]
      OBVIOUS
    <2>1. m + i \in 1 .. (Len(s) - n) /\ n + (m + i) = n + m + i /\ i \in 1 .. (Len(s) - (n + m))
      OBVIOUS
    <2>2. After(m, After(n, s))[i] = s[n + (m + i)]
      BY <1>1, <1>2, <2>1
    <2> QED
      BY <1>3, <2>1, <2>2
  <1>5. Len(After(m, After(n, s))) = Len(After(n + m, s))
    BY <1>2, <1>3
  <1> QED
    BY <1>2, <1>3, <1>4, <1>5, SeqEqual

\* of two sequences one behind the other,
LEMMA AfterBoth ==
    ASSUME NEW S, NEW s \in Seq(S), NEW t \in Seq(S)
    PROVE  After(Len(s), s \o t) = t
  <1>1. s \o t \in Seq(S) /\ Len(s \o t) = Len(s) + Len(t) /\ Len(s) \in 0 .. Len(s \o t)
    OBVIOUS
  <1>2. /\ After(Len(s), s \o t) \in Seq(S) /\ Len(After(Len(s), s \o t)) = Len(t)
        /\ \A i \in 1 .. Len(t) : After(Len(s), s \o t)[i] = (s \o t)[Len(s) + i]
    <2>1. Len(s \o t) - Len(s) = Len(t)
      BY <1>1
    <2> QED
      BY <1>1, <2>1, AfterIs
  <1>3. \A i \in 1 .. Len(t) : (s \o t)[Len(s) + i] = t[i]
    OBVIOUS
  <1> QED
    BY <1>2, <1>3, SeqEqual

\* and at its end and its start.
LEMMA AfterEnds ==
    ASSUME NEW S, NEW s \in Seq(S)
    PROVE  After(Len(s), s) = <<>> /\ After(0, s) = s
  <1>1. After(Len(s), s) \in Seq(S) /\ Len(After(Len(s), s)) = 0
    BY AfterIs
  <1>2. /\ After(0, s) \in Seq(S) /\ Len(After(0, s)) = Len(s)
        /\ \A i \in 1 .. Len(s) : After(0, s)[i] = s[i]
    BY AfterIs
  <1> QED
    BY <1>1, <1>2, SeqEqual

\* Words as bytes.
LEMMA TwosAre ==
    ASSUME NEW s \in Seq(Word)
    PROVE  /\ Twos(s) \in Seq(Byte) /\ Len(Twos(s)) = 2 * Len(s)
           /\ \A k \in 1 .. Len(s) : /\ Twos(s)[2 * k - 1] = s[k] % 256 /\ Twos(s)[2 * k] = s[k] \div 256
                                     /\ (s[k] % 256) + 256 * (s[k] \div 256) = s[k]
  <1> DEFINE N == 2 * Len(s)
  <1>1. \A i \in 1 .. N : i % 2 = 1 => (i + 1) \div 2 \in 1 .. Len(s)
    OBVIOUS
  <1>2. \A i \in 1 .. N : i % 2 # 1 => i \div 2 \in 1 .. Len(s)
    OBVIOUS
  <1>3. \A k \in 1 .. Len(s) : /\ s[k] \in Word /\ s[k] % 256 \in Byte /\ s[k] \div 256 \in Byte
                               /\ (s[k] % 256) + 256 * (s[k] \div 256) = s[k]
    BY Halves
  <1>4. \A i \in 1 .. N : Twos(s)[i] \in Byte
    BY <1>1, <1>2, <1>3 DEF Twos
  <1>5. Twos(s) \in [1 .. N -> Byte] /\ N \in Nat
    BY <1>4 DEF Twos
  <1>6. Twos(s) \in Seq(Byte) /\ Len(Twos(s)) = N
    BY <1>5
  <1>7. \A k \in 1 .. Len(s) : /\ 2 * k - 1 \in 1 .. N /\ (2 * k - 1) % 2 = 1 /\ ((2 * k - 1) + 1) \div 2 = k
                               /\ 2 * k \in 1 .. N /\ (2 * k) % 2 # 1 /\ (2 * k) \div 2 = k
    OBVIOUS
  <1>8. \A k \in 1 .. Len(s) : Twos(s)[2 * k - 1] = s[k] % 256 /\ Twos(s)[2 * k] = s[k] \div 256
    BY <1>7 DEF Twos
  <1> QED
    BY <1>3, <1>6, <1>8

-----------------------------------------------------------------------------
(***************************************************************************)
(* The head of an order says which order it is.                            *)
(***************************************************************************)
\* The fields of an order.
LEMMA Form ==
    ASSUME NEW o, WellFormed(o)
    PROVE  /\ o.op \in {0, 1, 2, 3, 4, 6, 7, 8, 9, 10, 13, 14} /\ o.n \in Nat \ {0} /\ o.long \in BOOLEAN
           /\ o.n \in Word
           /\ o.colours \in Seq(Word) /\ o.masks \in Seq(Byte) /\ Area(o) \in Nat \ {0}
  <1>1. o.n \in Nat \ {0} /\ o.n \in Word
    <2>1. o.n \in 1 .. Ones
      BY DEF WellFormed
    <2>2. Ones \in Int
      BY DEF Ones
    <2> QED
      BY <2>1, <2>2 DEF Word
  <1>2. o.op \in {0, 1, 2, 3, 4, 6, 7, 8, 9, 10, 13, 14}
    BY DEF WellFormed
  <1>3. Area(o) \in Nat \ {0}
    BY <1>1, <1>2 DEF Area
  <1> QED
    BY <1>1, <1>2, <1>3 DEF WellFormed

\* What a head says: opcode, count, and how many bytes it takes.
Says(in, o, sized) ==
    Opcode(in[1]) = o.op /\ Sized(in[1]) = sized /\ CountIn(in) = Count(o, 0)

\* Orders of one byte,
LEMMA SaysSpecial ==
    ASSUME NEW o, WellFormed(o), o.op >= 9, NEW in, in[1] = 240 + o.op
    PROVE  Says(in, o, 0)
  <1>1. o.op \in {9, 10, 13, 14}
    BY Form
  <1>2. Long(in[1]) /\ Opcode(in[1]) = o.op
    BY <1>1 DEF Long, Opcode
  <1>3. Count(o, 0) = IF o.op < 11 THEN 8 ELSE 1
    BY <1>1 DEF Count, Area
  <1> QED
    BY <1>1, <1>2, <1>3 DEF Says, Sized, CountIn

\* the long form,
LEMMA SaysLong ==
    ASSUME NEW o, WellFormed(o), o.op < 9, NEW in \in Seq(Byte), Len(in) >= 3,
           in[1] = 240 + o.op, in[2] = o.n % 256, in[3] = o.n \div 256
    PROVE  Says(in, o, 2)
  <1>1. o.op \in {0, 1, 2, 3, 4, 6, 7, 8} /\ o.n \in Word
    BY Form, SMTT(20)
  <1>2. Long(in[1]) /\ Opcode(in[1]) = o.op
    BY <1>1 DEF Long, Opcode
  <1>3. Tail(in)[1] = in[2] /\ Tail(in)[2] = in[3]
    OBVIOUS
  <1>4. LE16(Tail(in)) = o.n
    BY <1>1, <1>3, Halves DEF LE16
  <1>5. Count(o, 0) = o.n
    BY <1>1, SMTT(20) DEF Count, Area, Word
  <1> QED
    BY <1>1, <1>2, <1>4, <1>5 DEF Says, Sized, CountIn

\* and the short ones: of five bits,
LEMMA SaysShort ==
    ASSUME NEW o, WellFormed(o), ~o.long, o.op \in {0, 1, 3, 4}, NEW in,
           IF o.n < 32 THEN in[1] = 32 * o.op + o.n ELSE in[1] = 32 * o.op /\ in[2] = o.n - 32
    PROVE  Says(in, o, IF o.n < 32 THEN 0 ELSE 1)
  <1>1. o.n \in Nat \ {0} /\ Count(o, 0) = o.n
    BY Form DEF Count, Area
  <1>2. CASE o.n < 32
    <2>1. in[1] = 32 * o.op + o.n /\ o.n \in 1 .. 31
      BY <1>1, <1>2
    <2>2. ~Long(in[1]) /\ ~Narrow(in[1])
      BY <2>1 DEF Long, Narrow
    <2>3. Opcode(in[1]) = o.op
      BY <2>1 DEF Opcode
    <2>4. InCode(in[1]) = o.n
      BY <2>1, <2>2 DEF InCode
    <2> QED
      BY <1>1, <1>2, <2>1, <2>2, <2>3, <2>4 DEF Says, Sized, CountIn
  <1>3. CASE o.n >= 32
    <2>1. in[1] = 32 * o.op /\ in[2] = o.n - 32
      BY <1>1, <1>3
    <2>2. ~Long(in[1]) /\ ~Narrow(in[1])
      BY <2>1 DEF Long, Narrow
    <2>3. Opcode(in[1]) = o.op
      BY <2>1 DEF Opcode
    <2>4. InCode(in[1]) = 0
      BY <2>1, <2>2 DEF InCode
    <2> QED
      BY <1>1, <1>3, <2>1, <2>2, <2>3, <2>4 DEF Says, Sized, CountIn
  <1> QED
    BY <1>1, <1>2, <1>3

\* of four,
LEMMA SaysNarrow ==
    ASSUME NEW o, WellFormed(o), ~o.long, o.op \in {6, 8}, NEW in, NEW base,
           base = IF o.op = 6 THEN 192 ELSE 224,
           IF o.n < 16 THEN in[1] = base + o.n ELSE in[1] = base /\ in[2] = o.n - 16
    PROVE  Says(in, o, IF o.n < 16 THEN 0 ELSE 1)
  <1>1. o.n \in Nat \ {0} /\ Count(o, 0) = o.n
    BY Form DEF Count, Area
  <1>2. CASE o.n < 16
    <2>1. in[1] = base + o.n /\ o.n \in 1 .. 15
      BY <1>1, <1>2
    <2>2. ~Long(in[1]) /\ Narrow(in[1])
      BY <2>1 DEF Long, Narrow
    <2>3. Opcode(in[1]) = o.op
      BY <2>1 DEF Opcode
    <2>4. InCode(in[1]) = o.n
      BY <2>1, <2>2 DEF InCode
    <2> QED
      BY <1>1, <1>2, <2>1, <2>2, <2>3, <2>4 DEF Says, Sized, CountIn
  <1>3. CASE o.n >= 16
    <2>1. in[1] = base /\ in[2] = o.n - 16
      BY <1>1, <1>3
    <2>2. ~Long(in[1]) /\ Narrow(in[1])
      BY <2>1 DEF Long, Narrow
    <2>3. Opcode(in[1]) = o.op
      BY <2>1 DEF Opcode
    <2>4. InCode(in[1]) = 0
      BY <2>1, <2>2 DEF InCode
    <2> QED
      BY <1>1, <1>3, <2>1, <2>2, <2>3, <2>4 DEF Says, Sized, CountIn
  <1> QED
    BY <1>1, <1>2, <1>3

\* and those that count by eights.
LEMMA SaysEights ==
    ASSUME NEW o, WellFormed(o), ~o.long, o.op \in {2, 7}, NEW in, NEW base, NEW limit,
           base = IF o.op = 2 THEN 64 ELSE 208, limit = IF o.op = 2 THEN 256 ELSE 128,
           IF o.n % 8 = 0 /\ o.n < limit THEN in[1] = base + o.n \div 8
                                          ELSE in[1] = base /\ in[2] = o.n - 1
    PROVE  Says(in, o, IF o.n % 8 = 0 /\ o.n < limit THEN 0 ELSE 1)
  <1>1. o.n \in Nat \ {0} /\ Count(o, 0) = o.n
    BY Form DEF Count, Area
  <1>2. CASE o.n % 8 = 0 /\ o.n < limit
    <2>1. PICK e \in Nat : e = o.n \div 8
      BY <1>1
    <2>2. in[1] = base + e /\ e \in 1 .. (IF o.op = 2 THEN 31 ELSE 15) /\ o.n = 8 * e
      BY <1>1, <1>2, <2>1
    <2>3. ~Long(in[1]) /\ (Narrow(in[1]) <=> o.op = 7)
      BY <2>2 DEF Long, Narrow
    <2>4. Opcode(in[1]) = o.op
      BY <2>2 DEF Opcode
    <2>5. InCode(in[1]) = e
      BY <2>2, <2>3 DEF InCode
    <2> QED
      BY <1>1, <1>2, <2>2, <2>3, <2>4, <2>5 DEF Says, Sized, CountIn
  <1>3. CASE ~(o.n % 8 = 0 /\ o.n < limit)
    <2>1. in[1] = base /\ in[2] = o.n - 1
      BY <1>3
    <2>2. ~Long(in[1]) /\ (Narrow(in[1]) <=> o.op = 7)
      BY <2>1 DEF Long, Narrow
    <2>3. Opcode(in[1]) = o.op
      BY <2>1 DEF Opcode
    <2>4. InCode(in[1]) = 0
      BY <2>1, <2>2 DEF InCode
    <2> QED
      BY <1>1, <1>3, <2>1, <2>2, <2>3, <2>4 DEF Says, Sized, CountIn
  <1> QED
    BY <1>2, <1>3

\* Heads of one, two and three bytes.
LEMMA Heads ==
    ASSUME NEW a \in Byte, NEW b \in Byte, NEW c \in Byte, NEW rest \in Seq(Byte)
    PROVE  /\ <<a>> \in Seq(Byte) /\ Len(<<a>>) = 1 /\ (<<a>> \o rest)[1] = a
           /\ <<a, b>> \in Seq(Byte) /\ Len(<<a, b>>) = 2
           /\ (<<a, b>> \o rest)[1] = a /\ (<<a, b>> \o rest)[2] = b
           /\ <<a>> \o <<b, c>> \in Seq(Byte) /\ Len(<<a>> \o <<b, c>>) = 3
           /\ LET in == (<<a>> \o <<b, c>>) \o rest
              IN  in \in Seq(Byte) /\ Len(in) >= 3 /\ in[1] = a /\ in[2] = b /\ in[3] = c
  <1>1. /\ <<a>> \in Seq(Byte) /\ Len(<<a>>) = 1 /\ (<<a>> \o rest)[1] = a
        /\ <<a, b>> \in Seq(Byte) /\ Len(<<a, b>>) = 2
    OBVIOUS
  <1>2. (<<a, b>> \o rest)[1] = a /\ (<<a, b>> \o rest)[2] = b
    OBVIOUS
  <1>3. <<a>> \o <<b, c>> \in Seq(Byte) /\ Len(<<a>> \o <<b, c>>) = 3
    OBVIOUS
  <1>4. (<<a>> \o <<b, c>>)[1] = a /\ (<<a>> \o <<b, c>>)[2] = b /\ (<<a>> \o <<b, c>>)[3] = c
    OBVIOUS
  <1> DEFINE s == <<a>> \o <<b, c>>
  <1>5. s \in Seq(Byte) /\ Len(s) >= 3 /\ s[1] = a /\ s[2] = b /\ s[3] = c
    BY <1>3, <1>4
  <1> HIDE DEF s
  <1>6. s \o rest \in Seq(Byte) /\ Len(s \o rest) >= 3
    BY <1>5
  <1>7. (s \o rest)[1] = a /\ (s \o rest)[2] = b /\ (s \o rest)[3] = c
    BY <1>5
  <1> QED
    BY <1>1, <1>2, <1>3, <1>6, <1>7 DEF s

\* The bytes of a head: one or two of them, or those of the long form.
Brief(o, wide, a, b) ==
    IF wide THEN a \in Byte /\ b \in Byte /\ Head16(o) = <<a, b>> ELSE a \in Byte /\ Head16(o) = <<a>>

\* The head that is written for the orders of one byte,
LEMMA HeadSpecial ==
    ASSUME NEW o, WellFormed(o), o.op >= 9
    PROVE  240 + o.op \in Byte /\ Head16(o) = <<240 + o.op>>
  <1>1. o.op \in {9, 10, 13, 14}
    BY Form
  <1>2. 240 + o.op \in Byte
    BY <1>1 DEF Byte
  <1> QED
    BY <1>2 DEF Head16

\* for those of the long form,
LEMMA HeadLong ==
    ASSUME NEW o, WellFormed(o), o.op < 9, o.long
    PROVE  /\ 240 + o.op \in Byte /\ o.n % 256 \in Byte /\ o.n \div 256 \in Byte
           /\ Head16(o) = <<240 + o.op>> \o <<o.n % 256, o.n \div 256>>
  <1>1. o.op \in {0, 1, 2, 3, 4, 6, 7, 8} /\ o.n \in Word
    BY Form
  <1>2. 240 + o.op \in Byte
    BY <1>1 DEF Byte
  <1>3. o.n % 256 \in Byte /\ o.n \div 256 \in Byte
    BY <1>1, Halves
  <1>4. Head16(o) = <<240 + o.op>> \o <<o.n % 256, o.n \div 256>>
    BY <1>1 DEF Head16, Two
  <1> QED
    BY <1>2, <1>3, <1>4

\* Short counts have their limits.
LEMMA Limits ==
    ASSUME NEW o, WellFormed(o), ~o.long
    PROVE  /\ o.n \in Nat \ {0}
           /\ o.op \in {0, 1, 3, 4} => o.n <= 287
           /\ o.op \in {6, 8} => o.n <= 271
           /\ o.op \in {2, 7} => o.n <= 256
  <1>1. o.n \in Nat \ {0}
    BY Form
  <1>2. o.n <= (CASE o.op \in {2, 7} -> 256 [] o.op \in {6, 8} -> 271 [] OTHER -> 287)
    BY DEF WellFormed
  <1> QED
    BY <1>1, <1>2

\* for those with a count of five bits,
LEMMA HeadShort ==
    ASSUME NEW o, WellFormed(o), ~o.long, o.op \in {0, 1, 3, 4}
    PROVE  /\ o.n < 32 => Brief(o, FALSE, 32 * o.op + o.n, 0)
           /\ ~(o.n < 32) => Brief(o, TRUE, 32 * o.op, o.n - 32)
  <1>1. o.n \in 1 .. 287
    BY Limits
  <1>2. CASE o.n < 32
    <2>1. 32 * o.op + o.n \in Byte
      BY <1>1, <1>2 DEF Byte
    <2>2. Head16(o) = <<32 * o.op + o.n>>
      BY <1>2 DEF Head16
    <2> QED
      BY <1>2, <2>1, <2>2 DEF Brief
  <1>3. CASE ~(o.n < 32)
    <2>1. 32 * o.op \in Byte /\ o.n - 32 \in Byte
      BY <1>1, <1>3 DEF Byte
    <2>2. Head16(o) = <<32 * o.op, o.n - 32>>
      BY <1>3 DEF Head16
    <2> QED
      BY <1>3, <2>1, <2>2 DEF Brief
  <1> QED
    BY <1>2, <1>3

\* for those with a count of four bits,
LEMMA HeadNarrow ==
    ASSUME NEW o, WellFormed(o), ~o.long, o.op \in {6, 8}, NEW base, base = IF o.op = 6 THEN 192 ELSE 224
    PROVE  /\ o.n < 16 => Brief(o, FALSE, base + o.n, 0)
           /\ ~(o.n < 16) => Brief(o, TRUE, base, o.n - 16)
  <1>1. o.n \in 1 .. 271
    BY Limits
  <1>2. CASE o.n < 16
    <2>1. base + o.n \in Byte
      BY <1>1, <1>2 DEF Byte
    <2>2. Head16(o) = <<base + o.n>>
      BY <1>2 DEF Head16
    <2> QED
      BY <1>2, <2>1, <2>2 DEF Brief
  <1>3. CASE ~(o.n < 16)
    <2>1. base \in Byte /\ o.n - 16 \in Byte
      BY <1>1, <1>3 DEF Byte
    <2>2. Head16(o) = <<base, o.n - 16>>
      BY <1>3 DEF Head16
    <2> QED
      BY <1>3, <2>1, <2>2 DEF Brief
  <1> QED
    BY <1>2, <1>3

\* and for those that count by eights.
LEMMA HeadEights ==
    ASSUME NEW o, WellFormed(o), ~o.long, o.op \in {2, 7}, NEW base, NEW limit,
           base = IF o.op = 2 THEN 64 ELSE 208, limit = IF o.op = 2 THEN 256 ELSE 128
    PROVE  /\ o.n % 8 = 0 /\ o.n < limit => Brief(o, FALSE, base + o.n \div 8, 0)
           /\ ~(o.n % 8 = 0 /\ o.n < limit) => Brief(o, TRUE, base, o.n - 1)
  <1>1. o.n \in 1 .. 256
    BY Limits
  <1>2. CASE o.n % 8 = 0 /\ o.n < limit
    <2>1. base + o.n \div 8 \in Byte
      BY <1>1, <1>2 DEF Byte
    <2>2. Head16(o) = <<base + o.n \div 8>>
      BY <1>2 DEF Head16
    <2> QED
      BY <1>2, <2>1, <2>2 DEF Brief
  <1>3. CASE ~(o.n % 8 = 0 /\ o.n < limit)
    <2>1. base \in Byte /\ o.n - 1 \in Byte
      BY <1>1, <1>3 DEF Byte
    <2>2. Head16(o) = <<base, o.n - 1>>
      BY <1>3 DEF Head16
    <2> QED
      BY <1>3, <2>1, <2>2 DEF Brief
  <1> QED
    BY <1>2, <1>3

\* A head that says the order.
Heading(o, rest) ==
    /\ Head16(o) \in Seq(Byte) /\ Len(Head16(o)) \in 1 .. 3
    /\ Says(Head16(o) \o rest, o, Len(Head16(o)) - 1)

\* The decoder reads the order from the head of it, whatever follows.
LEMMA HeadSays ==
    ASSUME NEW o, WellFormed(o), NEW rest \in Seq(Byte)
    PROVE  Heading(o, rest)
  <1> DEFINE in == Head16(o) \o rest
  <1>1. /\ o.op \in {0, 1, 2, 3, 4, 6, 7, 8, 9, 10, 13, 14} /\ o.long \in BOOLEAN
    BY Form
  <1>2. ASSUME NEW a, NEW b, Brief(o, FALSE, a, b)
        PROVE  Head16(o) \in Seq(Byte) /\ Len(Head16(o)) = 1 /\ in[1] = a
    <2>1. a \in Byte /\ Head16(o) = <<a>>
      BY <1>2 DEF Brief
    <2> QED
      BY <2>1, Heads
  <1>3. ASSUME NEW a, NEW b, Brief(o, TRUE, a, b)
        PROVE  Head16(o) \in Seq(Byte) /\ Len(Head16(o)) = 2 /\ in[1] = a /\ in[2] = b
    <2>1. a \in Byte /\ b \in Byte /\ Head16(o) = <<a, b>>
      BY <1>3 DEF Brief
    <2> QED
      BY <2>1, Heads
  <1> HIDE DEF in
  <1>4. CASE o.op >= 9
    <2>1. 240 + o.op \in Byte /\ Head16(o) = <<240 + o.op>>
      BY <1>4, HeadSpecial
    <2>2. Head16(o) \in Seq(Byte) /\ Len(Head16(o)) = 1 /\ in[1] = 240 + o.op
      BY <2>1, Heads DEF in
    <2>3. Says(in, o, 0)
      BY <1>4, <2>2, SaysSpecial
    <2> QED
      BY <2>2, <2>3 DEF in, Heading
  <1>5. CASE o.op < 9 /\ o.long
    <2>1. /\ 240 + o.op \in Byte /\ o.n % 256 \in Byte /\ o.n \div 256 \in Byte
          /\ Head16(o) = <<240 + o.op>> \o <<o.n % 256, o.n \div 256>>
      BY <1>5, HeadLong
    <2>2. /\ Head16(o) \in Seq(Byte) /\ Len(Head16(o)) = 3
          /\ in \in Seq(Byte) /\ Len(in) >= 3
          /\ in[1] = 240 + o.op /\ in[2] = o.n % 256 /\ in[3] = o.n \div 256
      BY <2>1, Heads DEF in
    <2>3. Says(in, o, 2)
      BY <1>5, <2>2, SaysLong
    <2> QED
      BY <2>2, <2>3 DEF in, Heading
  <1>6. CASE ~o.long /\ o.op \in {0, 1, 3, 4}
    <2>1. CASE o.n < 32
      <3>1. Brief(o, FALSE, 32 * o.op + o.n, 0)
        BY <1>6, <2>1, HeadShort
      <3>2. Head16(o) \in Seq(Byte) /\ Len(Head16(o)) = 1 /\ in[1] = 32 * o.op + o.n
        BY <1>2, <3>1
      <3>3. Says(in, o, 0)
        BY <1>6, <2>1, <3>2, SaysShort
      <3> QED
        BY <3>2, <3>3 DEF in, Heading
    <2>2. CASE ~(o.n < 32)
      <3>1. Brief(o, TRUE, 32 * o.op, o.n - 32)
        BY <1>6, <2>2, HeadShort
      <3>2. Head16(o) \in Seq(Byte) /\ Len(Head16(o)) = 2 /\ in[1] = 32 * o.op /\ in[2] = o.n - 32
        BY <1>3, <3>1
      <3>3. Says(in, o, 1)
        BY <1>6, <2>2, <3>2, SaysShort
      <3> QED
        BY <3>2, <3>3 DEF in, Heading
    <2> QED
      BY <2>1, <2>2
  <1>7. CASE ~o.long /\ o.op \in {6, 8}
    <2>1. PICK base : base = IF o.op = 6 THEN 192 ELSE 224
      OBVIOUS
    <2>2. CASE o.n < 16
      <3>1. Brief(o, FALSE, base + o.n, 0)
        BY <1>7, <2>1, <2>2, HeadNarrow
      <3>2. Head16(o) \in Seq(Byte) /\ Len(Head16(o)) = 1 /\ in[1] = base + o.n
        BY <1>2, <3>1
      <3>3. Says(in, o, 0)
        BY <1>7, <2>1, <2>2, <3>2, SaysNarrow
      <3> QED
        BY <3>2, <3>3 DEF in, Heading
    <2>3. CASE ~(o.n < 16)
      <3>1. Brief(o, TRUE, base, o.n - 16)
        BY <1>7, <2>1, <2>3, HeadNarrow
      <3>2. Head16(o) \in Seq(Byte) /\ Len(Head16(o)) = 2 /\ in[1] = base /\ in[2] = o.n - 16
        BY <1>3, <3>1
      <3>3. Says(in, o, 1)
        BY <1>7, <2>1, <2>3, <3>2, SaysNarrow
      <3> QED
        BY <3>2, <3>3 DEF in, Heading
    <2> QED
      BY <2>2, <2>3
  <1>8. CASE ~o.long /\ o.op \in {2, 7}
    <2>1. PICK base : base = IF o.op = 2 THEN 64 ELSE 208
      OBVIOUS
    <2>2. PICK limit : limit = IF o.op = 2 THEN 256 ELSE 128
      OBVIOUS
    <2>3. CASE o.n % 8 = 0 /\ o.n < limit
      <3>1. Brief(o, FALSE, base + o.n \div 8, 0)
        BY <1>8, <2>1, <2>2, <2>3, HeadEights
      <3>2. Head16(o) \in Seq(Byte) /\ Len(Head16(o)) = 1 /\ in[1] = base + o.n \div 8
        BY <1>2, <3>1
      <3>3. Says(in, o, 0)
        BY <1>8, <2>1, <2>2, <2>3, <3>2, SaysEights
      <3> QED
        BY <3>2, <3>3 DEF in, Heading
    <2>4. CASE ~(o.n % 8 = 0 /\ o.n < limit)
      <3>1. Brief(o, TRUE, base, o.n - 1)
        BY <1>8, <2>1, <2>2, <2>4, HeadEights
      <3>2. Head16(o) \in Seq(Byte) /\ Len(Head16(o)) = 2 /\ in[1] = base /\ in[2] = o.n - 1
        BY <1>3, <3>1
      <3>3. Says(in, o, 1)
        BY <1>8, <2>1, <2>2, <2>4, <3>2, SaysEights
      <3> QED
        BY <3>2, <3>3 DEF in, Heading
    <2> QED
      BY <2>3, <2>4
  <1> QED
    BY <1>1, <1>4, <1>5, <1>6, <1>7, <1>8

\* Two sequences one behind the other.
LEMMA Joined ==
    ASSUME NEW S, NEW s \in Seq(S), NEW t \in Seq(S)
    PROVE  /\ s \o t \in Seq(S) /\ Len(s \o t) = Len(s) + Len(t) /\ Len(s) \in Nat /\ Len(t) \in Nat
           /\ \A i \in 1 .. Len(s) : (s \o t)[i] = s[i]
           /\ \A i \in 1 .. Len(t) : (s \o t)[Len(s) + i] = t[i]
  OBVIOUS

\* The colours behind it are those of the order,
LEMMA ColoursRead ==
    ASSUME NEW s \in Seq(Word), NEW t \in Seq(Byte)
    PROVE  /\ Len(s) >= 1 => LE16(Twos(s) \o t) = s[1]
           /\ Len(s) >= 2 => LE16(After(2, Twos(s) \o t)) = s[2]
           /\ Twos(s) \o t \in Seq(Byte) /\ Len(Twos(s) \o t) = 2 * Len(s) + Len(t)
           /\ After(2 * Len(s), Twos(s) \o t) = t
  <1> DEFINE u == Twos(s)
             v == u \o t
  <1>1. /\ u \in Seq(Byte) /\ Len(u) = 2 * Len(s)
        /\ \A k \in 1 .. Len(s) : u[2 * k - 1] + 256 * u[2 * k] = s[k]
    BY TwosAre
  <1> HIDE DEF u
  <1>2. v \in Seq(Byte) /\ Len(v) = Len(u) + Len(t) /\ \A i \in 1 .. Len(u) : v[i] = u[i]
    BY <1>1, Joined, ZenonT(30)
  <1>3. After(Len(u), v) = t
    BY <1>1, AfterBoth
  <1> HIDE DEF v
  <1>4. Len(s) \in Nat /\ Len(t) \in Nat
    OBVIOUS
  <1>5. ASSUME Len(s) >= 1 PROVE LE16(v) = s[1]
    <2>1. u[2 * 1 - 1] + 256 * u[2 * 1] = s[1] /\ 1 \in 1 .. Len(u) /\ 2 \in 1 .. Len(u)
      BY <1>1, <1>4, <1>5
    <2>2. v[1] = u[1] /\ v[2] = u[2]
      BY <1>2, <2>1
    <2> QED
      BY <2>1, <2>2 DEF LE16
  <1>6. ASSUME Len(s) >= 2 PROVE LE16(After(2, v)) = s[2]
    <2>1. u[2 * 2 - 1] + 256 * u[2 * 2] = s[2] /\ 3 \in 1 .. Len(u) /\ 4 \in 1 .. Len(u)
      BY <1>1, <1>4, <1>6
    <2>2. v[3] = u[3] /\ v[4] = u[4]
      BY <1>2, <2>1
    <2>3. 2 \in 0 .. Len(v) /\ 1 \in 1 .. (Len(v) - 2) /\ 2 \in 1 .. (Len(v) - 2)
      BY <1>1, <1>2, <1>4, <1>6
    <2>4. \A i \in 1 .. (Len(v) - 2) : After(2, v)[i] = v[2 + i]
      BY <1>2, <2>3, AfterIs
    <2>5. After(2, v)[1] = v[3] /\ After(2, v)[2] = v[4]
      BY <2>3, <2>4
    <2> QED
      BY <2>1, <2>2, <2>5 DEF LE16
  <1> QED
    BY <1>1, <1>2, <1>3, <1>5, <1>6 DEF v, u

\* as many as its head says, unless each pixel has its own,
LEMMA ColourCount ==
    ASSUME NEW o, WellFormed(o)
    PROVE  /\ Coloured(o.op) \in Nat /\ (o.op # 4 => 2 * Len(o.colours) = Coloured(o.op))
           /\ o.op \in {3, 6, 7, 8} => Len(o.colours) >= 1
           /\ o.op = 8 => Len(o.colours) >= 2
           /\ o.op = 4 => Coloured(o.op) = 0 /\ Len(o.colours) = o.n /\ o.masks = <<>>
           /\ o.op \notin {2, 7} => o.masks = <<>>
           /\ o.op \in {2, 7} => Len(o.masks) = (o.n + 7) \div 8
           /\ o.op = 8 => Len(o.colours) = 2
           /\ o.op \in {3, 6, 7} => Len(o.colours) = 1
           /\ o.op = 2 => o.colours = <<>>
  <1>1. /\ o.op \in {0, 1, 2, 3, 4, 6, 7, 8, 9, 10, 13, 14}
        /\ o.colours \in Seq(Word) /\ o.masks \in Seq(Byte)
    BY Form
  <1>2. /\ Len(o.colours) = CASE o.op \in {3, 6, 7} -> 1 [] o.op = 8 -> 2 [] o.op = 4 -> o.n [] OTHER -> 0
        /\ Len(o.masks) = IF o.op \in {2, 7} THEN (o.n + 7) \div 8 ELSE 0
    BY DEF WellFormed
  <1>3. \A S : \A s \in Seq(S) : Len(s) = 0 => s = <<>>
    OBVIOUS
  <1>4. o.op # 4 => 2 * Len(o.colours) = Coloured(o.op)
    BY <1>1, <1>2 DEF Coloured
  <1>5. o.op \notin {2, 7} => o.masks = <<>>
    BY <1>1, <1>2, <1>3
  <1>6. o.op = 4 => Coloured(o.op) = 0 /\ Len(o.colours) = o.n
    BY <1>2 DEF Coloured
  <1>7. o.op = 2 => o.colours = <<>>
    BY <1>1, <1>2, <1>3
  <1>8. /\ o.op = 8 => Len(o.colours) = 2
        /\ o.op \in {3, 6, 7} => Len(o.colours) = 1
    BY <1>2
  <1>9. /\ o.op = 8 => Len(o.colours) >= 2
        /\ o.op \in {3, 6, 7, 8} => Len(o.colours) >= 1
    BY <1>2
  <1>10. Coloured(o.op) \in Nat
    BY <1>1 DEF Coloured
  <1> QED
    BY <1>2, <1>4, <1>5, <1>6, <1>7, <1>8, <1>9, <1>10

\* and what the pixels take is left.
LEMMA BytesRead ==
    ASSUME NEW o, WellFormed(o), NEW in, in = OrderBytes(o)
    PROVE  LET rest == After(1 + Sized(in[1]), in)
           IN  /\ in \in Seq(Byte) /\ Opcode(in[1]) = o.op /\ CountIn(in) = Count(o, 0)
               /\ Len(in) >= 1 + Sized(in[1]) + Coloured(o.op)
               /\ After(Coloured(o.op), rest) = Rest(o, 0) /\ Rest(o, 0) \in Seq(Byte)
               /\ o.op \in {3, 6, 7, 8} => LE16(rest) = o.colours[1]
               /\ o.op = 8 => LE16(After(2, rest)) = o.colours[2]
  <1> DEFINE rest == Twos(o.colours) \o o.masks
             head == Head16(o)
             sized == 1 + Sized(in[1])
  <1>1. o.colours \in Seq(Word) /\ o.masks \in Seq(Byte) /\ Twos(o.colours) \in Seq(Byte)
        /\ Len(o.colours) \in Nat /\ Len(o.masks) \in Nat
    BY Form, TwosAre
  <1>2. /\ Len(o.colours) >= 1 => LE16(rest) = o.colours[1]
        /\ Len(o.colours) >= 2 => LE16(After(2, rest)) = o.colours[2]
        /\ rest \in Seq(Byte) /\ Len(rest) = 2 * Len(o.colours) + Len(o.masks)
        /\ After(2 * Len(o.colours), rest) = o.masks
    BY <1>1, ColoursRead
  <1>3. Heading(o, rest)
    BY <1>2, HeadSays
  <1>4. head \in Seq(Byte) /\ Len(head) \in 1 .. 3 /\ Says(head \o rest, o, Len(head) - 1)
    BY <1>3 DEF Heading
  <1>5. in = head \o rest
    <2>1. (head \o Twos(o.colours)) \o o.masks = head \o (Twos(o.colours) \o o.masks)
      <3> HIDE DEF head, rest
      <3>1. \A s, t, u \in Seq(Byte) : (s \o t) \o u = s \o (t \o u)
        BY ConcatAssociative
      <3>2. head \in Seq(Byte)
        BY <1>4
      <3> QED
        BY <1>1, <3>1, <3>2
    <2> QED
      BY <2>1 DEF OrderBytes
  <1> HIDE DEF head
  <1>6. After(0, rest) = rest
    BY <1>2, AfterEnds
  <1>7. o.op = 4 => rest = Twos(o.colours)
    BY <1>1, ColourCount, ConcatEmptySeq
  <1> HIDE DEF rest
  <1>8. Opcode(in[1]) = o.op /\ CountIn(in) = Count(o, 0) /\ sized = Len(head)
    BY <1>4, <1>5 DEF Says
  <1>9. in \in Seq(Byte) /\ Len(in) = Len(head) + Len(rest) /\ After(Len(head), in) = rest
    <2>1. head \o rest \in Seq(Byte) /\ Len(head \o rest) = Len(head) + Len(rest)
      BY <1>2, <1>4, Joined
    <2>2. After(Len(head), head \o rest) = rest
      BY <1>2, <1>4, AfterBoth
    <2> QED
      BY <1>5, <2>1, <2>2
  <1>10. Coloured(o.op) \in Nat /\ Len(rest) >= Coloured(o.op) /\ Len(rest) \in Nat
    <2>1. PICK L \in Nat : L = Len(o.colours)
      BY <1>1
    <2>2. PICK M \in Nat : M = Len(o.masks)
      BY <1>1
    <2>3. /\ Coloured(o.op) \in Nat /\ (o.op # 4 => 2 * L = Coloured(o.op))
          /\ o.op = 4 => Coloured(o.op) = 0
      BY <2>1, ColourCount
    <2>4. Len(rest) = 2 * L + M
      BY <1>2, <2>1, <2>2
    <2> QED
      BY <2>3, <2>4
  <1>11. Len(in) >= sized + Coloured(o.op)
    BY <1>4, <1>8, <1>9, <1>10
  <1> HIDE DEF sized
  <1>12. After(Coloured(o.op), rest) = Rest(o, 0) /\ Rest(o, 0) \in Seq(Byte)
    <2>1. CASE o.op = 4
      <3>1. After(2 * 0, Twos(o.colours)) = Twos(o.colours)
        BY <1>6, <1>7, <2>1
      <3>2. Coloured(o.op) = 0
        BY <2>1, ColourCount
      <3> QED
        BY <1>1, <1>6, <1>7, <2>1, <3>1, <3>2 DEF Rest
    <2>2. CASE o.op \in {2, 7}
      <3>1. After((0 + 7) \div 8, o.masks) = o.masks
        <4>1. (0 + 7) \div 8 = 0
          OBVIOUS
        <4> QED
          BY <1>1, <4>1, AfterEnds
      <3> QED
        BY <1>1, <1>2, <2>2, <3>1, ColourCount DEF Rest
    <2>3. CASE o.op \notin {2, 4, 7}
      <3>1. Rest(o, 0) = <<>>
        BY <2>3 DEF Rest
      <3> QED
        BY <1>1, <1>2, <2>3, <3>1, ColourCount
    <2> QED
      BY <2>1, <2>2, <2>3
  <1>13. /\ o.op \in {3, 6, 7, 8} => Len(o.colours) >= 1
         /\ o.op = 8 => Len(o.colours) >= 2
    BY ColourCount
  <1>14. After(sized, in) = rest
    BY <1>8, <1>9
  <1> QED
    BY <1>2, <1>8, <1>9, <1>11, <1>12, <1>13, <1>14 DEF sized

\* The decoder has not reached the second line unless there are pixels in it.
LEMMA AtTheEdge ==
    ASSUME NEW w \in Nat \ {0}, NEW h \in Nat \ {0}, NEW d \in Decoder16(w, h), NEW N \in Nat,
           Placed(d, w, h, N), N <= w * h
    PROVE  (d.x = w /\ d.prev = NoLine) <=> N \in {0, w}
  <1>1. CASE N = 0
    BY <1>1 DEF Placed
  <1>2. CASE N # 0 /\ N <= w
    <2>1. d.x = ((N - 1) % w) + 1 /\ d.prev = NoLine
      BY <1>2 DEF Placed
    <2>2. (N - 1) % w = N - 1
      BY <1>2
    <2> QED
      BY <1>2, <2>1, <2>2
  <1>3. CASE N > w
    <2>1. d.prev = d.line + w /\ d.line = d.left * w
      BY <1>3 DEF Placed
    <2>2. d.left \in Nat
      BY DEF Decoder16
    <2>3. d.left * w \in Nat
      BY <2>2
    <2>4. d.prev # NoLine
      BY <2>1, <2>3 DEF NoLine
    <2> QED
      BY <1>3, <2>4
  <1> QED
    BY <1>1, <1>2, <1>3

\* Reading an order: the decoder is in front of its first pixel.
LEMMA Parsed ==
    ASSUME NEW w \in Nat \ {0}, NEW h \in Nat \ {0}, NEW d \in Decoder16(w, h), NEW p \in Picture16, NEW N \in Nat,
           NEW o, WellFormed(o), NEW bg \in BOOLEAN, o.op \in {6, 7} => p.fg = o.colours[1],
           Placed(d, w, h, N), N <= w * h, Before(d, p, o, bg)
    PROVE  LET e == Order(d, w)
           IN  /\ e \in Decoder16(w, h) /\ e.result = d.result /\ e.out = d.out
               /\ Placed(e, w, h, N) /\ Within(e, p, o, bg, w, 0, N)
  <1> DEFINE e == Order(d, w)
             rest == After(1 + Sized(d.in[1]), d.in)
  <1>1. d.in = OrderBytes(o) /\ ~d.insertmix /\ ~d.bicolour /\ (d.op = 0 <=> bg) /\ (o.op \in {6, 7} \/ d.mix = p.fg)
    BY DEF Before
  <1>2. /\ d.in \in Seq(Byte) /\ Opcode(d.in[1]) = o.op /\ CountIn(d.in) = Count(o, 0)
        /\ Len(d.in) >= 1 + Sized(d.in[1]) + Coloured(o.op)
        /\ After(Coloured(o.op), rest) = Rest(o, 0) /\ Rest(o, 0) \in Seq(Byte)
        /\ o.op \in {3, 6, 7, 8} => LE16(rest) = o.colours[1]
        /\ o.op = 8 => LE16(After(2, rest)) = o.colours[2]
    BY <1>1, BytesRead
  <1>3. ~(Len(d.in) < 1 + Sized(d.in[1]) + Coloured(o.op))
    <2>1. Sized(d.in[1]) \in Nat /\ Coloured(o.op) \in Nat /\ Len(d.in) \in Nat
      BY <1>2, ColourCount DEF Sized
    <2> QED
      BY <1>2, <2>1
  <1> HIDE DEF rest
  <1>4. e = [d EXCEPT
                !.in        = Rest(o, 0),
                !.op        = CASE o.op \in {6, 7} -> o.op - 5 [] o.op \in {9, 10} -> 2 [] OTHER -> o.op,
                !.count     = Count(o, 0),
                !.colour1   = IF o.op = 8 THEN LE16(rest) ELSE d.colour1,
                !.colour2   = CASE o.op = 8 -> LE16(After(2, rest))
                                [] o.op = 3 -> LE16(rest) [] OTHER -> d.colour2,
                !.mix       = IF o.op \in {6, 7} THEN LE16(rest) ELSE d.mix,
                !.fom       = CASE o.op = 9 -> 3 [] o.op = 10 -> 5 [] OTHER -> 0,
                !.mixmask   = 0,
                !.insertmix = Inserts(d, o.op, w)]
    BY <1>2, <1>3, ZenonT(30) DEF Order, Decoder16, rest
  <1>5. Inserts(d, o.op, w) <=> (o.op = 0 /\ bg /\ N \notin {0, w})
    BY <1>1, AtTheEdge DEF Inserts
  <1>6. /\ o.op \in {0, 1, 2, 3, 4, 6, 7, 8, 9, 10, 13, 14} /\ Count(o, 0) \in Nat
        /\ o.colours \in Seq(Word)
    BY Form DEF Count
  <1>7. /\ o.op \in {3, 6, 7, 8} => o.colours[1] \in Word
        /\ o.op = 8 => o.colours[2] \in Word
    BY <1>6, ColourCount
  <1>8. /\ e.in = Rest(o, 0) /\ e.count = Count(o, 0) /\ e.mixmask = 0 /\ (e.insertmix <=> Inserts(d, o.op, w))
        /\ e.op = (CASE o.op \in {6, 7} -> o.op - 5 [] o.op \in {9, 10} -> 2 [] OTHER -> o.op)
        /\ e.fom = (CASE o.op = 9 -> 3 [] o.op = 10 -> 5 [] OTHER -> 0)
        /\ e.colour1 = (IF o.op = 8 THEN LE16(rest) ELSE d.colour1)
        /\ e.colour2 = (CASE o.op = 8 -> LE16(After(2, rest)) [] o.op = 3 -> LE16(rest) [] OTHER -> d.colour2)
        /\ e.mix = (IF o.op \in {6, 7} THEN LE16(rest) ELSE d.mix)
    BY <1>4 DEF Decoder16
  <1>9. /\ e.result = d.result /\ e.out = d.out /\ e.x = d.x /\ e.left = d.left /\ e.line = d.line
        /\ e.prev = d.prev /\ e.bicolour = d.bicolour
    BY <1>4 DEF Decoder16
  <1>10. Placed(e, w, h, N)
    BY <1>9 DEF Placed
  <1>11. /\ e.mix = p.fg
         /\ o.op = 8 => e.colour1 = o.colours[1] /\ e.colour2 = o.colours[2]
         /\ o.op = 3 => e.colour2 = o.colours[1]
         /\ e.op = IF Fills(o) THEN 2 ELSE IF o.op = 6 THEN 1 ELSE o.op
    BY <1>1, <1>2, <1>6, <1>8, SMTT(20) DEF Fills
  <1>12. o.op \in {3, 8} => e.colour2 = o.colours[Len(o.colours)]
    BY <1>11, ColourCount, SMTT(20)
  <1>13. Within(e, p, o, bg, w, 0, N)
    BY <1>1, <1>5, <1>8, <1>9, <1>11, <1>12 DEF Within
  <1>14. e \in Decoder16(w, h)
    <2>1. /\ e.in \in Seq(Byte) /\ e.count \in Nat /\ e.insertmix \in BOOLEAN /\ e.op \in Nat
          /\ e.mix \in Word /\ e.colour1 \in Word /\ e.colour2 \in Word
      <3>1. e.in \in Seq(Byte) /\ e.count \in Nat
        BY <1>2, <1>6, <1>8
      <3>2. e.op \in Nat
        BY <1>6, <1>8, SMTT(20)
      <3>3. e.insertmix \in BOOLEAN
        <4>1. Inserts(d, o.op, w) \in BOOLEAN
          BY DEF Inserts, Decoder16
        <4>2. e.insertmix = Inserts(d, o.op, w)
          BY <1>4 DEF Decoder16
        <4> QED
          BY <4>1, <4>2
      <3>4. d.colour1 \in Word /\ d.colour2 \in Word /\ p.fg \in Word
        BY DEF Decoder16, Picture16
      <3>5. e.mix \in Word /\ e.colour1 \in Word
        BY <1>7, <1>8, <1>11, <3>4
      <3>6. e.colour2 \in Word
        <4>1. o.op \notin {3, 8} => e.colour2 = d.colour2
          BY <1>8
        <4> QED
          BY <1>7, <1>11, <3>4, <4>1
      <3> QED
        BY <3>1, <3>2, <3>3, <3>5, <3>6
    <2>2. e.fom \in Byte /\ e.mixmask \in Byte
      <3>1. 0 \in Byte /\ 3 \in Byte /\ 5 \in Byte
        BY DEF Byte
      <3> QED
        BY <1>8, <3>1
    <2>3. d \in Decoder16(w, h)
      OBVIOUS
    <2> QED
      BY <1>4, <2>1, <2>2, <2>3 DEF Decoder16
  <1> QED
    BY <1>9, <1>10, <1>13, <1>14

-----------------------------------------------------------------------------
(***************************************************************************)
(* A pixel of an order gets to its place with its colour.                  *)
(***************************************************************************)
\* The line and the column of the next pixel.
LEMMA Onward ==
    ASSUME NEW w \in Nat \ {0}, NEW N \in Nat \ {0}
    PROVE  LET r == (N - 1) \div w
               c == (N - 1) % w
           IN  /\ r \in Nat /\ c \in 0 .. (w - 1)
               /\ c + 1 < w => N \div w = r /\ N % w = c + 1
               /\ ~(c + 1 < w) => c + 1 = w /\ N \div w = r + 1 /\ N % w = 0
  <1> DEFINE r == (N - 1) \div w
             c == (N - 1) % w
             s == N \div w
             e == N % w
  <1>1. r \in Nat /\ c \in 0 .. (w - 1) /\ N - 1 = r * w + c
    <2>1. N - 1 \in Nat
      OBVIOUS
    <2> QED
      BY <2>1, DivMod
  <1>2. s \in Nat /\ e \in 0 .. (w - 1) /\ N = s * w + e
    BY DivMod
  <1> HIDE DEF r, c, s, e
  <1>3. r * w \in Nat /\ s * w \in Nat
    BY <1>1, <1>2
  <1>4. ASSUME c + 1 < w PROVE s = r /\ e = c + 1
    <2>1. c + 1 \in 0 .. (w - 1)
      BY <1>1, <1>4
    <2>2. r * w + (c + 1) = s * w + e
      BY <1>1, <1>2, <1>3
    <2> QED
      BY <1>1, <1>2, <2>1, <2>2, Unique
  <1>5. ASSUME ~(c + 1 < w) PROVE c + 1 = w /\ s = r + 1 /\ e = 0
    <2>1. c + 1 = w
      BY <1>1, <1>5
    <2>2. r + 1 \in Nat /\ (r + 1) * w = r * w + w /\ 0 \in 0 .. (w - 1)
      BY <1>1
    <2>3. (r + 1) * w + 0 = s * w + e
      BY <1>1, <1>2, <1>3, <2>1, <2>2
    <2>4. r + 1 = s /\ 0 = e
      BY <1>2, <2>2, <2>3, Unique
    <2> QED
      BY <2>1, <2>4
  <1> QED
    BY <1>1, <1>4, <1>5 DEF r, c, s, e

\* Where the decoder draws it, and where the pixel below it is.
Forward(d, w) == IF d.x < w THEN d ELSE NextLine(d, w)
OnIts(e, w, h, N) ==
    /\ e.x \in 0 .. (w - 1) /\ e.line + e.x + 1 = Place(w, h, N + 1)
    /\ e.left \in Nat /\ e.line \in Int /\ e.prev \in Int
    /\ e.prev = NoLine <=> N < w
    /\ N >= w => e.prev + e.x + 1 = Place(w, h, N + 1 - w)

\* Going to the next line where this one is full leaves the decoder on the pixel it draws.
LEMMA NextPlace ==
    ASSUME NEW w \in Nat \ {0}, NEW h \in Nat \ {0}, NEW d \in Decoder16(w, h), NEW N \in Nat,
           Placed(d, w, h, N), N < w * h
    PROVE  /\ ~(d.x < w) => d.left # 0
           /\ OnIts(Forward(d, w), w, h, N)
           /\ \A f : /\ f.x = Forward(d, w).x + 1 /\ f.left = Forward(d, w).left
                     /\ f.line = Forward(d, w).line /\ f.prev = Forward(d, w).prev
                     => Placed(f, w, h, N + 1)
  <1> DEFINE e == Forward(d, w)
             s == N \div w
             t == N % w
  <1>1. d.x \in Nat /\ d.left \in Nat /\ d.line \in Int /\ d.prev \in Int
    BY DEF Decoder16
  <1>2. N + 1 \in 1 .. (w * h) /\ (N + 1) - 1 = N /\ w * h \in Nat
    OBVIOUS
  <1>3. s \in 0 .. (h - 1) /\ t \in 0 .. (w - 1)
    BY <1>2, LineOf
  <1>4. Place(w, h, N + 1) = (h - s - 1) * w + t + 1
    BY <1>2 DEF Place
  <1>5. N >= w => N + 1 > w /\ N + 1 - w = (N + 1) - w
    OBVIOUS
  <1>6. N >= w => Place(w, h, N + 1 - w) = Place(w, h, N + 1) + w /\ Place(w, h, N + 1) \in Int
    <2>1. Place(w, h, N + 1) \in 1 .. (w * h)
      BY <1>2, PlaceIs
    <2>2. N >= w => Place(w, h, (N + 1) - w) = Place(w, h, N + 1) + w
      BY <1>2, <1>5, PlaceBelow
    <2> QED
      BY <1>2, <2>1, <2>2
  <1> HIDE DEF s, t
  <1>7. /\ ~(d.x < w) => d.left # 0
        /\ e.x = t /\ e.left = h - s - 1 /\ e.line = e.left * w
        /\ e.prev = IF N + 1 <= w THEN NoLine ELSE e.line + w
    <2>1. CASE N = 0
      <3>1. d.x = w /\ d.left = h /\ d.line = NoLine /\ d.prev = NoLine
        BY <2>1 DEF Placed
      <3>2. e = NextLine(d, w)
        BY <3>1 DEF Forward
      <3>3. e.x = 0 /\ e.left = h - 1 /\ e.prev = NoLine /\ e.line = (h - 1) * w
        BY <3>1, <3>2 DEF NextLine, Decoder16
      <3>4. s = 0 /\ t = 0
        BY <2>1 DEF s, t
      <3> QED
        BY <2>1, <3>1, <3>3, <3>4
    <2>2. CASE N # 0
      <3> DEFINE r == (N - 1) \div w
                 c == (N - 1) % w
      <3>1. /\ d.x = c + 1 /\ d.left = h - r - 1 /\ d.line = d.left * w
            /\ d.prev = IF N <= w THEN NoLine ELSE d.line + w
        BY <2>2 DEF Placed
      <3>2. /\ r \in Nat /\ c \in 0 .. (w - 1)
            /\ c + 1 < w => s = r /\ t = c + 1
            /\ ~(c + 1 < w) => c + 1 = w /\ s = r + 1 /\ t = 0
        BY <2>2, Onward DEF s, t
      <3>3. N - 1 = r * w + c
        <4>1. N - 1 \in Nat
          BY <2>2
        <4> QED
          BY <4>1, DivMod
      <3> HIDE DEF r, c
      <3>4. CASE c + 1 < w
        <4>1. e = d
          BY <3>1, <3>4 DEF Forward
        <4>2. N <= w <=> N + 1 <= w
          <5>1. N # w
            <6> SUFFICES ASSUME N = w PROVE FALSE
              OBVIOUS
            <6>1. 0 * w + (w - 1) = r * w + c /\ w - 1 \in 0 .. (w - 1) /\ 0 \in Nat
              BY <3>3
            <6>2. w - 1 = c
              BY <3>2, <6>1, Unique
            <6> QED
              BY <3>4, <6>2
          <5> QED
            BY <5>1
        <4> QED
          BY <3>1, <3>2, <3>4, <4>1, <4>2
      <3>5. CASE ~(c + 1 < w)
        <4>1. e = NextLine(d, w) /\ d.x = w
          BY <3>1, <3>2, <3>5 DEF Forward
        <4>2. e.x = 0 /\ e.left = d.left - 1 /\ e.prev = d.line /\ e.line = (d.left - 1) * w
          BY <4>1 DEF NextLine, Decoder16
        <4>3. e.left = h - s - 1 /\ d.left # 0
          BY <1>3, <3>1, <3>2, <3>5, <4>2
        <4>4. e.prev = e.line + w
          BY <1>1, <3>1, <4>2
        <4>5. ~(N + 1 <= w)
          <5>1. r * w >= 0 /\ r * w \in Int
            BY <3>2
          <5> QED
            BY <3>2, <3>3, <3>5, <5>1
        <4> QED
          BY <3>2, <3>5, <4>2, <4>3, <4>4, <4>5
      <3> QED
        BY <3>4, <3>5
    <2> QED
      BY <2>1, <2>2
  <1> HIDE DEF e
  <1>8. OnIts(e, w, h, N)
    <2>1. e.left \in Nat /\ e.x \in 0 .. (w - 1)
      BY <1>3, <1>7
    <2>2. PICK y : y = e.left * w
      OBVIOUS
    <2>3. y \in Nat /\ e.line = y
      BY <1>7, <2>1, <2>2
    <2>4. e.prev \in Int /\ (e.prev = NoLine <=> N < w)
      BY <1>7, <2>3 DEF NoLine
    <2>5. e.line + e.x + 1 = Place(w, h, N + 1)
      BY <1>4, <1>7
    <2>6. N >= w => e.prev + e.x + 1 = Place(w, h, N + 1 - w)
      BY <1>3, <1>6, <1>7, <2>1, <2>3, <2>5
    <2> QED
      BY <2>1, <2>3, <2>4, <2>5, <2>6 DEF OnIts
  <1>9. ASSUME NEW f, f.x = e.x + 1, f.left = e.left, f.line = e.line, f.prev = e.prev
        PROVE  Placed(f, w, h, N + 1)
    BY <1>2, <1>7, <1>9 DEF Placed, s, t
  <1> QED
    BY <1>7, <1>8, <1>9 DEF e

\* A bitmap that is full has no next line.
LEMMA NoPlace ==
    ASSUME NEW w \in Nat \ {0}, NEW h \in Nat \ {0}, NEW d \in Decoder16(w, h), Placed(d, w, h, w * h)
    PROVE  ~(d.x < w) /\ d.left = 0
  <1>1. w * h \in Nat \ {0}
    OBVIOUS
  <1> DEFINE r == (w * h - 1) \div w
             c == (w * h - 1) % w
  <1>2. d.x = c + 1 /\ d.left = h - r - 1
    BY <1>1 DEF Placed
  <1>3. w * h \in 1 .. (w * h)
    BY <1>1
  <1>4. r \in 0 .. (h - 1) /\ c \in 0 .. (w - 1) /\ w * h - 1 = r * w + c
    BY <1>3, LineOf
  <1> HIDE DEF r, c
  <1>5. (h - 1) * w + (w - 1) = w * h - 1 /\ h - 1 \in Nat /\ w - 1 \in 0 .. (w - 1)
    OBVIOUS
  <1>6. r = h - 1 /\ c = w - 1
    BY <1>4, <1>5, Unique
  <1> QED
    BY <1>2, <1>6

\* The bits of a mask, one after another.
LEMMA Bits8 ==
    ASSUME NEW k \in Nat
    PROVE  LET next == (2 * (IF k = 0 THEN 0 ELSE Weight((k - 1) % 8))) % 256
           IN  /\ k % 8 = 0 => next = 0
               /\ k % 8 # 0 => next # 0 /\ next = Weight(k % 8) /\ (k - 1) \div 8 = k \div 8
               /\ Weight(k % 8) \in Byte /\ Weight(0) = 1 /\ k % 8 \in 0 .. 7
  <1>1. /\ Weight(0) = 1 /\ Weight(1) = 2 /\ Weight(2) = 4 /\ Weight(3) = 8
        /\ Weight(4) = 16 /\ Weight(5) = 32 /\ Weight(6) = 64 /\ Weight(7) = 128
    BY DEF Weight
  <1>2. k % 8 \in 0 .. 7
    OBVIOUS
  <1>3. \A i \in 0 .. 7 : Weight(i) \in 0 .. 255
    BY <1>1
  <1>4. \A i \in 1 .. 7 : (2 * Weight(i - 1)) % 256 = Weight(i) /\ Weight(i) # 0
    BY <1>1
  <1>5. CASE k % 8 = 0
    <2>1. CASE k = 0
      BY <1>1, <1>3, <2>1 DEF Byte
    <2>2. CASE k # 0
      <3>1. (k - 1) % 8 = 7
        BY <1>5, <2>2
      <3> QED
        BY <1>1, <1>3, <1>5, <2>2, <3>1 DEF Byte
    <2> QED
      BY <2>1, <2>2
  <1>6. CASE k % 8 # 0
    <2>1. k # 0 /\ (k - 1) % 8 = (k % 8) - 1 /\ (k - 1) \div 8 = k \div 8
      BY <1>6
    <2>2. k % 8 \in 1 .. 7
      BY <1>2, <1>6
    <2>3. (2 * Weight((k % 8) - 1)) % 256 = Weight(k % 8) /\ Weight(k % 8) # 0
      BY <1>4, <2>2
    <2>4. Weight(k % 8) \in Byte
      BY <1>2, <1>3 DEF Byte
    <2> QED
      BY <1>1, <1>2, <1>6, <2>1, <2>3, <2>4
  <1> QED
    BY <1>5, <1>6

\* LE16 of a colour that was written is the colour.
LEMMA TwoOf ==
    ASSUME NEW s \in Seq(Word), NEW k \in 1 .. Len(s)
    PROVE  Twos(s)[2 * k - 1] + 256 * Twos(s)[2 * k] = s[k]
  BY TwosAre

\* What an order has left shrinks by what a pixel takes.
LEMMA RestIs ==
    ASSUME NEW o, WellFormed(o), NEW k \in 0 .. (Area(o) - 1)
    PROVE  /\ Rest(o, k) \in Seq(Byte) /\ Rest(o, k + 1) \in Seq(Byte)
           /\ o.op = 4 => /\ Len(Rest(o, k)) >= 2 /\ LE16(Rest(o, k)) = o.colours[k + 1]
                          /\ After(2, Rest(o, k)) = Rest(o, k + 1)
           /\ o.op \in {2, 7} /\ k % 8 = 0 => /\ Len(Rest(o, k)) >= 1 /\ Rest(o, k)[1] = o.masks[k \div 8 + 1]
                                              /\ k \div 8 + 1 \in DOMAIN o.masks
                                              /\ After(1, Rest(o, k)) = Rest(o, k + 1)
           /\ o.op # 4 /\ ~(o.op \in {2, 7} /\ k % 8 = 0) => After(0, Rest(o, k)) = Rest(o, k + 1)
  <1>1. /\ o.colours \in Seq(Word) /\ o.masks \in Seq(Byte) /\ o.n \in Nat \ {0} /\ k \in Nat /\ Area(o) \in Nat
        /\ k < Area(o)
    BY Form
  <1>2. CASE o.op = 4
    <2> DEFINE t == Twos(o.colours)
    <2>1. Len(o.colours) = o.n /\ Area(o) = o.n
      BY <1>2, ColourCount DEF Area
    <2>2. /\ t \in Seq(Byte) /\ Len(t) = 2 * o.n
          /\ t[2 * (k + 1) - 1] + 256 * t[2 * (k + 1)] = o.colours[k + 1]
      <3>1. k + 1 \in 1 .. Len(o.colours)
        BY <1>1, <2>1
      <3>2. t[2 * (k + 1) - 1] + 256 * t[2 * (k + 1)] = o.colours[k + 1]
        BY <1>1, <3>1, TwoOf
      <3>3. t \in Seq(Byte) /\ Len(t) = 2 * Len(o.colours)
        BY <1>1, TwosAre
      <3> QED
        BY <2>1, <3>2, <3>3
    <2> HIDE DEF t
    <2>3. 2 * k \in 0 .. Len(t) /\ 2 * (k + 1) \in 0 .. Len(t) /\ Len(t) - 2 * k >= 2 /\ k < o.n
      <3>1. PICK n \in Nat : n = o.n
        BY <1>1
      <3>2. k \in Nat /\ k < n /\ Len(t) = 2 * n
        BY <1>1, <2>1, <2>2, <3>1
      <3>3. 2 * k \in 0 .. (2 * n) /\ 2 * (k + 1) \in 0 .. (2 * n) /\ 2 * n - 2 * k >= 2
        BY <3>2
      <3> QED
        BY <3>1, <3>2, <3>3
    <2>4. /\ After(2 * k, t) \in Seq(Byte) /\ Len(After(2 * k, t)) = Len(t) - 2 * k
          /\ \A i \in 1 .. (Len(t) - 2 * k) : After(2 * k, t)[i] = t[2 * k + i]
      <3>1. PICK m : m = 2 * k
        OBVIOUS
      <3>2. t \in Seq(Byte) /\ m \in 0 .. Len(t)
        BY <2>2, <2>3, <3>1
      <3>3. /\ After(m, t) \in Seq(Byte) /\ Len(After(m, t)) = Len(t) - m
            /\ \A i \in 1 .. (Len(t) - m) : After(m, t)[i] = t[m + i]
        BY <3>2, AfterIs
      <3> QED
        BY <3>1, <3>3, Zenon
    <2>5. After(2 * (k + 1), t) \in Seq(Byte)
      BY <2>2, <2>3, AfterIs
    <2>6. After(2, After(2 * k, t)) = After(2 * k + 2, t)
      <3>1. 2 \in 0 .. (Len(t) - 2 * k)
        BY <2>2, <2>3
      <3> QED
        BY <2>2, <2>3, <3>1, AfterTwice
    <2>7. LE16(After(2 * k, t)) = o.colours[k + 1]
      <3>1. After(2 * k, t)[1] = t[2 * k + 1] /\ After(2 * k, t)[2] = t[2 * k + 2]
        BY <2>2, <2>3, <2>4
      <3>2. 2 * (k + 1) - 1 = 2 * k + 1 /\ 2 * (k + 1) = 2 * k + 2
        BY <1>1
      <3> QED
        BY <2>2, <3>1, <3>2 DEF LE16
    <2>8. Rest(o, k) = After(2 * k, t) /\ Rest(o, k + 1) = After(2 * (k + 1), t) /\ 2 * (k + 1) = 2 * k + 2
      BY <1>1, <1>2 DEF Rest, t
    <2> QED
      BY <1>2, <2>3, <2>4, <2>5, <2>6, <2>7, <2>8
  <1>3. CASE o.op \in {2, 7}
    <2>1. Len(o.masks) = (o.n + 7) \div 8 /\ Area(o) = o.n /\ k < o.n
      BY <1>1, <1>3, ColourCount DEF Area
    <2> DEFINE m == o.masks
               j == (k + 7) \div 8
               i == (k + 8) \div 8
    <2>2. j \in 0 .. Len(m) /\ i \in 0 .. Len(m)
      BY <1>1, <2>1
    <2>3. Rest(o, k) = After(j, m) /\ Rest(o, k + 1) = After(i, m)
      <3>1. (k + 1) + 7 = k + 8
        BY <1>1
      <3> QED
        BY <1>3, <3>1 DEF Rest
    <2>4. k % 8 = 0 => j = k \div 8 /\ i = j + 1
      BY <1>1
    <2>5. k % 8 # 0 => i = j
      BY <1>1
    <2> HIDE DEF j, i, m
    <2>6. m \in Seq(Byte)
      BY <1>1 DEF m
    <2>7. /\ After(j, m) \in Seq(Byte) /\ Len(After(j, m)) = Len(m) - j
          /\ \A l \in 1 .. (Len(m) - j) : After(j, m)[l] = m[j + l]
      BY <2>2, <2>6, AfterIs
    <2>8. After(i, m) \in Seq(Byte) /\ After(0, After(j, m)) = After(j, m)
      BY <2>2, <2>6, <2>7, AfterIs, AfterEnds
    <2>9. ASSUME k % 8 = 0
          PROVE  /\ Len(After(j, m)) >= 1 /\ After(j, m)[1] = m[j + 1] /\ j + 1 \in 1 .. Len(m)
                 /\ After(1, After(j, m)) = After(i, m)
      <3>1. 1 \in 0 .. (Len(m) - j) /\ 1 \in 1 .. (Len(m) - j)
        BY <2>2, <2>4, <2>9
      <3>2. After(1, After(j, m)) = After(j + 1, m)
        BY <2>2, <2>6, <3>1, AfterTwice
      <3> QED
        BY <2>2, <2>4, <2>7, <2>9, <3>1, <3>2
    <2>10. DOMAIN o.masks = 1 .. Len(m)
      BY <2>6 DEF m
    <2> QED
      BY <1>3, <2>3, <2>4, <2>5, <2>7, <2>8, <2>9, <2>10, SMTT(20) DEF m
  <1>4. CASE o.op \notin {2, 4, 7}
    <2>1. Rest(o, k) = <<>> /\ Rest(o, k + 1) = <<>>
      BY <1>4 DEF Rest
    <2>2. <<>> \in Seq(Byte) /\ After(0, <<>>) = <<>>
      <3>1. <<>> \in Seq(Byte)
        OBVIOUS
      <3> QED
        BY <3>1, AfterEnds
    <2> QED
      BY <1>4, <2>1, <2>2
  <1> QED
    BY <1>2, <1>3, <1>4

\* The mask of a pixel: the one of the pixel before, except behind every eighth.
LEMMA MaskIs ==
    ASSUME NEW o, Fills(o), NEW k \in Nat
    PROVE  /\ k % 8 # 0 /\ k # 0 => MaskOf(o, k + 1) = MaskOf(o, k)
           /\ o.op = 9 => MaskOf(o, k + 1) = 3
           /\ o.op = 10 => MaskOf(o, k + 1) = 5
           /\ o.op \in {2, 7} => MaskOf(o, k + 1) = o.masks[k \div 8 + 1]
  <1>1. (k + 1) - 1 = k
    OBVIOUS
  <1>2. k % 8 # 0 /\ k # 0 => (k - 1) \div 8 = k \div 8
    OBVIOUS
  <1> QED
    BY <1>1, <1>2 DEF MaskOf, Fills

\* A mask is a byte.
LEMMA MaskByte ==
    ASSUME NEW o, WellFormed(o), Fills(o), NEW k \in 0 .. (Area(o) - 1)
    PROVE  MaskOf(o, k + 1) \in Byte
  <1>1. k \in Nat /\ o.op \in {2, 7, 9, 10} /\ o.masks \in Seq(Byte) /\ o.n \in Nat \ {0} /\ Area(o) \in Nat /\ k < Area(o)
    BY Form DEF Fills
  <1>2. CASE o.op \in {2, 7}
    <2>1. Len(o.masks) = (o.n + 7) \div 8 /\ k < o.n
      BY <1>1, <1>2, ColourCount, SMTT(20) DEF Area
    <2>2. k \div 8 + 1 \in 1 .. Len(o.masks)
      BY <1>1, <2>1
    <2>3. o.masks[k \div 8 + 1] \in Byte
      BY <1>1, <2>2
    <2> QED
      BY <1>1, <1>2, <2>3, MaskIs
  <1>3. CASE o.op \in {9, 10}
    <2>1. 3 \in Byte /\ 5 \in Byte
      BY DEF Byte
    <2> QED
      BY <1>1, <1>3, <2>1, MaskIs
  <1> QED
    BY <1>1, <1>2, <1>3

\* The mask and its bit while the decoder fills or mixes.
LEMMA MaskRead ==
    ASSUME NEW o, WellFormed(o), NEW k \in 0 .. (Area(o) - 1), Fills(o),
           NEW e, e.mixmask = IF k = 0 THEN 0 ELSE Weight((k - 1) % 8), k # 0 => e.mask = MaskOf(o, k),
           e.fom = CASE o.op = 9 -> 3 [] o.op = 10 -> 5 [] OTHER -> 0, e.in = Rest(o, k)
    PROVE  LET next == (2 * e.mixmask) % 256
               reads == next = 0 /\ e.fom = 0
               bytes == IF reads THEN 1 ELSE 0
           IN  /\ (IF next = 0 THEN 1 ELSE next) = Weight(k % 8)
               /\ (IF next # 0 THEN e.mask ELSE IF e.fom # 0 THEN e.fom ELSE e.in[1]) = MaskOf(o, k + 1)
               /\ After(bytes, e.in) = Rest(o, k + 1) /\ Len(e.in) >= bytes
  <1> DEFINE next == (2 * e.mixmask) % 256
  <1>1. k \in Nat /\ o.op \in {2, 7, 9, 10} /\ Area(o) \in Nat
    BY Form DEF Fills
  <1>2. /\ k % 8 = 0 => next = 0
        /\ k % 8 # 0 => next # 0 /\ next = Weight(k % 8)
        /\ Weight(0) = 1 /\ k % 8 \in Nat
    BY <1>1, Bits8
  <1> HIDE DEF next
  <1>3. Len(e.in) >= 0 /\ Len(e.in) \in Nat
    BY RestIs
  <1>4. CASE k % 8 # 0
    <2>1. k # 0 /\ next # 0 /\ next = Weight(k % 8) /\ MaskOf(o, k + 1) = MaskOf(o, k)
      BY <1>1, <1>2, <1>4, MaskIs
    <2>2. After(0, e.in) = Rest(o, k + 1)
      BY <1>1, <1>4, RestIs
    <2> QED
      BY <1>3, <2>1, <2>2 DEF next
  <1>5. CASE k % 8 = 0 /\ o.op \in {2, 7}
    <2>1. next = 0 /\ e.fom = 0 /\ MaskOf(o, k + 1) = o.masks[k \div 8 + 1]
      BY <1>1, <1>2, <1>5, MaskIs
    <2>2. After(1, e.in) = Rest(o, k + 1) /\ Len(e.in) >= 1 /\ e.in[1] = o.masks[k \div 8 + 1]
      BY <1>5, RestIs
    <2> QED
      BY <1>2, <1>5, <2>1, <2>2 DEF next
  <1>6. CASE k % 8 = 0 /\ o.op \in {9, 10}
    <2>1. next = 0 /\ e.fom # 0 /\ MaskOf(o, k + 1) = e.fom
      BY <1>1, <1>2, <1>6, MaskIs
    <2>2. After(0, e.in) = Rest(o, k + 1)
      BY <1>6, RestIs, SMTT(20)
    <2> QED
      BY <1>2, <1>3, <1>6, <2>1, <2>2 DEF next
  <1> QED
    BY <1>1, <1>4, <1>5, <1>6

\* The count of an order.
LEMMA CountIs ==
    ASSUME NEW o, WellFormed(o), NEW k \in 0 .. (Area(o) - 1)
    PROVE  /\ Count(o, k) \in Nat \ {0}
           /\ Count(o, k + 1) = IF o.op = 8 /\ k % 2 = 0 THEN Count(o, k) ELSE Count(o, k) - 1
           /\ Count(o, Area(o)) = 0
  <1>1. o.n \in Nat \ {0} /\ k \in Nat /\ Area(o) \in Nat
    BY Form
  <1>2. CASE o.op = 8
    <2>1. PICK n \in Nat : n = o.n
      BY <1>1
    <2>2. Area(o) = 2 * n /\ Count(o, k) = n - k \div 2 /\ Count(o, k + 1) = n - (k + 1) \div 2
          /\ Count(o, 2 * n) = n - (2 * n) \div 2
      BY <1>2, <2>1 DEF Area, Count
    <2>3. k < 2 * n
      BY <1>1, <2>2
    <2>4. k \div 2 < n /\ (2 * n) \div 2 = n
      BY <1>1, <2>3
    <2>5. (k + 1) \div 2 = IF k % 2 = 0 THEN k \div 2 ELSE k \div 2 + 1
      BY <1>1
    <2> QED
      BY <1>1, <1>2, <2>2, <2>4, <2>5
  <1>3. CASE o.op # 8
    BY <1>1, <1>3 DEF Count
  <1> QED
    BY <1>2, <1>3

\* Drawing a pixel with the colour of the order.
Plots(f, e, o, k, w, h, N, v) ==
    /\ f.in = Rest(o, k + 1) /\ f.out = [e.out EXCEPT ![Place(w, h, N + 1)] = v]
    /\ f.x = e.x + 1 /\ f.left = e.left /\ f.line = e.line /\ f.prev = e.prev
    /\ f.result = e.result

\* A pixel with the colour of the order, in its place, leaves the decoder within the order.
LEMMA Plotted ==
    ASSUME NEW w \in Nat \ {0}, NEW h \in Nat \ {0}, NEW e \in Decoder16(w, h), NEW p \in Picture16, NEW N \in Nat,
           NEW o, WellFormed(o), NEW bg \in BOOLEAN, NEW k \in 0 .. (Area(o) - 1),
           Within(e, p, o, bg, w, k, N), OnIts(e, w, h, N),
           NEW above \in Word, above = IF N < w THEN 0 ELSE e.out[Place(w, h, N + 1 - w)],
           NEW v \in Word, v = Colour(o, k + 1, N, above, p.fg, bg, w)
    PROVE  LET f == Plot(e, w)
           IN  /\ Plots(f, e, o, k, w, h, N, v) /\ Within(f, p, o, bg, w, k + 1, N + 1)
               /\ f \in Decoder16(w, h)
  <1> DEFINE next == (2 * e.mixmask) % 256
             reads == e.op = 2 /\ next = 0 /\ e.fom = 0
             bytes == CASE e.op = 4 -> 2 [] reads -> 1 [] OTHER -> 0
             mask == IF next # 0 THEN e.mask ELSE IF e.fom # 0 THEN e.fom ELSE e.in[1]
             bit == IF next = 0 THEN 1 ELSE next
             value == CASE e.op = 0  -> IF e.insertmix THEN Xor(above, e.mix) ELSE above
                   [] e.op = 1  -> Xor(above, e.mix)
                   [] e.op = 2  -> IF (mask \div bit) % 2 = 1 THEN Xor(above, e.mix) ELSE above
                   [] e.op = 3  -> e.colour2
                   [] e.op = 4  -> LE16(e.in)
                   [] e.op = 8  -> IF e.bicolour THEN e.colour2 ELSE e.colour1
                   [] e.op = 13 -> Ones
                   [] e.op = 14 -> 0
  <1>1. /\ e.op = IF Fills(o) THEN 2 ELSE IF o.op = 6 THEN 1 ELSE o.op
        /\ e.count = Count(o, k) /\ e.mix = p.fg /\ e.in = Rest(o, k)
        /\ e.fom = (CASE o.op = 9 -> 3 [] o.op = 10 -> 5 [] OTHER -> 0)
        /\ o.op \in {3, 8} => e.colour2 = o.colours[Len(o.colours)]
        /\ o.op = 8 => e.colour1 = o.colours[1]
        /\ e.insertmix <=> (o.op = 0 /\ k = 0 /\ bg /\ N \notin {0, w})
        /\ e.bicolour <=> (o.op = 8 /\ k % 2 = 1)
        /\ Fills(o) => e.mixmask = IF k = 0 THEN 0 ELSE Weight((k - 1) % 8)
        /\ Fills(o) => (k # 0 => e.mask = MaskOf(o, k))
    BY DEF Within
  <1>2. /\ o.op \in {0, 1, 2, 3, 4, 6, 7, 8, 9, 10, 13, 14} /\ k \in Nat
        /\ Fills(o) <=> o.op \in {2, 7, 9, 10}
    BY Form DEF Fills
  <1>3. e.op \in 0 .. 4 \cup {8, 13, 14}
    BY <1>1, <1>2
  <1>4. (IF e.prev = NoLine THEN 0 ELSE e.out[e.prev + e.x + 1]) = above
    BY DEF OnIts
  <1>5. e.line + e.x + 1 = Place(w, h, N + 1)
    BY DEF OnIts
  <1>6. Fills(o) => /\ bit = Weight(k % 8) /\ mask = MaskOf(o, k + 1)
                    /\ After(bytes, e.in) = Rest(o, k + 1) /\ Len(e.in) >= bytes
    <2> SUFFICES ASSUME Fills(o)
                 PROVE  /\ bit = Weight(k % 8) /\ mask = MaskOf(o, k + 1)
                        /\ After(bytes, e.in) = Rest(o, k + 1) /\ Len(e.in) >= bytes
      OBVIOUS
    <2>1. e.op = 2
      BY <1>1
    <2>2. bytes = IF next = 0 /\ e.fom = 0 THEN 1 ELSE 0
      BY <2>1
    <2>3. /\ e.mixmask = IF k = 0 THEN 0 ELSE Weight((k - 1) % 8)
          /\ k # 0 => e.mask = MaskOf(o, k)
          /\ e.fom = CASE o.op = 9 -> 3 [] o.op = 10 -> 5 [] OTHER -> 0
          /\ e.in = Rest(o, k)
      BY <1>1
    <2> HIDE DEF bytes
    <2>4. /\ bit = Weight(k % 8) /\ mask = MaskOf(o, k + 1)
          /\ After(IF next = 0 /\ e.fom = 0 THEN 1 ELSE 0, e.in) = Rest(o, k + 1)
          /\ Len(e.in) >= IF next = 0 /\ e.fom = 0 THEN 1 ELSE 0
      BY <2>3, MaskRead, SMTT(20)
    <2> QED
      BY <2>2, <2>4
  <1>7. After(bytes, e.in) = Rest(o, k + 1) /\ ~(Len(e.in) < bytes)
    <2>1. CASE Fills(o)
      <3>1. Len(e.in) \in Nat
        BY DEF Decoder16
      <3>2. bytes \in {0, 1, 2}
        OBVIOUS
      <3> HIDE DEF bytes
      <3> QED
        BY <1>6, <2>1, <3>1, <3>2
    <2>2. CASE o.op = 4
      <3>1. bytes = 2
        BY <1>1, <1>2, <2>2
      <3>2. After(2, e.in) = Rest(o, k + 1) /\ Len(e.in) >= 2 /\ Len(e.in) \in Nat
        BY <1>1, <2>2, RestIs, SMTT(20) DEF Decoder16
      <3> HIDE DEF bytes
      <3> QED
        BY <3>1, <3>2
    <2>3. CASE ~Fills(o) /\ o.op # 4
      <3>1. e.op # 4 /\ e.op # 2
        BY <1>1, <1>2, <2>3
      <3>2. bytes = 0
        BY <3>1
      <3>3. After(0, e.in) = Rest(o, k + 1) /\ Len(e.in) \in Nat
        BY <1>1, <1>2, <2>3, RestIs, SMTT(20) DEF Decoder16
      <3> HIDE DEF bytes
      <3> QED
        BY <3>2, <3>3
    <2> QED
      BY <2>1, <2>2, <2>3
  <1>8. Fills(o) => bit = Weight(k % 8) /\ mask = MaskOf(o, k + 1)
    BY <1>6
  <1>9. Plot(e, w) = [e EXCEPT
                !.in        = After(bytes, e.in),
                !.out[e.line + e.x + 1] = value,
                !.x         = e.x + 1,
                !.count     = IF e.op = 8 /\ ~e.bicolour THEN e.count ELSE e.count - 1,
                !.mask      = IF e.op = 2 THEN mask ELSE e.mask,
                !.mixmask   = IF e.op = 2 THEN bit ELSE e.mixmask,
                !.insertmix = e.insertmix /\ e.op # 0,
                !.bicolour  = IF e.op = 8 THEN ~e.bicolour ELSE e.bicolour]
    BY <1>3, <1>4, <1>7 DEF Plot
  <1> HIDE DEF bytes, mask, bit
  <1>10. value = v
    <2>1. CASE o.op = 0
      <3>1. e.op = 0
        BY <1>1, <1>2, <2>1
      <3>2. v = IF k + 1 = 1 /\ bg /\ N \notin {0, w} THEN Xor(above, p.fg) ELSE above
        BY <2>1 DEF Colour
      <3>3. k + 1 = 1 <=> k = 0
        BY <1>2
      <3> QED
        BY <1>1, <2>1, <3>1, <3>2, <3>3
    <2>2. CASE o.op \in {1, 6}
      <3>1. e.op = 1
        BY <1>1, <1>2, <2>2
      <3> QED
        BY <1>1, <2>2, <3>1, SMTT(20) DEF Colour
    <2>3. CASE Fills(o)
      <3>1. e.op = 2
        BY <1>1, <2>3
      <3>2. v = IF (MaskOf(o, k + 1) \div Weight(((k + 1) - 1) % 8)) % 2 = 1 THEN Xor(above, p.fg) ELSE above
        BY <1>2, <2>3 DEF Colour
      <3>3. (k + 1) - 1 = k
        BY <1>2
      <3> QED
        BY <1>1, <1>8, <2>3, <3>1, <3>2, <3>3
    <2>4. CASE o.op = 3
      <3>1. e.op = 3 /\ v = o.colours[1] /\ Len(o.colours) = 1
        BY <1>1, <1>2, <2>4, ColourCount DEF Colour
      <3> QED
        BY <1>1, <2>4, <3>1
    <2>5. CASE o.op = 4
      <3>1. e.op = 4 /\ v = o.colours[k + 1] /\ LE16(e.in) = o.colours[k + 1]
        BY <1>1, <1>2, <2>5, RestIs DEF Colour
      <3> QED
        BY <3>1
    <2>6. CASE o.op = 8
      <3>1. e.op = 8 /\ v = o.colours[IF (k + 1) % 2 = 1 THEN 1 ELSE 2] /\ Len(o.colours) = 2
        BY <1>1, <1>2, <2>6, ColourCount DEF Colour
      <3>2. (k + 1) % 2 = 1 <=> ~(k % 2 = 1)
        BY <1>2
      <3> QED
        BY <1>1, <2>6, <3>1, <3>2
    <2>7. CASE o.op \in {13, 14}
      <3>1. e.op = o.op
        BY <1>1, <1>2, <2>7
      <3> QED
        BY <2>7, <3>1 DEF Colour
    <2> QED
      BY <1>2, <2>1, <2>2, <2>3, <2>4, <2>5, <2>6, <2>7
  <1> HIDE DEF value
  <1> DEFINE f == Plot(e, w)
  <1>11. /\ f.in = Rest(o, k + 1) /\ f.out = [e.out EXCEPT ![Place(w, h, N + 1)] = v]
         /\ f.x = e.x + 1 /\ f.left = e.left /\ f.line = e.line /\ f.prev = e.prev
         /\ f.result = e.result
    BY <1>5, <1>7, <1>9, <1>10, SMTT(20) DEF Decoder16
  <1>12. /\ f.op = e.op /\ f.count = (IF e.op = 8 /\ ~e.bicolour THEN e.count ELSE e.count - 1)
         /\ f.mask = (IF e.op = 2 THEN mask ELSE e.mask) /\ f.mixmask = (IF e.op = 2 THEN bit ELSE e.mixmask)
         /\ f.insertmix = (e.insertmix /\ e.op # 0) /\ f.bicolour = (IF e.op = 8 THEN ~e.bicolour ELSE e.bicolour)
         /\ f.mix = e.mix /\ f.fom = e.fom /\ f.colour1 = e.colour1 /\ f.colour2 = e.colour2
    BY <1>9 DEF Decoder16
  <1>13. /\ k + 1 # 0 /\ (k + 1) - 1 = k
         /\ f.count = Count(o, k + 1)
         /\ f.bicolour <=> (o.op = 8 /\ (k + 1) % 2 = 1)
         /\ ~f.insertmix
    <2>1. k + 1 # 0 /\ (k + 1) - 1 = k /\ ((k + 1) % 2 = 1 <=> k % 2 = 0) /\ (k % 2 = 1 <=> k % 2 # 0)
      BY <1>2
    <2>2. e.op = 8 <=> o.op = 8
      BY <1>1, <1>2, SMTT(20)
    <2>3. ~f.insertmix
      <3>1. e.op = 0 <=> o.op = 0
        BY <1>1, <1>2
      <3> QED
        BY <1>1, <1>12, <3>1
    <2>4. f.bicolour <=> (o.op = 8 /\ (k + 1) % 2 = 1)
      BY <1>1, <1>12, <2>1, <2>2
    <2>5. f.count = Count(o, k + 1)
      <3>1. (e.op = 8 /\ ~e.bicolour) <=> (o.op = 8 /\ k % 2 = 0)
        BY <1>1, <2>1, <2>2
      <3>2. Count(o, k + 1) = IF o.op = 8 /\ k % 2 = 0 THEN Count(o, k) ELSE Count(o, k) - 1
        BY CountIs
      <3>3. f.count = IF e.op = 8 /\ ~e.bicolour THEN e.count ELSE e.count - 1
        BY <1>12
      <3> QED
        BY <1>1, <3>1, <3>2, <3>3
    <2> QED
      BY <2>1, <2>3, <2>4, <2>5
  <1>14. Fills(o) => f.mixmask = Weight(((k + 1) - 1) % 8) /\ f.mask = MaskOf(o, k + 1)
    <2> SUFFICES ASSUME Fills(o) PROVE f.mixmask = Weight(((k + 1) - 1) % 8) /\ f.mask = MaskOf(o, k + 1)
      OBVIOUS
    <2>1. e.op = 2
      BY <1>1
    <2> QED
      BY <1>8, <1>12, <1>13, <2>1
  <1> HIDE DEF f
  <1>15. Within(f, p, o, bg, w, k + 1, N + 1)
    <2>1. f.insertmix <=> (o.op = 0 /\ k + 1 = 0 /\ bg /\ N + 1 \notin {0, w})
      BY <1>13
    <2>2. Fills(o) => IF k + 1 = 0 THEN f.mixmask = 0
                      ELSE f.mixmask = Weight(((k + 1) - 1) % 8) /\ f.mask = MaskOf(o, k + 1)
      BY <1>13, <1>14
    <2> QED
      BY <1>1, <1>11, <1>12, <1>13, <2>1, <2>2 DEF Within
  <1>16. f \in Decoder16(w, h)
    <2>1. f.in \in Seq(Byte) /\ f.x \in Nat /\ f.left \in Nat /\ f.line \in Int /\ f.prev \in Int
      <3>1. f.in \in Seq(Byte)
        <4>1. Rest(o, k + 1) \in Seq(Byte)
          BY RestIs
        <4> QED
          BY <1>11, <4>1
      <3>2. e.x \in 0 .. (w - 1) /\ e.left \in Nat /\ e.line \in Int /\ e.prev \in Int
        BY DEF OnIts
      <3> QED
        BY <1>11, <3>1, <3>2
    <2>2. f.out \in [1 .. (w * h) -> Word]
      BY <1>11 DEF Decoder16
    <2>3. f.count \in Nat
      <3>1. Count(o, k + 1) \in Nat
        BY CountIs
      <3> QED
        BY <1>13, <3>1
    <2>4. f.mask \in Byte /\ f.mixmask \in Byte
      <3>1. Fills(o) <=> e.op = 2
        BY <1>1, <1>2
      <3>2. e.mask \in Byte /\ e.mixmask \in Byte
        BY DEF Decoder16
      <3>3. Fills(o) => bit \in Byte /\ mask \in Byte
        <4>1. Weight(k % 8) \in Byte
          BY <1>2, Bits8
        <4>2. Fills(o) => MaskOf(o, k + 1) \in Byte
          BY MaskByte
        <4> QED
          BY <1>8, <4>1, <4>2
      <3> QED
        BY <1>12, <3>1, <3>2, <3>3
    <2>5. f.insertmix \in BOOLEAN /\ f.bicolour \in BOOLEAN
      BY <1>12 DEF Decoder16
    <2> QED
      BY <1>9, <2>1, <2>2, <2>3, <2>4, <2>5, ZenonT(30) DEF f, Decoder16
  <1> QED
    BY <1>11, <1>15, <1>16 DEF Plots, f

\* The next line is the same decoder elsewhere.
LEMMA ForwardKeeps ==
    ASSUME NEW w \in Nat \ {0}, NEW h \in Nat \ {0}, NEW d \in Decoder16(w, h), NEW N, OnIts(Forward(d, w), w, h, N)
    PROVE  LET e == Forward(d, w)
           IN  /\ e \in Decoder16(w, h) /\ e.out = d.out /\ e.result = d.result
               /\ e.in = d.in /\ e.op = d.op /\ e.count = d.count /\ e.colour1 = d.colour1 /\ e.colour2 = d.colour2
               /\ e.mix = d.mix /\ e.mask = d.mask /\ e.mixmask = d.mixmask /\ e.fom = d.fom
               /\ e.insertmix = d.insertmix /\ e.bicolour = d.bicolour
  <1>1. /\ Forward(d, w).x \in Nat /\ Forward(d, w).left \in Nat /\ Forward(d, w).line \in Int
        /\ Forward(d, w).prev \in Int
    BY DEF OnIts
  <1>2. CASE d.x < w
    BY <1>2 DEF Forward
  <1>3. CASE ~(d.x < w)
    <2>1. Forward(d, w) = [d EXCEPT !.x = 0, !.left = d.left - 1, !.prev = d.line, !.line = (d.left - 1) * w]
      BY <1>3 DEF Forward, NextLine
    <2> QED
      BY <1>1, <2>1 DEF Decoder16
  <1> QED
    BY <1>2, <1>3

\* One pixel more is drawn, in its place.
LEMMA Drawing ==
    ASSUME NEW w \in Nat \ {0}, NEW h \in Nat \ {0}, NEW out \in [1 .. (w * h) -> Word], NEW pixels, NEW N \in Nat,
           N < w * h, Faithful(out, pixels, w, h, N)
    PROVE  Faithful([out EXCEPT ![Place(w, h, N + 1)] = pixels[N + 1]], pixels, w, h, N + 1)
  <1> DEFINE new == [out EXCEPT ![Place(w, h, N + 1)] = pixels[N + 1]]
  <1>1. N + 1 \in 1 .. (w * h) /\ w * h \in Nat
    OBVIOUS
  <1> SUFFICES ASSUME NEW n \in 1 .. (w * h)
               PROVE  new[Place(w, h, n)] = IF n <= N + 1 THEN pixels[n] ELSE 0
    BY DEF Faithful
  <1>2. Place(w, h, n) \in 1 .. (w * h) /\ Place(w, h, N + 1) \in 1 .. (w * h)
    BY <1>1, PlaceIs
  <1>3. CASE n = N + 1
    BY <1>2, <1>3
  <1>4. CASE n # N + 1
    <2>1. Place(w, h, n) # Place(w, h, N + 1)
      BY <1>1, <1>4, PlaceOnce
    <2>2. new[Place(w, h, n)] = out[Place(w, h, n)]
      BY <1>2, <2>1
    <2>3. out[Place(w, h, n)] = IF n <= N THEN pixels[n] ELSE 0
      BY DEF Faithful
    <2>4. n <= N + 1 <=> n <= N
      BY <1>4
    <2> QED
      BY <2>2, <2>3, <2>4
  <1> QED
    BY <1>3, <1>4

\* The decoder f, like d, has drawn N pixels and is within the order.
Draws(f, d, p, o, bg, w, h, k, N) ==
    /\ f \in Decoder16(w, h) /\ f.result = d.result
    /\ Placed(f, w, h, N) /\ Faithful(f.out, p.pixels, w, h, N) /\ Within(f, p, o, bg, w, k, N)

\* A turn of the loops of rle_16_decompress draws the next pixel of the picture.
LEMMA PixelRead ==
    ASSUME NEW w \in Nat \ {0}, NEW h \in Nat \ {0}, NEW d \in Decoder16(w, h), NEW p \in Picture16, NEW N \in Nat,
           NEW o, WellFormed(o), NEW bg \in BOOLEAN, NEW k \in 0 .. (Area(o) - 1),
           Ends(p, o, bg, w), N = Len(p.pixels) - Area(o) + k, N < w * h,
           Draws(d, d, p, o, bg, w, h, k, N)
    PROVE  Draws(Pixel(d, w), d, p, o, bg, w, h, k + 1, N + 1)
  <1> DEFINE e == Forward(d, w)
             f == Plot(e, w)
             above == IF N < w THEN 0 ELSE p.pixels[N + 1 - w]
             v == p.pixels[N + 1]
  <1>1. /\ ~(d.x < w) => d.left # 0
        /\ OnIts(e, w, h, N)
        /\ \A g : /\ g.x = e.x + 1 /\ g.left = e.left /\ g.line = e.line /\ g.prev = e.prev
                  => Placed(g, w, h, N + 1)
    BY NextPlace DEF Draws
  <1>2. Pixel(d, w) = f
    BY <1>1 DEF Pixel, Forward
  <1>3. /\ e \in Decoder16(w, h) /\ e.out = d.out /\ e.result = d.result
        /\ e.in = d.in /\ e.op = d.op /\ e.count = d.count /\ e.colour1 = d.colour1 /\ e.colour2 = d.colour2
        /\ e.mix = d.mix /\ e.mask = d.mask /\ e.mixmask = d.mixmask /\ e.fom = d.fom
        /\ e.insertmix = d.insertmix /\ e.bicolour = d.bicolour
    BY <1>1, ForwardKeeps
  <1>4. Within(e, p, o, bg, w, k, N)
    BY <1>3 DEF Within, Draws
  <1>5. /\ Len(p.pixels) \in Nat /\ Area(o) \in Nat /\ k \in Nat /\ N + 1 \in 1 .. Len(p.pixels)
        /\ p.pixels \in Seq(Word) /\ w * h \in Nat
    <2>1. Area(o) \in Nat
      BY Form
    <2>2. p.pixels \in Seq(Word)
      BY DEF Picture16
    <2>3. Len(p.pixels) \in Nat
      BY <2>2
    <2>4. N + 1 \in 1 .. Len(p.pixels)
      BY <2>1, <2>3, SMTT(20)
    <2>5. w * h \in Nat
      OBVIOUS
    <2> QED
      BY <2>1, <2>2, <2>3, <2>4, <2>5
  <1>6. v \in Word
    BY <1>5
  <1>7. above \in Word
    <2>1. 0 \in Word
      BY Words
    <2>2. N >= w => N + 1 - w \in 1 .. Len(p.pixels)
      BY <1>5, SMTT(20)
    <2> QED
      BY <1>5, <2>1, <2>2, SMTT(20)
  <1>8. above = IF N < w THEN 0 ELSE e.out[Place(w, h, N + 1 - w)]
    <2> SUFFICES ASSUME N >= w PROVE p.pixels[N + 1 - w] = d.out[Place(w, h, N + 1 - w)]
      BY <1>3
    <2>1. N + 1 - w \in 1 .. (w * h) /\ N + 1 - w <= N
      BY <1>5, SMTT(20)
    <2> QED
      BY <2>1 DEF Faithful, Draws
  <1>9. v = Colour(o, k + 1, N, above, p.fg, bg, w)
    <2> DEFINE M == Len(p.pixels) - Area(o)
    <2>1. \A i \in 1 .. Area(o) :
              p.pixels[M + i] = Colour(o, i, M + i - 1, IF M + i - 1 < w THEN 0 ELSE p.pixels[M + i - w], p.fg, bg, w)
      BY DEF Ends
    <2>2. k + 1 \in 1 .. Area(o) /\ M + (k + 1) = N + 1 /\ M + (k + 1) - 1 = N /\ M + (k + 1) - w = N + 1 - w
      BY <1>5, SMTT(20)
    <2> HIDE DEF M
    <2>3. p.pixels[M + (k + 1)] = Colour(o, k + 1, M + (k + 1) - 1,
                IF M + (k + 1) - 1 < w THEN 0 ELSE p.pixels[M + (k + 1) - w], p.fg, bg, w)
      BY <2>1, <2>2
    <2> QED
      BY <2>2, <2>3
  <1> HIDE DEF v, above, e
  <1>10. Plots(f, e, o, k, w, h, N, v) /\ Within(f, p, o, bg, w, k + 1, N + 1) /\ f \in Decoder16(w, h)
    BY <1>1, <1>3, <1>4, <1>6, <1>7, <1>8, <1>9, Plotted, SMTT(20)
  <1> HIDE DEF f
  <1>11. Placed(f, w, h, N + 1)
    BY <1>1, <1>10 DEF Plots
  <1>12. Faithful(f.out, p.pixels, w, h, N + 1)
    <2>1. f.out = [d.out EXCEPT ![Place(w, h, N + 1)] = p.pixels[N + 1]]
      BY <1>3, <1>10 DEF Plots, v
    <2>2. d.out \in [1 .. (w * h) -> Word] /\ Faithful(d.out, p.pixels, w, h, N)
      BY DEF Decoder16, Draws
    <2>3. Faithful([d.out EXCEPT ![Place(w, h, N + 1)] = p.pixels[N + 1]], p.pixels, w, h, N + 1)
      <3> DEFINE out == d.out
                 pixels == p.pixels
      <3>1. out \in [1 .. (w * h) -> Word] /\ Faithful(out, pixels, w, h, N)
        BY <2>2
      <3> HIDE DEF out, pixels
      <3>2. Faithful([out EXCEPT ![Place(w, h, N + 1)] = pixels[N + 1]], pixels, w, h, N + 1)
        BY <3>1, Drawing
      <3> QED
        BY <3>2 DEF out, pixels
    <2> QED
      BY <2>1, <2>3
  <1> QED
    BY <1>2, <1>3, <1>10, <1>11, <1>12 DEF Draws, Plots

\* Behind its last pixel an order is at its end.
LEMMA OrderDone ==
    ASSUME NEW w \in Nat \ {0}, NEW h \in Nat \ {0}, NEW d \in Decoder16(w, h), NEW p \in Picture16, NEW N,
           NEW o, WellFormed(o), NEW bg \in BOOLEAN, Ends(p, o, bg, w), Within(d, p, o, bg, w, Area(o), N)
    PROVE  AtRest(d, p)
  <1>1. /\ o.op \in {0, 1, 2, 3, 4, 6, 7, 8, 9, 10, 13, 14} /\ Area(o) \in Nat \ {0} /\ o.n \in Nat \ {0}
        /\ o.colours \in Seq(Word) /\ o.masks \in Seq(Byte)
    BY Form
  <1>2. p.bg = (o.op = 0) /\ p.bg \in BOOLEAN
    BY DEF Ends, Picture16
  <1>3. /\ d.op = IF Fills(o) THEN 2 ELSE IF o.op = 6 THEN 1 ELSE o.op
        /\ d.count = Count(o, Area(o)) /\ d.mix = p.fg /\ d.in = Rest(o, Area(o))
        /\ ~d.insertmix /\ (d.bicolour <=> (o.op = 8 /\ Area(o) % 2 = 1))
    BY <1>1 DEF Within
  <1>4. d.op = 0 <=> p.bg
    <2>1. p.bg <=> o.op = 0
      BY <1>2
    <2>2. d.op = 0 <=> o.op = 0
      BY <1>1, <1>3 DEF Fills
    <2> QED
      BY <2>1, <2>2
  <1>5. Count(o, Area(o)) = 0
    <2>1. 0 \in 0 .. (Area(o) - 1)
      BY <1>1
    <2> QED
      BY <2>1, CountIs
  <1>6. ~d.bicolour
    <2>1. o.op = 8 => Area(o) % 2 # 1
      BY <1>1 DEF Area
    <2> QED
      BY <1>3, <2>1
  <1>7. Rest(o, Area(o)) = <<>>
    <2>1. CASE o.op = 4
      <3>1. Twos(o.colours) \in Seq(Byte) /\ Len(Twos(o.colours)) = 2 * Area(o)
        <4>1. Len(Twos(o.colours)) = 2 * Len(o.colours) /\ Twos(o.colours) \in Seq(Byte)
          BY <1>1, TwosAre
        <4>2. Len(o.colours) = Area(o)
          BY <2>1, ColourCount DEF Area
        <4> QED
          BY <4>1, <4>2
      <3>2. After(Len(Twos(o.colours)), Twos(o.colours)) = <<>>
        BY <3>1, AfterEnds
      <3> QED
        BY <2>1, <3>1, <3>2 DEF Rest
    <2>2. CASE o.op \in {2, 7}
      <3>1. Len(o.masks) = (Area(o) + 7) \div 8
        BY <2>2, ColourCount DEF Area
      <3>2. After(Len(o.masks), o.masks) = <<>>
        BY <1>1, AfterEnds
      <3> QED
        BY <2>2, <3>1, <3>2 DEF Rest
    <2>3. CASE o.op \notin {2, 4, 7}
      BY <2>3 DEF Rest
    <2> QED
      BY <2>1, <2>2, <2>3
  <1> QED
    BY <1>3, <1>4, <1>5, <1>6, <1>7 DEF AtRest

-----------------------------------------------------------------------------
(***************************************************************************)
(* The server paints an order pixel by pixel.                              *)
(***************************************************************************)
\* Colours are words.
LEMMA ColourWord ==
    ASSUME NEW o, WellFormed(o), NEW k \in 1 .. Area(o), NEW at, NEW above \in Word, NEW fg \in Word, NEW bg, NEW w
    PROVE  Colour(o, k, at, above, fg, bg, w) \in Word
  <1>1. /\ o.op \in {0, 1, 2, 3, 4, 6, 7, 8, 9, 10, 13, 14} /\ o.colours \in Seq(Word) /\ o.n \in Nat
    BY Form
  <1>2. Xor(above, fg) \in Word
    BY XorWord
  <1>3. 0 \in Word /\ Ones \in Word
    BY Words
  <1>4. CASE o.op = 3
    <2>1. Len(o.colours) >= 1
      BY <1>4, ColourCount
    <2>2. o.colours[1] \in Word
      BY <1>1, <2>1
    <2> QED
      BY <1>4, <2>2 DEF Colour
  <1>5. CASE o.op = 4
    <2>1. Len(o.colours) = o.n /\ Area(o) = o.n
      BY <1>5, ColourCount DEF Area
    <2>2. o.colours[k] \in Word
      BY <1>1, <2>1
    <2> QED
      BY <1>5, <2>2 DEF Colour
  <1>6. CASE o.op = 8
    <2>1. Len(o.colours) >= 2
      BY <1>6, ColourCount
    <2>2. o.colours[1] \in Word /\ o.colours[2] \in Word
      BY <1>1, <2>1
    <2> QED
      BY <1>6, <2>2 DEF Colour
  <1>7. CASE o.op \in {0, 1, 6}
    BY <1>2, <1>7 DEF Colour
  <1>8. CASE o.op \in {2, 7, 9, 10}
    BY <1>2, <1>8 DEF Colour
  <1>9. CASE o.op \in {13, 14}
    BY <1>3, <1>9 DEF Colour
  <1> QED
    BY <1>1, <1>4, <1>5, <1>6, <1>7, <1>8, <1>9

\* The order of the numbers,
Below == {pair \in Nat \X Nat : pair[1] < pair[2]}
\* by which every set of them has a least one.
LEMMA Least ==
    ASSUME NEW T \in SUBSET Nat, T # {}
    PROVE  \E m \in T : \A n \in T : m <= n
  <1>1. IsWellFoundedOn(Below, Nat)
    BY NatLessThanWellFounded DEF OpToRel, Below
  <1>2. PICK m \in T : \A n \in T : ~(<<n, m>> \in Below)
    BY <1>1, WFMin
  <1>3. \A n \in T : ~(n < m)
    BY <1>2 DEF Below
  <1> QED
    BY <1>3

\* The pictures behind each of the first n pixels of an order.
Stroked(f, p, o, w, n) == f = [k \in 0 .. n |-> IF k = 0 THEN p.pixels ELSE Touch(p, o, w, k, f[k - 1])]
\* They exist, so Strokes is what its recursion says.
LEMMA StrokesExist ==
    ASSUME NEW p, NEW o, NEW w, NEW n \in Nat
    PROVE  \E f : Stroked(f, p, o, w, n)
  <1> DEFINE T == {m \in Nat : ~\E f : Stroked(f, p, o, w, m)}
  <1> SUFFICES ASSUME T # {} PROVE FALSE
    OBVIOUS
  <1>1. PICK m \in T : \A i \in T : m <= i
    BY Least
  <1>2. CASE m = 0
    <2> DEFINE f == [k \in 0 .. 0 |-> p.pixels]
    <2>1. f = [k \in 0 .. 0 |-> IF k = 0 THEN p.pixels ELSE Touch(p, o, w, k, f[k - 1])]
      OBVIOUS
    <2> QED
      BY <1>2, <2>1 DEF Stroked
  <1>3. CASE m # 0
    <2>1. m - 1 \in Nat /\ m - 1 \notin T
      BY <1>1, <1>3
    <2>2. PICK g : Stroked(g, p, o, w, m - 1)
      BY <2>1
    <2> DEFINE f == [k \in 0 .. m |-> IF k = m THEN Touch(p, o, w, m, g[m - 1]) ELSE g[k]]
    <2>3. ASSUME NEW k \in 0 .. m
          PROVE  f[k] = IF k = 0 THEN p.pixels ELSE Touch(p, o, w, k, f[k - 1])
      <3>1. CASE k = m
        <4>1. k # 0 /\ m - 1 \in 0 .. m /\ m - 1 # m
          BY <1>3, <2>1, <3>1
        <4> QED
          BY <3>1, <4>1
      <3>2. CASE k # m
        <4>1. k \in 0 .. (m - 1)
          BY <3>2
        <4>2. g[k] = IF k = 0 THEN p.pixels ELSE Touch(p, o, w, k, g[k - 1])
          BY <2>2, <4>1 DEF Stroked
        <4>3. k # 0 => k - 1 \in 0 .. m /\ k - 1 # m
          BY <4>1
        <4> QED
          BY <3>2, <4>2, <4>3
      <3> QED
        BY <3>1, <3>2
    <2>4. f = [k \in 0 .. m |-> f[k]]
      OBVIOUS
    <2> HIDE DEF f
    <2>5. Stroked(f, p, o, w, m)
      BY <2>3, <2>4 DEF Stroked
    <2> QED
      BY <2>5
  <1> QED
    BY <1>2, <1>3

\* A picture that has k pixels of an order more, and keeps the others.
Grown(new, p, o, w, k) ==
    LET N == Len(p.pixels)
    IN  /\ new \in Seq(Word) /\ Len(new) = N + k
        /\ \A i \in 1 .. N : new[i] = p.pixels[i]
        /\ \A j \in 1 .. k :
              new[N + j] = Colour(o, j, N + j - 1, IF N + j - 1 < w THEN 0 ELSE new[N + j - w], Foreground(p, o), p.bg, w)

\* One more pixel keeps the ones before.
LEMMA TouchGrows ==
    ASSUME NEW w \in Nat \ {0}, NEW p \in Picture16, NEW o, WellFormed(o), NEW k \in 1 .. Area(o), NEW new,
           Grown(new, p, o, w, k - 1)
    PROVE  Grown(Touch(p, o, w, k, new), p, o, w, k)
  <1> DEFINE N == Len(p.pixels)
             at == Len(new)
             above == IF at < w THEN 0 ELSE new[at - w + 1]
             v == Colour(o, k, at, above, Foreground(p, o), p.bg, w)
             next == Append(new, v)
  <1>1. /\ p.pixels \in Seq(Word) /\ p.fg \in Word /\ N \in Nat /\ k \in Nat \ {0} /\ Area(o) \in Nat
    BY Form DEF Picture16
  <1>2. /\ new \in Seq(Word) /\ at = N + (k - 1) /\ at \in Nat
        /\ \A i \in 1 .. N : new[i] = p.pixels[i]
        /\ \A j \in 1 .. (k - 1) :
              new[N + j] = Colour(o, j, N + j - 1, IF N + j - 1 < w THEN 0 ELSE new[N + j - w], Foreground(p, o), p.bg, w)
    BY <1>1 DEF Grown
  <1>3. above \in Word
    <2>1. 0 \in Word
      BY Words
    <2>2. at >= w => at - w + 1 \in 1 .. Len(new)
      BY <1>2
    <2> QED
      BY <1>2, <2>1, <2>2
  <1>4. Foreground(p, o) \in Word
    <2>1. o.op \in {6, 7} => Len(o.colours) >= 1 /\ o.colours \in Seq(Word)
      BY Form, ColourCount
    <2>2. o.op \in {6, 7} => o.colours[1] \in Word
      BY <2>1
    <2> QED
      BY <1>1, <2>2 DEF Foreground
  <1> HIDE DEF above, at
  <1>5. v \in Word
    BY <1>3, <1>4, ColourWord
  <1> HIDE DEF v
  <1>6. /\ next \in Seq(Word) /\ Len(next) = at + 1 /\ next[at + 1] = v
        /\ \A i \in 1 .. at : next[i] = new[i]
    BY <1>2, <1>5 DEF at
  <1> HIDE DEF next, N
  <1>7. Touch(p, o, w, k, new) = next
    BY DEF Touch, next, v, at, above
  <1>8. Len(next) = N + k
    BY <1>1, <1>2, <1>6
  <1>9. \A i \in 1 .. N : next[i] = p.pixels[i]
    BY <1>1, <1>2, <1>6
  <1>10. ASSUME NEW j \in 1 .. k
         PROVE  next[N + j] = Colour(o, j, N + j - 1, IF N + j - 1 < w THEN 0 ELSE next[N + j - w], Foreground(p, o), p.bg, w)
    <2>1. (IF N + j - 1 < w THEN 0 ELSE next[N + j - w]) = IF N + j - 1 < w THEN 0 ELSE new[N + j - w]
      <3>1. ~(N + j - 1 < w) => N + j - w \in 1 .. at
        BY <1>1, <1>2
      <3> QED
        BY <1>6, <3>1
    <2>2. CASE j = k
      <3>1. N + j = at + 1 /\ N + j - 1 = at /\ N + j - w = at - w + 1
        BY <1>1, <1>2, <2>2
      <3> QED
        BY <1>6, <2>1, <2>2, <3>1 DEF v, above
    <2>3. CASE j # k
      <3>1. j \in 1 .. (k - 1) /\ N + j \in 1 .. at
        BY <1>1, <1>2, <2>3
      <3> QED
        BY <1>2, <1>6, <2>1, <3>1
    <2> QED
      BY <2>2, <2>3
  <1> QED
    BY <1>6, <1>7, <1>8, <1>9, <1>10 DEF Grown, N

\* An order adds its pixels, each in the colour the order gives it.
LEMMA PaintGrows ==
    ASSUME NEW w \in Nat \ {0}, NEW p \in Picture16, NEW o, WellFormed(o)
    PROVE  Grown(Painted(p, o, w).pixels, p, o, w, Area(o))
  <1> DEFINE A == Area(o)
  <1>1. A \in Nat /\ p.pixels \in Seq(Word)
    BY Form DEF Picture16
  <1>2. PICK f : Stroked(f, p, o, w, A)
    BY <1>1, StrokesExist
  <1> DEFINE new == Strokes(p, o, w)
  <1>3. Stroked(new, p, o, w, A)
    BY <1>2 DEF Strokes, Stroked
  <1> HIDE DEF new, A
  <1>4. \A k \in 0 .. A : new[k] = IF k = 0 THEN p.pixels ELSE Touch(p, o, w, k, new[k - 1])
    BY <1>3 DEF Stroked
  <1> DEFINE T == {m \in 0 .. A : ~Grown(new[m], p, o, w, m)}
  <1>5. T = {}
    <2> SUFFICES ASSUME T # {} PROVE FALSE
      OBVIOUS
    <2>1. PICK m \in T : \A i \in T : m <= i
      <3>1. T \in SUBSET Nat
        BY <1>1
      <3> QED
        BY <3>1, Least
    <2>2. CASE m = 0
      <3>1. new[m] = p.pixels
        BY <1>4, <2>1, <2>2
      <3>2. Grown(p.pixels, p, o, w, 0)
        BY <1>1 DEF Grown
      <3> QED
        BY <2>1, <2>2, <3>1, <3>2
    <2>3. CASE m # 0
      <3>1. m - 1 \in 0 .. A /\ m - 1 \notin T /\ m \in 1 .. A
        BY <1>1, <2>1, <2>3
      <3>2. Grown(new[m - 1], p, o, w, m - 1)
        BY <3>1
      <3>3. new[m] = Touch(p, o, w, m, new[m - 1])
        BY <1>4, <2>3, <3>1
      <3>4. Grown(Touch(p, o, w, m, new[m - 1]), p, o, w, m)
        BY <3>1, <3>2, TouchGrows DEF A
      <3> QED
        BY <2>1, <3>3, <3>4
    <2> QED
      BY <2>2, <2>3
  <1>6. A \in 0 .. A
    BY <1>1
  <1>7. Grown(new[A], p, o, w, A)
    BY <1>5, <1>6
  <1> QED
    BY <1>7 DEF Painted, new, A

-----------------------------------------------------------------------------
(***************************************************************************)
(* The decoder of 16 bits per pixel follows the server.                    *)
(***************************************************************************)
\* The bytes of an order are not none, and its pixels neither.
LEMMA SomeBytes ==
    ASSUME NEW o, WellFormed(o)
    PROVE  OrderBytes(o) # <<>> /\ OrderBytes(o) \in Seq(Byte)
  <1>1. o.colours \in Seq(Word) /\ o.masks \in Seq(Byte)
    BY Form
  <1>2. Twos(o.colours) \in Seq(Byte)
    BY <1>1, TwosAre
  <1>3. Head16(o) \in Seq(Byte) /\ Len(Head16(o)) \in 1 .. 3
    <2>1. Heading(o, o.masks)
      BY <1>1, HeadSays
    <2> QED
      BY <2>1 DEF Heading
  <1>4. Head16(o) \o Twos(o.colours) \in Seq(Byte) /\ Len(Head16(o) \o Twos(o.colours)) >= 1
    <2>1. /\ Len(Head16(o) \o Twos(o.colours)) = Len(Head16(o)) + Len(Twos(o.colours))
          /\ Head16(o) \o Twos(o.colours) \in Seq(Byte) /\ Len(Twos(o.colours)) \in Nat
      BY <1>2, <1>3, Joined
    <2>2. PICK n \in 1 .. 3 : n = Len(Head16(o))
      BY <1>3
    <2> QED
      BY <2>1, <2>2
  <1> DEFINE s == Head16(o) \o Twos(o.colours)
  <1> HIDE DEF s
  <1>5. s \in Seq(Byte) /\ Len(s) >= 1
    BY <1>4 DEF s
  <1>6. s \o o.masks \in Seq(Byte) /\ Len(s \o o.masks) = Len(s) + Len(o.masks) /\ Len(o.masks) \in Nat /\ Len(s) \in Nat
    BY <1>1, <1>5, Joined
  <1>7. Len(s \o o.masks) # 0
    BY <1>5, <1>6
  <1>8. s \o o.masks # <<>>
    BY <1>7
  <1> QED
    BY <1>6, <1>8 DEF OrderBytes, s

\* Where the decoder is, its input and its count tell.
LEMMA Phases ==
    ASSUME NEW b \in Bitmaps, NEW d, NEW p, Following16(b, d, p), d.result = "more"
    PROVE  /\ b.w \in Nat \ {0} /\ b.h \in Nat \ {0} /\ d \in Decoder16(b.w, b.h) /\ p \in Picture16
           /\ d.in = <<>> /\ d.count = 0 => Drawn16(b, d, p, Len(p.pixels)) /\ AtRest(d, p)
           /\ d.in # <<>> /\ d.count = 0 => \E o \in Orders, bg \in BOOLEAN :
                 /\ WellFormed(o) /\ Ends(p, o, bg, b.w)
                 /\ Drawn16(b, d, p, Len(p.pixels) - Area(o)) /\ Before(d, p, o, bg)
           /\ d.count > 0 => \E o \in Orders, bg \in BOOLEAN :
                 /\ WellFormed(o) /\ Ends(p, o, bg, b.w)
                 /\ \E k \in 0 .. (Area(o) - 1) : /\ Drawn16(b, d, p, Len(p.pixels) - Area(o) + k)
                                                  /\ Within(d, p, o, bg, b.w, k, Len(p.pixels) - Area(o) + k)
  <1>1. b.w \in Nat \ {0} /\ b.h \in Nat \ {0}
    BY WindowAssumption DEF IsBitmap
  <1>2. d \in Decoder16(b.w, b.h) /\ p \in Picture16
    BY DEF Following16
  <1>3. \/ Drawn16(b, d, p, Len(p.pixels)) /\ AtRest(d, p)
        \/ \E o \in Orders, bg \in BOOLEAN : Underway(b, d, p, o, bg)
    BY DEF Following16
  <1>4. \A o \in Orders : WellFormed(o)
    BY WindowAssumption
  <1>5. CASE Drawn16(b, d, p, Len(p.pixels)) /\ AtRest(d, p)
    <2>1. d.in = <<>> /\ d.count = 0
      BY <1>5 DEF AtRest
    <2> QED
      BY <1>1, <1>2, <1>5, <2>1
  <1>6. CASE \E o \in Orders, bg \in BOOLEAN : Underway(b, d, p, o, bg)
    <2>1. PICK o \in Orders, bg \in BOOLEAN : Underway(b, d, p, o, bg)
      BY <1>6
    <2>2. WellFormed(o) /\ Ends(p, o, bg, b.w)
      BY <1>4, <2>1 DEF Underway
    <2>3. CASE Drawn16(b, d, p, Len(p.pixels) - Area(o)) /\ Before(d, p, o, bg)
      <3>1. d.in # <<>> /\ d.count = 0
        BY <2>2, <2>3, SomeBytes DEF Before
      <3> QED
        BY <1>1, <1>2, <2>2, <2>3, <3>1
    <2>4. CASE \E k \in 0 .. (Area(o) - 1) : /\ Drawn16(b, d, p, Len(p.pixels) - Area(o) + k)
                                             /\ Within(d, p, o, bg, b.w, k, Len(p.pixels) - Area(o) + k)
      <3>1. d.count \in Nat \ {0}
        <4>1. PICK k \in 0 .. (Area(o) - 1) : Within(d, p, o, bg, b.w, k, Len(p.pixels) - Area(o) + k)
          BY <2>4
        <4>2. d.count = Count(o, k)
          BY <4>1 DEF Within
        <4> QED
          BY <2>2, <4>2, CountIs
      <3> QED
        BY <1>1, <1>2, <2>2, <2>4, <3>1
    <2> QED
      BY <2>1, <2>3, <2>4 DEF Underway
  <1> QED
    BY <1>3, <1>5, <1>6

\* The start of a bitmap,
LEMMA StartFollows ==
    ASSUME NEW b \in Bitmaps
    PROVE  Following16(b, Start16(b.w, b.h), NoPicture)
  <1> DEFINE d == Start16(b.w, b.h)
  <1>1. b.w \in Nat \ {0} /\ b.h \in Nat \ {0} /\ b.w * b.h \in Nat
    <2>1. b.w \in Nat \ {0} /\ b.h \in Nat \ {0}
      BY WindowAssumption DEF IsBitmap
    <2>2. b.w * b.h \in Nat
      <3>1. \A x, y \in Nat : x * y \in Nat
        OBVIOUS
      <3> QED
        BY <2>1, <3>1
    <2> QED
      BY <2>1, <2>2
  <1>2. 0 \in Word /\ Ones \in Word
    BY Words
  <1>3. 0 \in Byte /\ 255 \in Nat
    BY DEF Byte
  <1>4. Blank(b.w * b.h) \in [1 .. (b.w * b.h) -> Word]
    BY <1>2 DEF Blank
  <1>5. d \in Decoder16(b.w, b.h)
    BY <1>1, <1>2, <1>3, <1>4 DEF Start16, Decoder16, NoLine
  <1>6. NoPicture \in Picture16 /\ Len(NoPicture.pixels) = 0 /\ NoPicture.fg = Ones /\ NoPicture.bg = FALSE
    BY <1>2 DEF NoPicture, Picture16
  <1>7. Placed(d, b.w, b.h, 0)
    BY DEF Start16, Placed
  <1>8. Faithful(d.out, NoPicture.pixels, b.w, b.h, 0)
    <2> SUFFICES ASSUME NEW n \in 1 .. (b.w * b.h)
                 PROVE  d.out[Place(b.w, b.h, n)] = IF n <= 0 THEN NoPicture.pixels[n] ELSE 0
      BY DEF Faithful
    <2>1. Place(b.w, b.h, n) \in 1 .. (b.w * b.h)
      BY <1>1, PlaceIs
    <2>2. d.out[Place(b.w, b.h, n)] = 0
      BY <2>1 DEF Start16, Blank
    <2> QED
      BY <1>1, <2>2
  <1>9. d.result = "more" /\ AtRest(d, NoPicture)
    BY <1>6 DEF Start16, AtRest
  <1>10. Drawn16(b, d, NoPicture, Len(NoPicture.pixels))
    BY <1>1, <1>6, <1>7, <1>8 DEF Drawn16
  <1> QED
    BY <1>5, <1>6, <1>9, <1>10 DEF Following16

\* one more order,
LEMMA SendFollows ==
    ASSUME NEW b \in Bitmaps, NEW d, NEW p, Following16(b, d, p),
           d.result = "more", d.in = <<>>, d.count = 0, NEW o \in Orders
    PROVE  Following16(b, [d EXCEPT !.in = OrderBytes(o)], Painted(p, o, b.w))
  <1> DEFINE e == [d EXCEPT !.in = OrderBytes(o)]
             q == Painted(p, o, b.w)
             w == b.w
             N == Len(p.pixels)
  <1>1. /\ w \in Nat \ {0} /\ b.h \in Nat \ {0} /\ d \in Decoder16(w, b.h) /\ p \in Picture16
        /\ Drawn16(b, d, p, N) /\ AtRest(d, p)
    BY Phases
  <1>2. WellFormed(o) /\ Area(o) \in Nat \ {0}
    BY WindowAssumption, Form
  <1>3. N \in Nat /\ p.pixels \in Seq(Word) /\ p.fg \in Word /\ p.bg \in BOOLEAN
    BY <1>1 DEF Picture16
  <1>4. q.fg = Foreground(p, o) /\ q.bg = (o.op = 0)
    BY DEF Painted
  <1>5. Foreground(p, o) = IF o.op \in {6, 7} THEN o.colours[1] ELSE p.fg
    BY DEF Foreground
  <1>6. Foreground(p, o) \in Word
    <2>1. o.op \in {6, 7} => Len(o.colours) >= 1 /\ o.colours \in Seq(Word)
      BY <1>2, Form, ColourCount
    <2>2. o.op \in {6, 7} => o.colours[1] \in Word
      BY <2>1
    <2> QED
      BY <1>3, <1>5, <2>2
  <1>7. Grown(q.pixels, p, o, w, Area(o))
    BY <1>1, <1>2, PaintGrows
  <1>8. q.pixels \in Seq(Word) /\ Len(q.pixels) = N + Area(o) /\ (\A i \in 1 .. N : q.pixels[i] = p.pixels[i])
    BY <1>7 DEF Grown
  <1>9. q \in Picture16
    <2>1. q.pixels \in Seq(Word) /\ q.fg \in Word /\ q.bg \in BOOLEAN
      BY <1>4, <1>6, <1>8
    <2>2. q = [pixels |-> q.pixels, fg |-> q.fg, bg |-> q.bg]
      BY DEF Painted
    <2> QED
      BY <2>1, <2>2 DEF Picture16
  <1>10. /\ e.in = OrderBytes(o) /\ e.out = d.out /\ e.result = d.result /\ e.x = d.x /\ e.left = d.left
         /\ e.line = d.line /\ e.prev = d.prev /\ e.op = d.op /\ e.count = d.count /\ e.mix = d.mix
         /\ e.insertmix = d.insertmix /\ e.bicolour = d.bicolour
    BY <1>1 DEF Decoder16
  <1>11. e \in Decoder16(w, b.h)
    <2>1. OrderBytes(o) \in Seq(Byte)
      BY <1>2, SomeBytes
    <2> QED
      BY <1>1, <2>1 DEF Decoder16
  <1> HIDE DEF q, e
  <1>12. Len(q.pixels) - Area(o) = N
    BY <1>2, <1>3, <1>8
  <1>13. Ends(q, o, p.bg, w)
    <2>1. o.op \in {6, 7} => q.fg = o.colours[1]
      BY <1>4, <1>5
    <2>2. \A k \in 1 .. Area(o) :
              q.pixels[N + k] = Colour(o, k, N + k - 1, IF N + k - 1 < w THEN 0 ELSE q.pixels[N + k - w], q.fg, p.bg, w)
      BY <1>4, <1>7 DEF Grown
    <2> QED
      BY <1>3, <1>4, <1>12, <2>1, <2>2 DEF Ends
  <1>14. Drawn16(b, e, q, N)
    <2>1. Placed(e, w, b.h, N)
      BY <1>1, <1>10 DEF Placed, Drawn16
    <2>2. Faithful(e.out, q.pixels, w, b.h, N)
      <3> SUFFICES ASSUME NEW n \in 1 .. (w * b.h)
                   PROVE  e.out[Place(w, b.h, n)] = IF n <= N THEN q.pixels[n] ELSE 0
        BY DEF Faithful
      <3>1. d.out[Place(w, b.h, n)] = IF n <= N THEN p.pixels[n] ELSE 0
        BY <1>1 DEF Faithful, Drawn16
      <3>2. n <= N => n \in 1 .. N
        BY <1>1, <1>3
      <3> QED
        BY <1>8, <1>10, <3>1, <3>2
    <2>3. N <= w * b.h
      BY <1>1 DEF Drawn16
    <2> QED
      BY <2>1, <2>2, <2>3 DEF Drawn16
  <1>15. Before(e, q, o, p.bg)
    <2>1. /\ d.count = 0 /\ d.mix = p.fg /\ ~d.insertmix /\ ~d.bicolour /\ (d.op = 0 <=> p.bg)
      BY <1>1 DEF AtRest
    <2>2. o.op \in {6, 7} \/ e.mix = q.fg
      BY <1>4, <1>5, <1>10, <2>1
    <2> QED
      BY <1>10, <2>1, <2>2 DEF Before
  <1>16. Underway(b, e, q, o, p.bg)
    BY <1>12, <1>13, <1>14, <1>15 DEF Underway
  <1> QED
    BY <1>3, <1>9, <1>10, <1>11, <1>16 DEF Following16, e, q

\* the head of it,
LEMMA OrderFollows ==
    ASSUME NEW b \in Bitmaps, NEW d, NEW p, Following16(b, d, p), d.result = "more", d.in # <<>>, d.count = 0
    PROVE  Following16(b, Order(d, b.w), p) /\ Order(d, b.w).result = "more"
  <1> DEFINE e == Order(d, b.w)
  <1>1. /\ b.w \in Nat \ {0} /\ b.h \in Nat \ {0} /\ d \in Decoder16(b.w, b.h) /\ p \in Picture16
    BY Phases
  <1>2. PICK o \in Orders, bg \in BOOLEAN :
           /\ WellFormed(o) /\ Ends(p, o, bg, b.w)
           /\ Drawn16(b, d, p, Len(p.pixels) - Area(o)) /\ Before(d, p, o, bg)
    BY Phases
  <1> DEFINE N == Len(p.pixels) - Area(o)
  <1>3. N \in Nat /\ (o.op \in {6, 7} => p.fg = o.colours[1]) /\ Area(o) \in Nat \ {0}
    BY <1>2, Form DEF Ends
  <1>4. Placed(d, b.w, b.h, N) /\ Faithful(d.out, p.pixels, b.w, b.h, N) /\ N <= b.w * b.h
    BY <1>2 DEF Drawn16
  <1> HIDE DEF N
  <1>5. /\ e \in Decoder16(b.w, b.h) /\ e.result = d.result /\ e.out = d.out
        /\ Placed(e, b.w, b.h, N) /\ Within(e, p, o, bg, b.w, 0, N)
    BY <1>1, <1>2, <1>3, <1>4, Parsed
  <1> HIDE DEF e
  <1>6. Drawn16(b, e, p, N)
    BY <1>4, <1>5 DEF Drawn16
  <1>7. 0 \in 0 .. (Area(o) - 1) /\ N + 0 = N
    BY <1>3
  <1>8. \E k \in 0 .. (Area(o) - 1) : Drawn16(b, e, p, N + k) /\ Within(e, p, o, bg, b.w, k, N + k)
    BY <1>5, <1>6, <1>7
  <1>9. Underway(b, e, p, o, bg)
    BY <1>2, <1>8 DEF Underway, N
  <1> QED
    BY <1>1, <1>2, <1>5, <1>9 DEF Following16, e

\* and a pixel of it.
LEMMA PixelFollows ==
    ASSUME NEW b \in Bitmaps, NEW d, NEW p, Following16(b, d, p), d.result = "more", d.count > 0
    PROVE  Following16(b, Pixel(d, b.w), p) /\ Pixel(d, b.w).result # "drawn"
  <1> DEFINE e == Pixel(d, b.w)
             w == b.w
             h == b.h
  <1>1. w \in Nat \ {0} /\ h \in Nat \ {0} /\ d \in Decoder16(w, h) /\ p \in Picture16
    BY Phases
  <1>2. PICK o \in Orders, bg \in BOOLEAN :
           /\ WellFormed(o) /\ Ends(p, o, bg, w)
           /\ \E k \in 0 .. (Area(o) - 1) : /\ Drawn16(b, d, p, Len(p.pixels) - Area(o) + k)
                                            /\ Within(d, p, o, bg, w, k, Len(p.pixels) - Area(o) + k)
    BY Phases
  <1>3. PICK k \in 0 .. (Area(o) - 1) : /\ Drawn16(b, d, p, Len(p.pixels) - Area(o) + k)
                                        /\ Within(d, p, o, bg, w, k, Len(p.pixels) - Area(o) + k)
    BY <1>2
  <1> DEFINE N == Len(p.pixels) - Area(o) + k
  <1>4. /\ N \in Nat /\ Area(o) \in Nat \ {0} /\ k \in Nat /\ Len(p.pixels) \in Nat
        /\ Len(p.pixels) - Area(o) \in Nat /\ p.pixels \in Seq(Word)
    <2>1. Area(o) \in Nat \ {0} /\ Len(p.pixels) - Area(o) \in Nat /\ p.pixels \in Seq(Word)
      BY <1>1, <1>2, Form DEF Ends, Picture16
    <2> QED
      BY <2>1
  <1>5. Placed(d, w, h, N) /\ Faithful(d.out, p.pixels, w, h, N) /\ N <= w * h /\ Within(d, p, o, bg, w, k, N)
    BY <1>3 DEF Drawn16
  <1>6. w * h \in Nat
    <2>1. \A x, y \in Nat : x * y \in Nat
      OBVIOUS
    <2> QED
      BY <1>1, <2>1
  <1>7. N = Len(p.pixels) - Area(o) + k
    OBVIOUS
  <1> HIDE DEF N, e, w, h
  <1>8. CASE N = w * h
    <2>1. ~(d.x < w) /\ d.left = 0
      BY <1>1, <1>5, <1>8, NoPlace
    <2>2. e = [d EXCEPT !.result = "error"]
      BY <2>1 DEF Pixel, e, w
    <2>3. e \in Decoder16(w, h) /\ e.result = "error"
      BY <1>1, <2>2 DEF Decoder16
    <2>4. Len(p.pixels) > w * h
      BY <1>4, <1>6, <1>7, <1>8
    <2> QED
      BY <1>1, <2>3, <2>4 DEF Following16, e, w, h
  <1>9. CASE N # w * h
    <2>1. N < w * h
      BY <1>4, <1>5, <1>6, <1>9
    <2>2. Draws(d, d, p, o, bg, w, h, k, N)
      BY <1>1, <1>5 DEF Draws
    <2>3. Draws(e, d, p, o, bg, w, h, k + 1, N + 1)
      <3>1. WellFormed(o) /\ Ends(p, o, bg, w) /\ N \in Nat
        BY <1>2, <1>4 DEF w
      <3>2. Draws(Pixel(d, w), d, p, o, bg, w, h, k + 1, N + 1)
        BY <1>1, <1>7, <2>1, <2>2, <3>1, PixelRead
      <3> QED
        BY <3>2 DEF e, w
    <2>4. /\ e \in Decoder16(w, h) /\ e.result = "more" /\ Within(e, p, o, bg, w, k + 1, N + 1)
          /\ Drawn16(b, e, p, N + 1)
      <3>1. N + 1 <= w * h
        BY <1>4, <1>6, <2>1
      <3> QED
        BY <2>3, <3>1 DEF Draws, Drawn16, w, h
    <2>5. CASE k + 1 = Area(o)
      <3>1. N + 1 = Len(p.pixels)
        BY <1>4, <1>7, <2>5
      <3>2. AtRest(e, p)
        BY <1>1, <1>2, <2>4, <2>5, OrderDone
      <3> QED
        BY <1>1, <2>4, <3>1, <3>2 DEF Following16, e, w, h
    <2>6. CASE k + 1 # Area(o)
      <3>1. k + 1 \in 0 .. (Area(o) - 1) /\ N + 1 = Len(p.pixels) - Area(o) + (k + 1)
        BY <1>4, <1>7, <2>6
      <3>2. Underway(b, e, p, o, bg)
        BY <1>2, <2>4, <3>1 DEF Underway, w
      <3> QED
        BY <1>1, <1>2, <2>4, <3>2 DEF Following16, e, w, h
    <2> QED
      BY <2>5, <2>6
  <1> QED
    BY <1>8, <1>9

-----------------------------------------------------------------------------
(***************************************************************************)
(* The decoder of 32 bits per pixel follows the server.                    *)
(***************************************************************************)
\* The fields of a segment.
LEMMA SegmentForm ==
    ASSUME NEW raw, NEW n, WellFormedSegment(raw, n)
    PROVE  /\ raw \in Seq(Int) /\ DOMAIN raw = 1 .. Len(raw) /\ Len(raw) \in Nat /\ Len(raw) \in 0 .. 15
           /\ \A i \in 1 .. Len(raw) : raw[i] \in -128 .. 255
           /\ n \in Nat /\ n \in 0 .. 47 /\ n \notin {1, 2} /\ (n >= 16 => Len(raw) = 0)
  <1> DEFINE B == -128 .. 255
  <1>1. raw \in Seq(B) /\ Len(raw) < 16 /\ n \in (0 .. 47) \ {1, 2} /\ (n >= 16 => raw = <<>>)
    BY DEF WellFormedSegment
  <1>2. B \in SUBSET Int
    OBVIOUS
  <1> HIDE DEF B
  <1>3. raw \in Seq(Int) /\ DOMAIN raw = 1 .. Len(raw) /\ Len(raw) \in Nat /\ \A i \in 1 .. Len(raw) : raw[i] \in B
    <2>1. raw \in Seq(B)
      BY <1>1
    <2>2. Len(raw) \in Nat /\ DOMAIN raw = 1 .. Len(raw)
      BY <2>1
    <2>3. \A i \in 1 .. Len(raw) : raw[i] \in B
      BY <2>1
    <2>4. raw \in Seq(Int)
      <3>1. raw \in [1 .. Len(raw) -> B]
        BY <2>1
      <3>2. raw \in [1 .. Len(raw) -> Int]
        BY <1>2, <3>1
      <3>3. \A m \in Nat : \A f \in [1 .. m -> Int] : f \in Seq(Int)
        OBVIOUS
      <3> QED
        BY <2>2, <3>2, <3>3
    <2> QED
      BY <2>2, <2>3, <2>4
  <1>4. Len(raw) \in 0 .. 15
    <2>1. Len(raw) < 16
      BY <1>1
    <2>2. \A L \in Nat : L < 16 => L \in 0 .. 15
      OBVIOUS
    <2> QED
      BY <1>3, <2>1, <2>2, Zenon
  <1>5. n >= 16 => Len(raw) = 0
    BY <1>1
  <1>6. n \in Nat /\ n \in 0 .. 47 /\ n \notin {1, 2}
    <2>1. n \in (0 .. 47) \ {1, 2}
      BY <1>1
    <2> QED
      BY <2>1
  <1>7. \A i \in 1 .. Len(raw) : raw[i] \in -128 .. 255
    BY <1>3 DEF B
  <1> QED
    BY <1>3, <1>4, <1>5, <1>6, <1>7

\* The code of a segment says how many bytes and how long a run there are.
LEMMA RunCodeIs ==
    ASSUME NEW raw, NEW n, WellFormedSegment(raw, n)
    PROVE  LET code == RunCode(raw, n)
               swapped == (code % 16) * 16 + code \div 16
               long == swapped \in 16 .. 47
           IN  /\ code \in Byte /\ Len(raw) \in 0 .. 15 /\ n \in 0 .. 47
               /\ (IF long THEN 0 ELSE code \div 16) = Len(raw)
               /\ (IF long THEN swapped ELSE code % 16) = n
  <1>1. Len(raw) \in 0 .. 15 /\ n \in 0 .. 47 /\ n \notin {1, 2} /\ (n >= 16 => Len(raw) = 0)
    BY SegmentForm
  <1>2. PICK L \in 0 .. 15 : L = Len(raw)
    BY <1>1
  <1>3. CASE n >= 16
    <2> DEFINE r == n % 16
               q == n \div 16
    <2>1. r \in 0 .. 15 /\ q \in 1 .. 2 /\ n = 16 * q + r
      <3>1. n \in 16 .. 47
        BY <1>1, <1>3
      <3>2. n \in Nat /\ n = q * 16 + r /\ r \in 0 .. (16 - 1) /\ q \in Nat
        BY <3>1, DivMod
      <3>3. n = 16 * q + r
        BY <3>2
      <3> HIDE DEF r, q
      <3> QED
        BY <3>1, <3>2, <3>3
    <2>2. RunCode(raw, n) = r * 16 + q
      BY <1>3 DEF RunCode
    <2> HIDE DEF r, q
    <2>3. PICK code \in 0 .. 255 : code = 16 * r + q /\ code = RunCode(raw, n)
      <3>1. 16 * r + q \in 0 .. 255 /\ RunCode(raw, n) = 16 * r + q
        BY <2>1, <2>2
      <3> QED
        BY <3>1
    <2>4. code % 16 = q /\ code \div 16 = r
      BY <2>1, <2>3
    <2>5. (code % 16) * 16 + code \div 16 = n
      BY <2>1, <2>4
    <2>6. code \in Byte
      BY <2>3 DEF Byte
    <2>7. n \in 16 .. 47 /\ Len(raw) = 0
      BY <1>1, <1>3
    <2> QED
      BY <1>1, <2>3, <2>5, <2>6, <2>7
  <1>4. CASE n < 16
    <2>1. PICK code \in 0 .. 255 : code = 16 * L + n /\ code = RunCode(raw, n)
      <3>1. 16 * L + n \in 0 .. 255
        BY <1>1, <1>4
      <3>2. RunCode(raw, n) = 16 * L + n
        BY <1>1, <1>2, <1>4 DEF RunCode
      <3> QED
        BY <3>1, <3>2
    <2>2. code % 16 = n /\ code \div 16 = L
      BY <1>1, <1>4, <2>1
    <2>3. (code % 16) * 16 + code \div 16 \notin 16 .. 47
      BY <1>1, <1>4, <2>2
    <2>4. code \in Byte
      BY <2>1 DEF Byte
    <2> QED
      BY <1>1, <1>2, <2>1, <2>2, <2>3, <2>4
  <1> QED
    BY <1>1, <1>3, <1>4

\* A difference is what it was before it was written.
LEMMA DeltaIs ==
    ASSUME NEW row \in Nat, NEW v \in -128 .. 255, IF row = 0 THEN v >= 0 ELSE v < 128
    PROVE  /\ Coded(row, v) \in Byte
           /\ (IF row = 0 THEN Coded(row, v) ELSE Delta(Coded(row, v))) = v
  <1>1. CASE row = 0
    BY <1>1 DEF Coded, Byte
  <1>2. CASE row # 0 /\ v < 0
    <2>1. PICK c \in 0 .. 255 : c = (0 - 2 * v) - 1
      <3>1. (0 - 2 * v) - 1 \in 0 .. 255
        BY <1>2
      <3> QED
        BY <3>1
    <2>2. Coded(row, v) = c
      BY <1>2, <2>1 DEF Coded
    <2>3. c % 2 = 1 /\ c \div 2 = (0 - v) - 1
      BY <1>2, <2>1
    <2>4. Delta(c) = v
      BY <2>3 DEF Delta
    <2>5. c \in Byte
      BY <2>1 DEF Byte
    <2> QED
      BY <1>2, <2>2, <2>4, <2>5
  <1>3. CASE row # 0 /\ ~(v < 0)
    <2>1. PICK c \in 0 .. 255 : c = 2 * v
      <3>1. 2 * v \in 0 .. 255
        BY <1>3
      <3> QED
        BY <3>1
    <2>2. Coded(row, v) = c
      BY <1>3, <2>1 DEF Coded
    <2>3. c % 2 # 1 /\ c \div 2 = v
      BY <1>3, <2>1
    <2>4. Delta(c) = v
      BY <2>3 DEF Delta
    <2>5. c \in Byte
      BY <2>1 DEF Byte
    <2> QED
      BY <1>3, <2>2, <2>4, <2>5
  <1> QED
    BY <1>1, <1>2, <1>3

\* The bytes of a segment.
LEMMA SegmentRead ==
    ASSUME NEW raw, NEW n, WellFormedSegment(raw, n), NEW row \in Nat, Fresh(row, raw),
           NEW in, in = SegmentBytes(row, raw, n)
    PROVE  /\ in \in Seq(Byte) /\ Len(in) = 1 + Len(raw) /\ in[1] = RunCode(raw, n) /\ in # <<>>
           /\ \A i \in 1 .. Len(raw) : (IF row = 0 THEN in[1 + i] ELSE Delta(in[1 + i])) = raw[i]
           /\ After(1 + Len(raw), in) = <<>>
  <1>1. raw \in Seq(Int) /\ DOMAIN raw = 1 .. Len(raw) /\ Len(raw) \in Nat
    BY SegmentForm
  <1> DEFINE t == [i \in DOMAIN raw |-> Coded(row, raw[i])]
             c == RunCode(raw, n)
  <1>2. \A i \in 1 .. Len(raw) : /\ Coded(row, raw[i]) \in Byte
                                 /\ (IF row = 0 THEN Coded(row, raw[i]) ELSE Delta(Coded(row, raw[i]))) = raw[i]
    <2> SUFFICES ASSUME NEW i \in 1 .. Len(raw)
                 PROVE  /\ Coded(row, raw[i]) \in Byte
                        /\ (IF row = 0 THEN Coded(row, raw[i]) ELSE Delta(Coded(row, raw[i]))) = raw[i]
      OBVIOUS
    <2>1. raw[i] \in -128 .. 255
      BY SegmentForm
    <2>2. IF row = 0 THEN raw[i] >= 0 ELSE raw[i] < 128
      BY <1>1 DEF Fresh
    <2> QED
      BY <2>1, <2>2, DeltaIs
  <1>3. t \in Seq(Byte) /\ Len(t) = Len(raw) /\ \A i \in 1 .. Len(raw) : t[i] = Coded(row, raw[i])
    <2>1. t \in [1 .. Len(raw) -> Byte]
      BY <1>1, <1>2
    <2> QED
      BY <1>1, <2>1
  <1>4. c \in Byte
    BY RunCodeIs
  <1>5. in = <<c>> \o t
    BY DEF SegmentBytes
  <1> HIDE DEF t, c
  <1>6. <<c>> \in Seq(Byte) /\ Len(<<c>>) = 1 /\ <<c>>[1] = c
    BY <1>4
  <1>7. in \in Seq(Byte) /\ Len(in) = 1 + Len(raw) /\ in[1] = c
    <2>1. /\ <<c>> \o t \in Seq(Byte) /\ Len(<<c>> \o t) = Len(<<c>>) + Len(t)
          /\ \A i \in 1 .. Len(<<c>>) : (<<c>> \o t)[i] = <<c>>[i]
      BY <1>3, <1>6, Joined
    <2> QED
      BY <1>3, <1>5, <1>6, <2>1
  <1>8. \A i \in 1 .. Len(raw) : in[1 + i] = t[i]
    <2>1. \A i \in 1 .. Len(t) : (<<c>> \o t)[Len(<<c>>) + i] = t[i]
      BY <1>3, <1>6, Joined
    <2> QED
      BY <1>3, <1>5, <1>6, <2>1
  <1>9. After(1 + Len(raw), in) = <<>>
    BY <1>7, AfterEnds
  <1>10. in # <<>>
    BY <1>1, <1>7
  <1> QED
    BY <1>2, <1>3, <1>7, <1>8, <1>9, <1>10 DEF c

\* A segment: its bytes, then the last of them again.
LEMMA RunIs ==
    ASSUME NEW raw, NEW n, WellFormedSegment(raw, n), NEW last \in Int
    PROVE  LET run == Run(raw, n, last)
           IN  run \in Seq(Int) /\ Len(run) = Len(raw) + n /\ DOMAIN run = 1 .. (Len(raw) + n)
  <1>1. raw \in Seq(Int) /\ Len(raw) \in Nat /\ n \in Nat
    BY SegmentForm
  <1> DEFINE v == IF raw = <<>> THEN last ELSE raw[Len(raw)]
             t == [i \in 1 .. n |-> v]
  <1>2. v \in Int
    <2>1. raw # <<>> => Len(raw) \in 1 .. Len(raw)
      BY <1>1
    <2> QED
      BY <1>1, <2>1
  <1>3. t \in Seq(Int) /\ Len(t) = n
    BY <1>1, <1>2
  <1>4. Run(raw, n, last) = raw \o t
    BY DEF Run
  <1> HIDE DEF t
  <1>5. raw \o t \in Seq(Int) /\ Len(raw \o t) = Len(raw) + Len(t)
    BY <1>1, <1>3, Joined
  <1> QED
    BY <1>3, <1>4, <1>5

\* Where a run starts in the buffer.
Behind(w, h, row, indexw) == (h - row - 1) * w + indexw
\* The pixels of a run are side by side in the lowest line that is not full.
LEMMA RunPlaces ==
    ASSUME NEW w \in Nat \ {0}, NEW h \in Nat \ {0}, NEW row \in 0 .. (h - 1), NEW indexw \in 0 .. (w - 1),
           NEW i \in 1 .. (w - indexw), NEW n, n = row * w + indexw + i
    PROVE  /\ n \in 1 .. (w * h) /\ Place(w, h, n) = Behind(w, h, row, indexw) + i
           /\ (n <= w <=> row = 0) /\ row * w + indexw \in Nat
  <1> DEFINE y == row * w
             c == indexw + i - 1
  <1>1. y \in Nat /\ c \in 0 .. (w - 1) /\ row \in Nat
    <2>1. \A a, b \in Nat : a * b \in Nat
      OBVIOUS
    <2> QED
      BY <2>1
  <1>2. y + c \in 0 .. (w * h - 1)
    BY <1>1, InRange
  <1>3. w * h \in Nat
    OBVIOUS
  <1>4. row * w + c = ((y + c) \div w) * w + ((y + c) % w) /\ (y + c) \div w \in Nat /\ (y + c) % w \in 0 .. (w - 1)
    <2>1. y + c \in Nat
      BY <1>1
    <2> QED
      BY <2>1, DivMod
  <1>5. (y + c) \div w = row /\ (y + c) % w = c
    BY <1>1, <1>4, Unique
  <1>6. row = 0 => y = 0
    OBVIOUS
  <1>7. row # 0 => y >= w
    <2> SUFFICES ASSUME row # 0 PROVE y >= w
      OBVIOUS
    <2>1. PICK t \in Nat : row = 1 + t
      <3> row - 1 \in Nat /\ row = 1 + (row - 1)
        OBVIOUS
      <3> QED
        OBVIOUS
    <2>2. y = w + t * w /\ t * w >= 0
      BY <2>1
    <2> QED
      BY <2>2
  <1>8. n - 1 = y + c /\ n \in 1 .. (w * h) /\ y + indexw \in Nat
    BY <1>1, <1>2, <1>3
  <1>9. Place(w, h, n) = (h - row - 1) * w + c + 1
    BY <1>5, <1>8 DEF Place
  <1>10. (h - row - 1) * w \in Int
    OBVIOUS
  <1>11. Place(w, h, n) = (h - row - 1) * w + indexw + i
    <2>1. PICK z \in Int : z = (h - row - 1) * w
      BY <1>10
    <2>2. z + c + 1 = z + indexw + i
      BY <2>1
    <2> QED
      BY <1>9, <2>1, <2>2
  <1>12. n <= w <=> row = 0
    <2>1. i >= 1 /\ i <= w - indexw /\ indexw \in Nat
      OBVIOUS
    <2> HIDE DEF y
    <2> QED
      BY <1>1, <1>6, <1>7, <2>1
  <1>13. Place(w, h, n) = Behind(w, h, row, indexw) + i
    BY <1>11, Zenon DEF Behind
  <1> QED
    BY <1>8, <1>12, <1>13

\* Where pixel i of a run is.
OfRun(w, h, row, indexw, i) ==
    LET n == row * w + indexw + i
    IN  /\ n \in 1 .. (w * h) /\ Place(w, h, n) = Behind(w, h, row, indexw) + i
        /\ (n <= w <=> row = 0) /\ row * w + indexw \in Nat
\* It holds of all of them.
LEMMA RunPlaced ==
    ASSUME NEW w \in Nat \ {0}, NEW h \in Nat \ {0}, NEW row \in 0 .. (h - 1), NEW indexw \in 0 .. (w - 1),
           NEW i \in 1 .. (w - indexw)
    PROVE  OfRun(w, h, row, indexw, i)
  <1>1. PICK n : n = row * w + indexw + i
    OBVIOUS
  <1>2. n \in 1 .. (w * h) /\ Place(w, h, n) = Behind(w, h, row, indexw) + i
    BY <1>1, RunPlaces
  <1>3. (n <= w <=> row = 0) /\ row * w + indexw \in Nat
    BY <1>1, RunPlaces
  <1> QED
    BY <1>1, <1>2, <1>3, Zenon DEF OfRun

\* A run ends above all lines below it.
LEMMA RunInside ==
    ASSUME NEW w \in Nat \ {0}, NEW h \in Nat \ {0}, NEW row \in 0 .. (h - 1), NEW indexw \in 0 .. (w - 1),
           NEW l \in 0 .. (w - indexw)
    PROVE  (h - row - 1) * w + indexw + l + (IF row = 0 THEN 0 ELSE w) <= w * h
  <1>1. PICK t \in Nat : h = row + 1 + t
    <2> h - row - 1 \in Nat /\ h = row + 1 + (h - row - 1)
      OBVIOUS
    <2> QED
      OBVIOUS
  <1>2. PICK y \in Nat : y = t * w
    <2>1. \A a, b \in Nat : a * b \in Nat
      OBVIOUS
    <2> QED
      BY <2>1
  <1>3. h - row - 1 = t /\ w * h = row * w + w + t * w
    BY <1>1
  <1>4. row # 0 => row * w >= w
    <2> SUFFICES ASSUME row # 0 PROVE row * w >= w
      OBVIOUS
    <2>1. PICK u \in Nat : row = 1 + u
      <3> row - 1 \in Nat /\ row = 1 + (row - 1)
        OBVIOUS
      <3> QED
        OBVIOUS
    <2>2. row * w = w + u * w /\ u * w >= 0
      BY <2>1
    <2> QED
      BY <2>2
  <1>5. PICK z \in Nat : z = row * w
    <2>1. \A a, b \in Nat : a * b \in Nat
      OBVIOUS
    <2> QED
      BY <2>1
  <1>6. w * h = z + w + y /\ (row # 0 => z >= w) /\ (h - row - 1) * w = y
    BY <1>2, <1>3, <1>4, <1>5
  <1> HIDE <1>1, <1>2, <1>5
  <1>7. l <= w - indexw
    OBVIOUS
  <1>8. y + indexw + l + (IF row = 0 THEN 0 ELSE w) <= z + w + y
    BY <1>6, <1>7
  <1> QED
    BY <1>6, <1>8

\* What a segment adds to a plane of the picture.
LEMMA PlaneGrows ==
    ASSUME NEW pixels \in Seq(Byte), NEW raw, NEW n, WellFormedSegment(raw, n), NEW last \in Int, NEW w \in Nat \ {0},
           Len(raw) + n <= w
    PROVE  LET new == PaintedPlane(pixels, raw, n, last, w)
               run == Run(raw, n, last)
               N == Len(pixels)
           IN  /\ new \in Seq(Byte) /\ Len(new) = N + Len(raw) + n
               /\ \A i \in 1 .. N : new[i] = pixels[i]
               /\ \A i \in 1 .. (Len(raw) + n) :
                     new[N + i] = (run[i] + (IF N + i <= w THEN 0 ELSE new[N + i - w])) % 256
  <1> DEFINE run == Run(raw, n, last)
             L == Len(raw) + n
             N == Len(pixels)
             v(i) == (run[i] + (IF N + i <= w THEN 0 ELSE pixels[N + i - w])) % 256
             t == [i \in 1 .. L |-> v(i)]
             new == pixels \o t
  <1>1. run \in Seq(Int) /\ DOMAIN run = 1 .. L /\ Len(run) = L
    BY RunIs
  <1>2. PaintedPlane(pixels, raw, n, last, w) = new
    <2>1. PaintedPlane(pixels, raw, n, last, w) = pixels \o [i \in DOMAIN run |-> v(i)]
      BY DEF PaintedPlane
    <2> HIDE DEF run
    <2> QED
      BY <1>1, <2>1
  <1>3. L \in Nat /\ N \in Nat /\ Len(raw) \in Nat /\ n \in Nat
    <2>1. Len(raw) \in Nat /\ n \in Nat
      BY SegmentForm
    <2> QED
      BY <2>1
  <1>4. L <= w
    OBVIOUS
  <1> HIDE DEF run, L, N
  <1>5. \A i \in 1 .. L : v(i) \in Byte
    <2> SUFFICES ASSUME NEW i \in 1 .. L PROVE v(i) \in Byte
      OBVIOUS
    <2>1. run[i] \in Int
      BY <1>1
    <2>2. ~(N + i <= w) => N + i - w \in 1 .. N
      BY <1>3, <1>4
    <2>3. ~(N + i <= w) => pixels[N + i - w] \in Byte
      BY <2>2 DEF N
    <2>4. (IF N + i <= w THEN 0 ELSE pixels[N + i - w]) \in Int
      <3>1. \A b \in Byte : b \in Int
        BY DEF Byte
      <3>2. 0 \in Int
        OBVIOUS
      <3> QED
        BY <2>3, <3>1, <3>2, Zenon
    <2>5. PICK x \in Int : x = run[i] + (IF N + i <= w THEN 0 ELSE pixels[N + i - w])
      BY <2>1, <2>4
    <2>6. x % 256 \in 0 .. 255
      OBVIOUS
    <2> QED
      BY <2>5, <2>6 DEF Byte
  <1>6. t \in Seq(Byte) /\ Len(t) = L /\ \A i \in 1 .. L : t[i] = v(i)
    <2>1. t \in [1 .. L -> Byte]
      BY <1>5
    <2> QED
      BY <1>3, <2>1
  <1> HIDE DEF t
  <1>7. /\ new \in Seq(Byte) /\ Len(new) = N + L
        /\ \A i \in 1 .. N : new[i] = pixels[i]
        /\ \A i \in 1 .. L : new[N + i] = t[i]
    <2>1. t \in Seq(Byte) /\ Len(t) = L
      BY <1>6
    <2>2. /\ pixels \o t \in Seq(Byte) /\ Len(pixels \o t) = Len(pixels) + Len(t)
          /\ \A i \in 1 .. Len(pixels) : (pixels \o t)[i] = pixels[i]
          /\ \A i \in 1 .. Len(t) : (pixels \o t)[Len(pixels) + i] = t[i]
      <3>1. PICK u \in Seq(Byte) : u = t
        BY <2>1
      <3>2. /\ pixels \o u \in Seq(Byte) /\ Len(pixels \o u) = Len(pixels) + Len(u)
            /\ \A i \in 1 .. Len(pixels) : (pixels \o u)[i] = pixels[i]
            /\ \A i \in 1 .. Len(u) : (pixels \o u)[Len(pixels) + i] = u[i]
        BY Joined
      <3> QED
        BY <3>1, <3>2, Zenon
    <2> QED
      BY <2>1, <2>2 DEF N
  <1> HIDE DEF new
  <1>8. ASSUME NEW i \in 1 .. L
        PROVE  new[N + i] = (run[i] + (IF N + i <= w THEN 0 ELSE new[N + i - w])) % 256
    <2>1. ~(N + i <= w) => N + i - w \in 1 .. N
      BY <1>3, <1>4
    <2>2. ~(N + i <= w) => new[N + i - w] = pixels[N + i - w]
      BY <1>7, <2>1
    <2> QED
      BY <1>6, <1>7, <2>2
  <1>9. N + L = N + Len(raw) + n
    BY <1>3 DEF L
  <1> QED
    BY <1>2, <1>7, <1>8, <1>9 DEF run, L, N

\* What Segment does to a decoder.
Reads(e, d, w, h, raw, n) ==
    LET L == Len(raw) + n
        run == Run(raw, n, d.colour)
        start == (h - d.row - 1) * w + d.indexw
        full == L = w - d.indexw
        last == full /\ d.row + 1 = h
    IN  e = [d EXCEPT
              !.in     = <<>>,
              !.out[d.plane] = [i \in 1 .. (w * h) |->
                  IF i - start \in 1 .. L
                  THEN (run[i - start] + (IF d.row = 0 THEN 0 ELSE d.out[d.plane][i + w])) % 256
                  ELSE d.out[d.plane][i]],
              !.indexw = IF full THEN 0 ELSE d.indexw + L,
              !.colour = IF full THEN 0 ELSE IF raw = <<>> THEN d.colour ELSE raw[Len(raw)],
              !.row    = IF last THEN 0 ELSE IF full THEN d.row + 1 ELSE d.row,
              !.plane  = IF last THEN d.plane + 1 ELSE d.plane,
              !.result = IF last /\ d.plane = 4 THEN "done" ELSE d.result]

\* A segment that was written is read as what it says.
LEMMA SegmentIs ==
    ASSUME NEW w \in Nat \ {0}, NEW h \in Nat \ {0}, NEW d \in Decoder32(w, h), d.plane < 5,
           NEW raw, NEW n, WellFormedSegment(raw, n), Fresh(d.row, raw), d.in = SegmentBytes(d.row, raw, n),
           Len(raw) + n \in 1 .. (w - d.indexw)
    PROVE  Reads(Segment(d, w, h), d, w, h, raw, n)
  <1> DEFINE code == d.in[1]
             swapped == (code % 16) * 16 + code \div 16
             long == swapped \in 16..47
             collen == IF long THEN 0 ELSE code \div 16
             replen == IF long THEN swapped ELSE code % 16
             colours == [i \in 1..collen |-> IF d.row = 0 THEN d.in[1 + i] ELSE Delta(d.in[1 + i])]
             colour == IF collen = 0 THEN d.colour ELSE colours[collen]
             run == colours \o [i \in 1..replen |-> colour]
             start == (h - d.row - 1) * w + d.indexw
             drawn == [i \in DOMAIN run |->
                         (run[i] + (IF d.row = 0 THEN 0 ELSE d.out[d.plane][start + i + w])) % 256]
             full == d.indexw + Len(run) >= w
             last == full /\ d.row + 1 = h
             L == Len(raw) + n
  <1>1. /\ d.plane \in 1 .. 4 /\ d.row \in 0 .. (h - 1) /\ d.row \in Nat /\ d.indexw \in 0 .. (w - 1) /\ d.colour \in Int
        /\ d.out \in [1 .. 4 -> [1 .. (w * h) -> Byte]] /\ d.in \in Seq(Byte)
    BY DEF Decoder32
  <1>2. /\ raw \in Seq(Int) /\ Len(raw) \in Nat /\ n \in Nat /\ L \in Nat
    <2>1. raw \in Seq(Int) /\ Len(raw) \in Nat /\ n \in Nat
      BY SegmentForm
    <2>2. \A a, b \in Nat : a + b \in Nat
      OBVIOUS
    <2>3. L \in Nat
      <3>1. Len(raw) + n \in Nat
        BY <2>1, <2>2, Zenon
      <3> QED
        BY <3>1
    <2> HIDE DEF L
    <2> QED
      BY <2>1, <2>3
  <1>3. /\ Len(d.in) = 1 + Len(raw) /\ code = RunCode(raw, n)
        /\ \A i \in 1 .. Len(raw) : (IF d.row = 0 THEN d.in[1 + i] ELSE Delta(d.in[1 + i])) = raw[i]
        /\ After(1 + Len(raw), d.in) = <<>>
    <2>1. PICK in : in = d.in
      OBVIOUS
    <2>2. PICK row \in Nat : row = d.row
      BY <1>1
    <2>3. Fresh(row, raw) /\ in = SegmentBytes(row, raw, n) /\ WellFormedSegment(raw, n)
      BY <2>1, <2>2
    <2>4. /\ Len(in) = 1 + Len(raw) /\ in[1] = RunCode(raw, n)
          /\ \A i \in 1 .. Len(raw) : (IF row = 0 THEN in[1 + i] ELSE Delta(in[1 + i])) = raw[i]
          /\ After(1 + Len(raw), in) = <<>>
      BY <2>3, SegmentRead
    <2> QED
      BY <2>1, <2>2, <2>4
  <1>4. collen = Len(raw) /\ replen = n
    BY <1>3, RunCodeIs
  <1> HIDE DEF code, swapped, long, collen, replen, L
  <1>5. colours = raw
    <2>1. colours = [i \in 1 .. Len(raw) |-> raw[i]]
      BY <1>3, <1>4
    <2>2. PICK L0 \in Nat : L0 = Len(raw)
      BY <1>2
    <2>3. raw \in [1 .. L0 -> Int]
      BY <1>2, <2>2
    <2>4. raw = [i \in 1 .. L0 |-> raw[i]]
      BY <2>3
    <2> QED
      BY <2>1, <2>2, <2>4, Zenon
  <1> HIDE DEF colours
  <1>6. colour = IF raw = <<>> THEN d.colour ELSE raw[Len(raw)]
    <2>1. Len(raw) = 0 <=> raw = <<>>
      BY <1>2
    <2> QED
      BY <1>4, <1>5, <2>1
  <1> HIDE DEF colour
  <1>7. run = Run(raw, n, d.colour)
    BY <1>4, <1>5, <1>6 DEF Run
  <1>8. DOMAIN run = 1 .. L /\ Len(run) = L
    BY <1>1, <1>7, RunIs DEF L
  <1> HIDE DEF run
  <1>9. start + L + (IF d.row = 0 THEN 0 ELSE w) <= w * h
    <2>1. L \in 0 .. (w - d.indexw)
      <3>1. L \in 1 .. (w - d.indexw)
        BY DEF L
      <3> QED
        BY <1>1, <3>1
    <2>2. PICK row \in 0 .. (h - 1), indexw \in 0 .. (w - 1) : row = d.row /\ indexw = d.indexw
      BY <1>1
    <2>3. (h - row - 1) * w + indexw + L + (IF row = 0 THEN 0 ELSE w) <= w * h
      BY <2>1, <2>2, RunInside
    <2> QED
      BY <2>2, <2>3
  <1>10. start \in Int /\ w * h \in Nat
    <2>1. PICK row \in 0 .. (h - 1), indexw \in 0 .. (w - 1) : row = d.row /\ indexw = d.indexw
      BY <1>1
    <2>2. \A a, c, e \in Int : a * c \in Int /\ a * c + e \in Int
      OBVIOUS
    <2>3. h - row - 1 \in Int /\ w \in Int /\ indexw \in Int
      OBVIOUS
    <2>4. (h - row - 1) * w + indexw \in Int
      BY <2>2, <2>3, Zenon
    <2>5. \A a, c \in Nat : a * c \in Nat
      OBVIOUS
    <2>6. w * h \in Nat
      BY <2>5
    <2> QED
      BY <2>1, <2>4, <2>6
  <1> HIDE DEF start
  <1>11. ~(start + Len(run) + (IF d.row = 0 THEN 0 ELSE w) > w * h)
    BY <1>2, <1>8, <1>9, <1>10
  <1>12. ~(Len(d.in) < 1 + collen)
    BY <1>2, <1>3, <1>4
  <1>13. full <=> L = w - d.indexw
    <2>1. \A a, c, l \in Int : l \in 1 .. (a - c) => (c + l >= a <=> l = a - c)
      OBVIOUS
    <2>2. L \in 1 .. (w - d.indexw) /\ L \in Int /\ w \in Int /\ d.indexw \in Int
      <3>1. L \in 1 .. (w - d.indexw)
        BY DEF L
      <3> QED
        BY <1>1, <1>2, <3>1
    <2>3. d.indexw + L >= w <=> L = w - d.indexw
      BY <2>1, <2>2
    <2> QED
      BY <1>8, <2>3
  <1> HIDE DEF full
  <1>14. Segment(d, w, h) = [d EXCEPT
                !.in     = After(1 + collen, d.in),
                !.out[d.plane] = [i \in DOMAIN d.out[d.plane] |->
                                    IF i - start \in DOMAIN run THEN drawn[i - start] ELSE d.out[d.plane][i]],
                !.indexw = IF full THEN 0 ELSE d.indexw + Len(run),
                !.colour = IF full THEN 0 ELSE colour,
                !.row    = IF last THEN 0 ELSE IF full THEN d.row + 1 ELSE d.row,
                !.plane  = IF last THEN d.plane + 1 ELSE d.plane,
                !.result = IF last /\ d.plane = 4 THEN "done" ELSE d.result]
    BY <1>11, <1>12 DEF Segment, code, swapped, long, collen, replen, colours, colour, run, start, full
  <1>15. [i \in DOMAIN d.out[d.plane] |-> IF i - start \in DOMAIN run THEN drawn[i - start] ELSE d.out[d.plane][i]]
         = [i \in 1 .. (w * h) |->
                  IF i - start \in 1 .. L
                  THEN (run[i - start] + (IF d.row = 0 THEN 0 ELSE d.out[d.plane][i + w])) % 256
                  ELSE d.out[d.plane][i]]
    <2>1. DOMAIN d.out[d.plane] = 1 .. (w * h)
      BY <1>1
    <2>2. \A i \in 1 .. (w * h) : start + (i - start) + w = i + w
      BY <1>10
    <2> QED
      BY <1>8, <2>1, <2>2
  <1> DEFINE new == [i \in 1 .. (w * h) |->
                       IF i - start \in 1 .. L
                       THEN (run[i - start] + (IF d.row = 0 THEN 0 ELSE d.out[d.plane][i + w])) % 256
                       ELSE d.out[d.plane][i]]
             full0 == L = w - d.indexw
  <1>16. Segment(d, w, h) = [d EXCEPT
                !.in     = <<>>,
                !.out[d.plane] = new,
                !.indexw = IF full THEN 0 ELSE d.indexw + L,
                !.colour = IF full THEN 0 ELSE colour,
                !.row    = IF last THEN 0 ELSE IF full THEN d.row + 1 ELSE d.row,
                !.plane  = IF last THEN d.plane + 1 ELSE d.plane,
                !.result = IF last /\ d.plane = 4 THEN "done" ELSE d.result]
    <2>1. After(1 + collen, d.in) = <<>>
      BY <1>3, <1>4
    <2> HIDE DEF last, new
    <2>2. [i \in DOMAIN d.out[d.plane] |-> IF i - start \in DOMAIN run THEN drawn[i - start] ELSE d.out[d.plane][i]] = new
      BY <1>15, Zenon DEF new
    <2> QED
      BY <1>8, <1>14, <2>1, <2>2, Zenon
  <1>17. full = full0
    BY <1>13
  <1> QED
    BY <1>6, <1>7, <1>16, <1>17, Zenon DEF Reads, L, start

\* The decoder is one segment on,
Moved(e, d, w, h, L) ==
    /\ d.plane \in 1 .. 4 /\ d.row \in 0 .. (h - 1) /\ d.indexw \in 0 .. (w - 1) /\ L \in 1 .. (w - d.indexw)
    /\ e.indexw = IF L = w - d.indexw THEN 0 ELSE d.indexw + L
    /\ e.row = IF L = w - d.indexw /\ d.row + 1 = h THEN 0 ELSE IF L = w - d.indexw THEN d.row + 1 ELSE d.row
    /\ e.plane = IF L = w - d.indexw /\ d.row + 1 = h THEN d.plane + 1 ELSE d.plane
\* and as much more is drawn.
Grows(e, d, w, h, L, q) ==
    DrawnOf(e, w, h, q) = IF q = d.plane THEN d.row * w + d.indexw + L ELSE DrawnOf(d, w, h, q)
\* How much of a plane is drawn grows with a segment.
LEMMA DrawnGrows ==
    ASSUME NEW w \in Nat \ {0}, NEW h \in Nat \ {0}, NEW d, NEW e, NEW L, Moved(e, d, w, h, L), NEW q \in 1 .. 4
    PROVE  Grows(e, d, w, h, L, q)
  <1> SUFFICES DrawnOf(e, w, h, q) = IF q = d.plane THEN d.row * w + d.indexw + L ELSE DrawnOf(d, w, h, q)
    BY DEF Grows
  <1> /\ d.plane \in 1 .. 4 /\ d.row \in 0 .. (h - 1) /\ d.indexw \in 0 .. (w - 1) /\ L \in 1 .. (w - d.indexw)
      /\ e.indexw = IF L = w - d.indexw THEN 0 ELSE d.indexw + L
      /\ e.row = IF L = w - d.indexw /\ d.row + 1 = h THEN 0 ELSE IF L = w - d.indexw THEN d.row + 1 ELSE d.row
      /\ e.plane = IF L = w - d.indexw /\ d.row + 1 = h THEN d.plane + 1 ELSE d.plane
    BY DEF Moved
  <1>1. PICK y \in Nat : y = d.row * w
    <2>1. \A a, c \in Nat : a * c \in Nat
      OBVIOUS
    <2>2. d.row \in Nat /\ w \in Nat
      OBVIOUS
    <2> QED
      BY <2>1, <2>2
  <1>2. (d.row + 1) * w = y + w
    BY <1>1
  <1>3. 0 * w = 0
    OBVIOUS
  <1>4. q = d.plane => ~(q < d.plane)
    OBVIOUS
  <1>5. CASE L # w - d.indexw
    <2>1. e.indexw = d.indexw + L /\ e.row = d.row /\ e.plane = d.plane
      BY <1>5
    <2>2. e.row * w + e.indexw = y + (d.indexw + L)
      BY <1>1, <2>1
    <2>3. y + (d.indexw + L) = y + d.indexw + L
      BY <1>1
    <2> QED
      BY <1>1, <1>4, <2>1, <2>2, <2>3, Zenon DEF DrawnOf
  <1>6. CASE L = w - d.indexw /\ d.row + 1 # h
    <2>1. e.indexw = 0 /\ e.row = d.row + 1 /\ e.plane = d.plane
      BY <1>6
    <2>2. e.row * w + e.indexw = (y + w) + 0
      BY <1>2, <2>1
    <2>3. (y + w) + 0 = y + d.indexw + L
      BY <1>1, <1>6
    <2> QED
      BY <1>1, <1>4, <2>1, <2>2, <2>3, Zenon DEF DrawnOf
  <1>7. CASE L = w - d.indexw /\ d.row + 1 = h
    <2>1. e.indexw = 0 /\ e.row = 0 /\ e.plane = d.plane + 1
      BY <1>7
    <2>2. w * h = y + d.indexw + L
      <3>1. w * h = (d.row + 1) * w
        BY <1>7
      <3>2. y + w = y + d.indexw + L
        BY <1>1, <1>7
      <3> QED
        BY <1>2, <3>1, <3>2
    <2>3. e.row * w + e.indexw = 0
      BY <1>3, <2>1
    <2>4. CASE q = d.plane
      <3>1. q < e.plane
        BY <2>1, <2>4
      <3> QED
        BY <1>1, <2>2, <2>4, <3>1, Zenon DEF DrawnOf
    <2>5. CASE q # d.plane
      <3>1. q < d.plane => q < e.plane
        BY <2>1
      <3>2. ~(q < d.plane) => ~(q < e.plane)
        BY <2>1, <2>5
      <3> QED
        BY <2>3, <2>5, <3>1, <3>2, Zenon DEF DrawnOf
    <2> QED
      BY <2>4, <2>5
  <1> QED
    BY <1>5, <1>6, <1>7

\* The start of a bitmap of planes,
LEMMA StartPlanesFollows ==
    ASSUME NEW b \in Bitmaps
    PROVE  Following32(b, StartPlanes(b.w, b.h, TRUE), [planes |-> <<<<>>, <<>>, <<>>, <<>>>>, last |-> 0])
  <1> DEFINE d == StartPlanes(b.w, b.h, TRUE)
             planes == <<<<>>, <<>>, <<>>, <<>>>>
             p == [planes |-> planes, last |-> 0]
  <1>1. b.w \in Nat \ {0} /\ b.h \in Nat \ {0}
    BY WindowAssumption DEF IsBitmap
  <1>2. \A q \in 1 .. 4 : planes[q] = <<>>
    OBVIOUS
  <1>3. planes \in [1 .. 4 -> Seq(Byte)]
    <2>1. <<>> \in Seq(Byte)
      OBVIOUS
    <2>2. DOMAIN planes = 1 .. 4 /\ planes = [q \in 1 .. 4 |-> planes[q]]
      OBVIOUS
    <2> QED
      BY <1>2, <2>1, <2>2
  <1> HIDE DEF planes
  <1>4. p \in Planes
    BY <1>3 DEF Planes
  <1>5. d \in Decoder32(b.w, b.h)
    <2>1. Blank(b.w * b.h) \in [1 .. (b.w * b.h) -> Byte]
      <3>1. 0 \in Byte
        BY DEF Byte
      <3> QED
        BY <3>1 DEF Blank
    <2>2. 0 \in 0 .. (b.h - 1) /\ 0 \in 0 .. (b.w - 1)
      BY <1>1
    <2> QED
      BY <2>1, <2>2 DEF StartPlanes, Decoder32
  <1>6. d.in = <<>> /\ d.result = "more" /\ d.plane = 1 /\ d.row = 0 /\ d.indexw = 0 /\ d.colour = 0
    BY DEF StartPlanes
  <1> HIDE DEF d
  <1>7. \A q \in 1 .. 4 : DrawnOf(d, b.w, b.h, q) = 0
    <2>1. 0 * b.w + 0 = 0
      BY <1>1
    <2>2. \A q \in 1 .. 4 : ~(q < 1)
      OBVIOUS
    <2> QED
      BY <1>6, <2>1, <2>2, Zenon DEF DrawnOf
  <1>8. \A q \in 1 .. 4 : Len(p.planes[q]) = 0
    BY <1>2
  <1>9. FaithfulPlanes(d, p, b.w, b.h)
    <2>1. 1 .. 0 = {}
      OBVIOUS
    <2> QED
      BY <1>7, <2>1 DEF FaithfulPlanes
  <1>10. d.colour = p.last
    BY <1>6
  <1> HIDE DEF p
  <1>11. Following32(b, d, p)
    BY <1>4, <1>5, <1>6, <1>7, <1>8, <1>9, <1>10 DEF Following32
  <1> QED
    BY <1>11, Zenon DEF d, p, planes

\* one more segment,
LEMMA SegmentSent ==
    ASSUME NEW b \in Bitmaps, NEW d, NEW p, Following32(b, d, p), d.result = "more", d.in = <<>>,
           NEW raw, NEW n, <<raw, n>> \in Segments,
           Len(raw) + n \in 1 .. (b.w - d.indexw), Fresh(d.row, raw)
    PROVE  Following32(b, [d EXCEPT !.in = SegmentBytes(d.row, raw, n)],
                       [planes |-> [p.planes EXCEPT ![d.plane] = PaintedPlane(p.planes[d.plane], raw, n, p.last, b.w)],
                        last   |-> IF Len(raw) + n = b.w - d.indexw THEN 0
                                   ELSE IF raw = <<>> THEN p.last ELSE raw[Len(raw)]])
  <1> DEFINE w == b.w
             h == b.h
             N == d.row * w + d.indexw
             L == Len(raw) + n
             pixels == p.planes[d.plane]
             new == PaintedPlane(pixels, raw, n, p.last, w)
             run == Run(raw, n, p.last)
             last == IF L = w - d.indexw THEN 0 ELSE IF raw = <<>> THEN p.last ELSE raw[Len(raw)]
             e == [d EXCEPT !.in = SegmentBytes(d.row, raw, n)]
             q == [planes |-> [p.planes EXCEPT ![d.plane] = new], last |-> last]
  <1>1. w \in Nat \ {0} /\ h \in Nat \ {0} /\ WellFormedSegment(raw, n)
    <2>1. WellFormedSegment(<<raw, n>>[1], <<raw, n>>[2])
      BY WindowAssumption, Zenon
    <2> QED
      BY <2>1, WindowAssumption DEF IsBitmap
  <1>2. /\ d \in Decoder32(w, h) /\ p \in Planes /\ FaithfulPlanes(d, p, w, h)
        /\ \A c \in 1 .. 4 : c # d.plane => Len(p.planes[c]) = DrawnOf(d, w, h, c)
        /\ d.plane # 5
    BY DEF Following32
  <1>3. /\ d.plane \in 1 .. 4 /\ d.row \in 0 .. (h - 1) /\ d.row \in Nat /\ d.indexw \in 0 .. (w - 1)
        /\ d.result # "done" /\ d.result # "drawn"
    BY <1>2 DEF Decoder32
  <1>4. SegmentBytes(d.row, raw, n) \in Seq(Byte) /\ SegmentBytes(d.row, raw, n) # <<>>
    <2>1. PICK row \in Nat : row = d.row
      BY <1>3
    <2>2. Fresh(row, raw)
      BY <2>1
    <2>3. PICK in : in = SegmentBytes(row, raw, n)
      OBVIOUS
    <2>4. in \in Seq(Byte) /\ in # <<>>
      BY <1>1, <2>2, <2>3, SegmentRead
    <2> QED
      BY <2>1, <2>3, <2>4
  <1>5. d.colour = p.last /\ Len(pixels) = DrawnOf(d, w, h, d.plane)
    <2>1. ASSUME NEW c \in Segments, Unread(d, p, w, c[1], c[2]) PROVE FALSE
      <3>1. WellFormedSegment(c[1], c[2])
        BY WindowAssumption
      <3>2. d.in = SegmentBytes(d.row, c[1], c[2]) /\ Fresh(d.row, c[1])
        BY <2>1 DEF Unread
      <3>3. PICK row \in Nat : row = d.row
        BY <1>3
      <3>4. Fresh(row, c[1]) /\ d.in = SegmentBytes(row, c[1], c[2])
        BY <3>2, <3>3
      <3>5. PICK in : in = d.in
        OBVIOUS
      <3>6. in = SegmentBytes(row, c[1], c[2])
        BY <3>4, <3>5
      <3>7. in # <<>>
        BY <3>1, <3>4, <3>6, SegmentRead
      <3> QED
        BY <3>5, <3>7
    <2>2. d.plane < 5
      BY <1>3
    <2> QED
      BY <2>1, <2>2 DEF Following32
  <1>6. DrawnOf(d, w, h, d.plane) = N
    <2>1. ~(d.plane < d.plane)
      BY <1>3
    <2> QED
      BY <2>1 DEF DrawnOf
  <1>7. /\ p.planes \in [1 .. 4 -> Seq(Byte)] /\ p.last \in Int /\ pixels \in Seq(Byte)
        /\ p = [planes |-> p.planes, last |-> p.last]
    BY <1>2, <1>3 DEF Planes
  <1>8. Len(pixels) = N
    BY <1>5, <1>6
  <1>9. L \in 1 .. (w - d.indexw) /\ L \in Nat /\ L <= w
    <2>1. \A l, a, c \in Int : c \in 0 .. (a - 1) /\ l \in 1 .. (a - c) => l <= a /\ l \in Nat
      OBVIOUS
    <2>2. L \in 1 .. (w - d.indexw)
      OBVIOUS
    <2>3. L \in Int /\ w \in Int /\ d.indexw \in Int
      BY <1>1, <1>3, <2>2
    <2> HIDE DEF L
    <2> QED
      BY <1>3, <2>1, <2>2, <2>3
  <1>10. run \in Seq(Int) /\ Len(run) = L /\ DOMAIN run = 1 .. L
    <2>1. p.last \in Int
      BY <1>7
    <2> QED
      BY <1>1, <2>1, RunIs
  <1> HIDE DEF w, h, N, new, run, last, pixels
  <1>11. /\ new \in Seq(Byte) /\ Len(new) = N + Len(raw) + n
         /\ \A i \in 1 .. N : new[i] = pixels[i]
         /\ \A i \in 1 .. L : new[N + i] = (run[i] + (IF N + i <= w THEN 0 ELSE new[N + i - w])) % 256
    <2>1. PICK v \in Int : v = p.last
      BY <1>7
    <2>2. L <= w
      BY <1>9
    <2> DEFINE P == PaintedPlane(pixels, raw, n, v, w)
               R == Run(raw, n, v)
               M == Len(pixels)
    <2>3. new = P /\ run = R /\ M = N
      BY <1>8, <2>1 DEF new, run
    <2>4. /\ P \in Seq(Byte) /\ Len(P) = M + Len(raw) + n
          /\ \A i \in 1 .. M : P[i] = pixels[i]
          /\ \A i \in 1 .. (Len(raw) + n) : P[M + i] = (R[i] + (IF M + i <= w THEN 0 ELSE P[M + i - w])) % 256
      <3>1. Len(raw) + n <= w
        BY <2>2
      <3>2. pixels \in Seq(Byte) /\ w \in Nat \ {0}
        BY <1>1, <1>7
      <3> HIDE DEF L
      <3>3. WellFormedSegment(raw, n)
        BY <1>1
      <3>4. P \in Seq(Byte)
        BY <3>1, <3>2, <3>3, PlaneGrows
      <3>5. Len(P) = M + Len(raw) + n
        BY <3>1, <3>2, <3>3, PlaneGrows
      <3>6. \A i \in 1 .. M : P[i] = pixels[i]
        BY <3>1, <3>2, <3>3, PlaneGrows
      <3>7. \A i \in 1 .. (Len(raw) + n) : P[M + i] = (R[i] + (IF M + i <= w THEN 0 ELSE P[M + i - w])) % 256
        BY <3>1, <3>2, <3>3, PlaneGrows
      <3> QED
        BY <3>4, <3>5, <3>6, <3>7
    <2> HIDE DEF P, R, M
    <2> QED
      BY <2>3, <2>4 DEF L
  <1> HIDE DEF L
  <1>12. last \in Int
    <2>1. raw \in Seq(Int) /\ DOMAIN raw = 1 .. Len(raw) /\ Len(raw) \in Nat
      BY <1>1, SegmentForm
    <2>2. raw # <<>> => Len(raw) \in 1 .. Len(raw)
      BY <2>1
    <2>3. raw # <<>> => raw[Len(raw)] \in Int
      BY <2>1, <2>2
    <2> QED
      BY <1>7, <2>3 DEF last
  <1>13. q = [planes |-> [p.planes EXCEPT ![d.plane] = new], last |-> last]
    OBVIOUS
  <1>14. /\ e.in = SegmentBytes(d.row, raw, n) /\ e.out = d.out /\ e.result = d.result /\ e.plane = d.plane
         /\ e.row = d.row /\ e.indexw = d.indexw /\ e.colour = d.colour /\ e \in Decoder32(w, h)
    BY <1>2, <1>4 DEF Decoder32
  <1> HIDE DEF q, e
  <1>15. /\ q.last = last /\ q.planes[d.plane] = new
         /\ \A c \in 1 .. 4 : c # d.plane => q.planes[c] = p.planes[c]
    BY <1>3, <1>7, <1>13
  <1>16. q \in Planes
    <2>1. [p.planes EXCEPT ![d.plane] = new] \in [1 .. 4 -> Seq(Byte)]
      BY <1>3, <1>7, <1>11
    <2> QED
      BY <1>12, <1>13, <2>1 DEF Planes
  <1>17. \A c \in 1 .. 4 : DrawnOf(e, w, h, c) = DrawnOf(d, w, h, c)
    BY <1>14 DEF DrawnOf
  <1>18. FaithfulPlanes(e, q, w, h)
    <2> SUFFICES ASSUME NEW c \in 1 .. 4, NEW m \in 1 .. DrawnOf(d, w, h, c)
                 PROVE  d.out[c][Place(w, h, m)] = q.planes[c][m]
      BY <1>14, <1>17 DEF FaithfulPlanes
    <2>1. d.out[c][Place(w, h, m)] = p.planes[c][m]
      BY <1>2 DEF FaithfulPlanes
    <2>2. c = d.plane => m \in 1 .. N
      BY <1>6
    <2>3. c = d.plane => new[m] = pixels[m]
      BY <1>11, <2>2
    <2> QED
      BY <1>15, <2>1, <2>3 DEF pixels
  <1>19. Unread(e, q, w, raw, n)
    <2>1. e.in = SegmentBytes(e.row, raw, n) /\ Fresh(e.row, raw)
      BY <1>14
    <2>2. Len(raw) + n \in 1 .. (w - e.indexw)
      BY <1>9, <1>14 DEF L
    <2>3. q.planes[e.plane] = new /\ e.row * w + e.indexw = N /\ Run(raw, n, e.colour) = run
      BY <1>5, <1>14, <1>15 DEF N, run
    <2>4. q.last = IF Len(raw) + n = w - e.indexw THEN 0 ELSE IF raw = <<>> THEN e.colour ELSE raw[Len(raw)]
      BY <1>5, <1>14, <1>15 DEF last, L
    <2>5. Len(new) = N + Len(raw) + n
      BY <1>11
    <2>6. \A i \in DOMAIN run : new[N + i] = (run[i] + (IF N + i <= w THEN 0 ELSE new[N + i - w])) % 256
      BY <1>10, <1>11
    <2> QED
      BY <2>1, <2>2, <2>3, <2>4, <2>5, <2>6 DEF Unread
  <1>20. \A c \in 1 .. 4 : c # e.plane => Len(q.planes[c]) = DrawnOf(e, w, h, c)
    BY <1>2, <1>14, <1>15, <1>17
  <1>21. e.plane < 5 /\ e.plane # 5 /\ e.result # "done" /\ e.result # "drawn"
    BY <1>3, <1>14
  <1>22. Following32(b, e, q)
    <2>1. PICK s \in Segments : s = <<raw, n>>
      OBVIOUS
    <2>2. s[1] = raw /\ s[2] = n
      BY <2>1
    <2>3. Unread(e, q, b.w, s[1], s[2])
      BY <1>19, <2>2 DEF w
    <2> QED
      BY <1>14, <1>16, <1>18, <1>20, <1>21, <2>3 DEF Following32, w, h
  <1> QED
    BY <1>22 DEF e, q, new, last, pixels, L, w

\* the pixels of a segment are not the ones before it,
LEMMA RunOnly ==
    ASSUME NEW w \in Nat \ {0}, NEW h \in Nat \ {0}, NEW row \in 0 .. (h - 1), NEW indexw \in 0 .. (w - 1),
           NEW L \in 1 .. (w - indexw), NEW m \in 1 .. (row * w + indexw)
    PROVE  m \in 1 .. (w * h) /\ Place(w, h, m) - ((h - row - 1) * w + indexw) \notin 1 .. L
  <1> DEFINE N == row * w + indexw
             start == (h - row - 1) * w + indexw
  <1>1. N \in 0 .. (w * h - 1)
    BY InRange
  <1>2. w * h \in Nat
    <2>1. \A a, c \in Nat : a * c \in Nat
      OBVIOUS
    <2> QED
      BY <2>1
  <1>3. start \in Int
    <2>1. \A a, c, e \in Int : a * c + e \in Int
      OBVIOUS
    <2>2. h - row - 1 \in Int /\ w \in Int /\ indexw \in Int
      OBVIOUS
    <2> QED
      BY <2>1, <2>2, Zenon
  <1>4. m \in 1 .. N
    OBVIOUS
  <1> HIDE DEF N, start
  <1>5. m \in 1 .. (w * h)
    BY <1>1, <1>2, <1>4
  <1>6. ASSUME Place(w, h, m) - start \in 1 .. L PROVE FALSE
    <2>1. PICK j \in 1 .. L : Place(w, h, m) - start = j
      BY <1>6
    <2>2. j \in 1 .. (w - indexw)
      OBVIOUS
    <2>3. Place(w, h, m) \in 1 .. (w * h)
      BY <1>5, PlaceIs
    <2>4. Place(w, h, m) = start + j
      BY <1>2, <1>3, <2>1, <2>3
    <2>5. N + j \in 1 .. (w * h) /\ Place(w, h, N + j) = start + j
      <3>1. OfRun(w, h, row, indexw, j)
        BY <2>2, RunPlaced
      <3> QED
        BY <3>1, Zenon DEF OfRun, N, start, Behind
    <2>6. m = N + j
      <3>1. PICK k \in 1 .. (w * h) : k = N + j
        BY <2>5
      <3>2. Place(w, h, m) = Place(w, h, k)
        BY <2>4, <2>5, <3>1
      <3>3. m = k
        BY <1>5, <3>2, PlaceOnce
      <3> QED
        BY <3>1, <3>3
    <2> QED
      BY <1>1, <1>2, <1>4, <2>6
  <1> QED
    BY <1>5, <1>6 DEF start

\* and the segment as a whole.
LEMMA SegmentFollows ==
    ASSUME NEW b \in Bitmaps, NEW d, NEW p, Following32(b, d, p), d.result = "more", d.in # <<>>
    PROVE  Following32(b, Segment(d, b.w, b.h), p) /\ Segment(d, b.w, b.h).result # "drawn"
  <1> DEFINE w == b.w
             h == b.h
             e == Segment(d, w, h)
             N == d.row * w + d.indexw
             start == (h - d.row - 1) * w + d.indexw
             pixels == p.planes[d.plane]
             size == w * h
  <1>1. w \in Nat \ {0} /\ h \in Nat \ {0}
    BY WindowAssumption DEF IsBitmap
  <1>2. /\ d \in Decoder32(w, h) /\ p \in Planes /\ FaithfulPlanes(d, p, w, h)
        /\ \A q \in 1 .. 4 : q # d.plane => Len(p.planes[q]) = DrawnOf(d, w, h, q)
    BY DEF Following32
  <1>3. PICK s \in Segments : d.plane < 5 /\ Unread(d, p, w, s[1], s[2])
    BY DEF Following32
  <1> DEFINE raw == s[1]
             n == s[2]
             L == Len(raw) + n
             run == Run(raw, n, d.colour)
             full == L = w - d.indexw
             last == full /\ d.row + 1 = h
  <1>4. WellFormedSegment(raw, n)
    BY WindowAssumption
  <1>5. /\ d.plane \in 1 .. 4 /\ d.row \in 0 .. (h - 1) /\ d.row \in Nat /\ d.indexw \in 0 .. (w - 1) /\ d.colour \in Int
        /\ d.out \in [1 .. 4 -> [1 .. (w * h) -> Byte]]
    BY <1>2, <1>3 DEF Decoder32
  <1>6. /\ d.in = SegmentBytes(d.row, raw, n) /\ Fresh(d.row, raw)
        /\ Len(raw) + n \in 1 .. (w - d.indexw) /\ L \in 1 .. (w - d.indexw)
        /\ Len(pixels) = N + Len(raw) + n
        /\ \A i \in DOMAIN run : pixels[N + i] = (run[i] + (IF N + i <= w THEN 0 ELSE pixels[N + i - w])) % 256
        /\ p.last = IF full THEN 0 ELSE IF raw = <<>> THEN d.colour ELSE raw[Len(raw)]
    BY <1>3 DEF Unread
  <1>7. Reads(e, d, w, h, raw, n)
    BY <1>1, <1>2, <1>3, <1>4, <1>6, SegmentIs
  <1>8. run \in Seq(Int) /\ DOMAIN run = 1 .. L
    BY <1>4, <1>5, RunIs
  <1> HIDE DEF w, h, e, N, start, pixels, run, raw, n, size
  <1>9. L \in Nat /\ L <= w /\ d.indexw + L <= w
    <2>1. \A l, a, c \in Int : c \in 0 .. (a - 1) /\ l \in 1 .. (a - c) => l <= a /\ l \in Nat /\ c + l <= a
      OBVIOUS
    <2>2. L \in Int /\ w \in Int /\ d.indexw \in Int
      BY <1>1, <1>5, <1>6
    <2> HIDE DEF L
    <2> QED
      BY <1>5, <1>6, <2>1, <2>2
  <1>10. Len(pixels) = N + L
    <2>1. Len(raw) \in Nat /\ n \in Nat
      BY <1>4, SegmentForm
    <2>2. N \in Int
      <3>1. \A a, c, g \in Int : a * c + g \in Int
        OBVIOUS
      <3>2. d.row \in Int /\ w \in Int /\ d.indexw \in Int
        BY <1>1, <1>5
      <3> QED
        BY <3>1, <3>2, Zenon DEF N
    <2>3. \A a, c, g \in Int : a + c + g = a + (c + g)
      OBVIOUS
    <2>4. Len(raw) \in Int /\ n \in Int
      BY <2>1
    <2> QED
      BY <1>6, <2>2, <2>3, <2>4, Zenon
  <1> DEFINE drawn == [i \in 1 .. size |->
                         IF i - start \in 1 .. L
                         THEN (run[i - start] + (IF d.row = 0 THEN 0 ELSE d.out[d.plane][i + w])) % 256
                         ELSE d.out[d.plane][i]]
             indexw == IF full THEN 0 ELSE d.indexw + L
             colour == IF full THEN 0 ELSE IF raw = <<>> THEN d.colour ELSE raw[Len(raw)]
             row == IF last THEN 0 ELSE IF full THEN d.row + 1 ELSE d.row
             plane == IF last THEN d.plane + 1 ELSE d.plane
             result == IF last /\ d.plane = 4 THEN "done" ELSE d.result
             out == [d.out EXCEPT ![d.plane] = drawn]
  <1>11. e = [d EXCEPT !.in = <<>>, !.out[d.plane] = drawn, !.indexw = indexw, !.colour = colour, !.row = row,
                       !.plane = plane, !.result = result]
    BY <1>7 DEF Reads, run, start, size
  <1> HIDE DEF drawn, indexw, colour, row, plane, result, out, L
  <1>12. e = [in |-> <<>>, out |-> out, result |-> result, plane |-> plane, row |-> row, indexw |-> indexw, colour |-> colour]
    BY <1>2, <1>11 DEF Decoder32, out
  <1>13. /\ e.in = <<>> /\ e.out = out /\ e.result = result /\ e.plane = plane /\ e.row = row /\ e.indexw = indexw
         /\ e.colour = colour
    BY <1>12
  <1>14. ASSUME NEW j \in 1 .. L
         PROVE  /\ N + j \in 1 .. size /\ Place(w, h, N + j) = start + j /\ (N + j <= w <=> d.row = 0) /\ N \in Nat
                /\ j \in 1 .. w
    <2>1. PICK r \in 0 .. (h - 1), c \in 0 .. (w - 1) : r = d.row /\ c = d.indexw
      BY <1>5
    <2>2. j \in 1 .. (w - c) /\ j \in 1 .. w
      <3>1. \A l, a, g \in Int : l \in 1 .. (a - g) /\ j \in 1 .. l => j \in 1 .. (a - g)
        OBVIOUS
      <3>2. \A l \in Int : l <= w /\ j \in 1 .. l => j \in 1 .. w
        BY <1>1
      <3>3. L \in Int /\ w \in Int /\ c \in Int
        BY <1>1, <1>9
      <3> QED
        BY <1>6, <1>9, <2>1, <3>1, <3>2, <3>3, Zenon
    <2>3. w \in Nat \ {0} /\ h \in Nat \ {0} /\ j \in 1 .. (w - c)
      BY <1>1, <2>2
    <2>4. OfRun(w, h, r, c, j)
      BY <2>3, RunPlaced
    <2> QED
      BY <2>1, <2>2, <2>4, Zenon DEF OfRun, N, size, start, Behind
  <1>15. ASSUME NEW m \in 1 .. N PROVE m \in 1 .. size /\ Place(w, h, m) - start \notin 1 .. L
    <2>1. PICK r \in 0 .. (h - 1), c \in 0 .. (w - 1) : r = d.row /\ c = d.indexw
      BY <1>5
    <2>2. PICK l \in 1 .. (w - c) : l = L
      BY <1>6, <2>1
    <2>3. m \in 1 .. (r * w + c)
      BY <2>1 DEF N
    <2>4. m \in 1 .. (w * h) /\ Place(w, h, m) - ((h - r - 1) * w + c) \notin 1 .. l
      BY <1>1, <2>3, RunOnly, Zenon
    <2> QED
      BY <2>1, <2>2, <2>4, Zenon DEF size, start
  <1>16. DrawnOf(d, w, h, d.plane) = N
    <2>1. ~(d.plane < d.plane)
      BY <1>5
    <2> QED
      BY <2>1, Zenon DEF DrawnOf, N
  <1> DEFINE old == d.out[d.plane]
  <1>17. old \in [1 .. size -> Byte]
    BY <1>5 DEF size
  <1> HIDE DEF old
  <1>18. \A m \in 1 .. N : old[Place(w, h, m)] = pixels[m]
    <2>1. \A q \in 1 .. 4 : \A m \in 1 .. DrawnOf(d, w, h, q) : d.out[q][Place(w, h, m)] = p.planes[q][m]
      BY <1>2 DEF FaithfulPlanes
    <2> QED
      BY <1>5, <1>16, <2>1, Zenon DEF pixels, old
  <1>19. ASSUME NEW j \in 1 .. L
         PROVE  start + j \in 1 .. size
                /\ (run[j] + (IF d.row = 0 THEN 0 ELSE old[start + j + w])) % 256 = pixels[N + j]
    <2>1. j \in DOMAIN run
      BY <1>8 DEF L
    <2>2. pixels[N + j] = (run[j] + (IF N + j <= w THEN 0 ELSE pixels[N + j - w])) % 256
      BY <1>6, <2>1
    <2>3. /\ N \in Nat /\ j \in 1 .. w /\ N + j \in 1 .. (w * h) /\ Place(w, h, N + j) = start + j
          /\ (N + j <= w <=> d.row = 0)
      BY <1>14 DEF size
    <2>4. PICK m \in 1 .. (w * h) : m = N + j
      BY <2>3
    <2>5. Place(w, h, m) \in 1 .. (w * h) /\ Place(w, h, m) = start + j
      BY <1>1, <2>3, <2>4, PlaceIs
    <2>6. (IF d.row = 0 THEN 0 ELSE old[start + j + w]) = IF N + j <= w THEN 0 ELSE pixels[N + j - w]
      <3>1. CASE d.row = 0
        BY <2>3, <3>1
      <3>2. CASE d.row # 0
        <4>1. m > w
          BY <1>1, <2>3, <2>4, <3>2
        <4>2. Place(w, h, m - w) = Place(w, h, m) + w
          BY <1>1, <4>1, PlaceBelow
        <4>3. m - w \in 1 .. N
          BY <1>1, <2>3, <2>4, <4>1
        <4>4. old[Place(w, h, m - w)] = pixels[m - w]
          BY <1>18, <4>3
        <4>5. old[start + j + w] = pixels[N + j - w]
          <5>1. Place(w, h, m - w) = start + j + w
            BY <2>5, <4>2
          <5>2. m - w = N + j - w
            BY <1>1, <2>3, <2>4
          <5> QED
            BY <4>4, <5>1, <5>2, Zenon
        <4> QED
          BY <2>3, <3>2, <4>5
      <3> QED
        BY <3>1, <3>2
    <2>7. start + j \in 1 .. size
      BY <2>5, Zenon DEF size
    <2> QED
      BY <2>2, <2>6, <2>7, Zenon
  <1>20. pixels \in Seq(Byte) /\ Len(pixels) = N + L /\ N \in Nat /\ start \in Int /\ size \in Nat
    <2>1. pixels \in Seq(Byte)
      BY <1>2, <1>5 DEF Planes, pixels
    <2>2. \A a, c, g \in Int : a * c + g \in Int
      OBVIOUS
    <2>3. h - d.row - 1 \in Int /\ w \in Int /\ d.indexw \in Int
      BY <1>1, <1>5
    <2>4. start \in Int
      BY <2>2, <2>3, Zenon DEF start
    <2>5. \A a, c \in Nat : a * c \in Nat
      OBVIOUS
    <2>6. \A a, c \in Nat : a + c \in Nat
      OBVIOUS
    <2>7. w \in Nat /\ h \in Nat /\ d.row \in Nat /\ d.indexw \in Nat
      BY <1>1, <1>5
    <2>8. size \in Nat /\ N \in Nat
      BY <2>5, <2>6, <2>7, Zenon DEF N, size
    <2> QED
      BY <1>10, <2>1, <2>4, <2>8
  <1> DEFINE value(i) == IF i - start \in 1 .. L
                         THEN (run[i - start] + (IF d.row = 0 THEN 0 ELSE old[i + w])) % 256
                         ELSE old[i]
  <1>21. drawn = [i \in 1 .. size |-> value(i)]
    BY DEF drawn, old
  <1>22. ASSUME NEW j \in 1 .. L PROVE value(start + j) = pixels[N + j]
    <2>1. PICK i : i = start + j
      OBVIOUS
    <2>2. i - start = j
      <3>1. \A x, y \in Int : (x + y) - x = y
        OBVIOUS
      <3>2. start \in Int /\ j \in Int
        BY <1>9, <1>20
      <3> QED
        BY <2>1, <3>1, <3>2, Zenon
    <2>3. (run[j] + (IF d.row = 0 THEN 0 ELSE old[i + w])) % 256 = pixels[N + j]
      BY <1>19, <2>1
    <2>4. value(i) = (run[j] + (IF d.row = 0 THEN 0 ELSE old[i + w])) % 256
      BY <2>2, Zenon
    <2> HIDE DEF value
    <2> QED
      BY <2>1, <2>3, <2>4
  <1>23. \A j \in 1 .. L : pixels[N + j] \in Byte
    <2>1. \A j \in 1 .. L : N + j \in 1 .. Len(pixels)
      BY <1>9, <1>20
    <2> QED
      BY <1>20, <2>1
  <1>24. \A i \in 1 .. size : value(i) \in Byte
    <2> SUFFICES ASSUME NEW i \in 1 .. size PROVE value(i) \in Byte
      OBVIOUS
    <2>1. CASE i - start \in 1 .. L
      <3>1. PICK j \in 1 .. L : j = i - start
        BY <2>1
      <3>2. start + j = i
        BY <1>9, <1>20, <3>1
      <3>3. value(start + j) \in Byte
        BY <1>22, <1>23, Zenon
      <3> QED
        BY <3>2, <3>3, Zenon
    <2>2. CASE i - start \notin 1 .. L
      <3>1. old[i] \in Byte
        BY <1>17
      <3> QED
        BY <2>2, <3>1, Zenon
    <2> QED
      BY <2>1, <2>2
  <1>25. ASSUME NEW m \in 1 .. (N + L) PROVE drawn[Place(w, h, m)] = pixels[m]
    <2>1. CASE m \in 1 .. N
      <3>1. m \in 1 .. size /\ Place(w, h, m) - start \notin 1 .. L
        BY <1>15, <2>1
      <3>2. Place(w, h, m) \in 1 .. size
        BY <1>1, <3>1, PlaceIs DEF size
      <3>3. drawn[Place(w, h, m)] = value(Place(w, h, m))
        BY <1>21, <3>2
      <3>4. value(Place(w, h, m)) = old[Place(w, h, m)]
        BY <3>1, Zenon
      <3> QED
        BY <1>18, <2>1, <3>3, <3>4
    <2>2. CASE m \notin 1 .. N
      <3>1. m - N \in 1 .. L /\ N + (m - N) = m
        BY <1>9, <1>20, <2>2
      <3>2. PICK j \in 1 .. L : N + j = m
        BY <3>1
      <3>3. Place(w, h, m) = start + j /\ start + j \in 1 .. size
        BY <1>14, <1>19, <3>2
      <3>4. drawn[start + j] = value(start + j)
        BY <1>21, <3>3
      <3>5. value(start + j) = pixels[N + j]
        BY <1>22
      <3> QED
        BY <3>2, <3>3, <3>4, <3>5, Zenon
    <2> QED
      BY <2>1, <2>2
  <1>26. drawn \in [1 .. size -> Byte]
    <2> HIDE DEF value
    <2> QED
      BY <1>21, <1>24
  <1> HIDE DEF value
  <1>27. \A q \in 1 .. 4 : DrawnOf(e, w, h, q) = IF q = d.plane THEN N + L ELSE DrawnOf(d, w, h, q)
    <2> SUFFICES ASSUME NEW q \in 1 .. 4
                 PROVE  DrawnOf(e, w, h, q) = IF q = d.plane THEN N + L ELSE DrawnOf(d, w, h, q)
      OBVIOUS
    <2>1. PICK l \in 1 .. (w - d.indexw) : l = L
      BY <1>6
    <2>2. e.indexw = IF l = w - d.indexw THEN 0 ELSE d.indexw + l
      BY <1>13, <2>1 DEF indexw
    <2>3. e.row = IF l = w - d.indexw /\ d.row + 1 = h THEN 0 ELSE IF l = w - d.indexw THEN d.row + 1 ELSE d.row
      BY <1>13, <2>1 DEF row
    <2>4. e.plane = IF l = w - d.indexw /\ d.row + 1 = h THEN d.plane + 1 ELSE d.plane
      BY <1>13, <2>1 DEF plane
    <2>5. d.plane \in 1 .. 4 /\ d.row \in 0 .. (h - 1) /\ d.indexw \in 0 .. (w - 1)
      BY <1>5
    <2>6. Moved(e, d, w, h, l)
      BY <2>2, <2>3, <2>4, <2>5, Zenon DEF Moved
    <2>7. Grows(e, d, w, h, l, q)
      BY <1>1, <2>6, DrawnGrows
    <2> QED
      BY <2>1, <2>7, Zenon DEF Grows, N
  <1>28. e \in Decoder32(w, h)
    <2>1. out \in [1 .. 4 -> [1 .. (w * h) -> Byte]]
      BY <1>5, <1>26 DEF out, size
    <2>2. indexw \in 0 .. (w - 1)
      <3>1. L # w - d.indexw => d.indexw + L \in 0 .. (w - 1)
        <4>1. \A l, a, c \in Nat : c + l <= a /\ l # a - c => c + l \in 0 .. (a - 1)
          OBVIOUS
        <4>2. w \in Nat /\ d.indexw \in Nat
          BY <1>1, <1>5
        <4> QED
          BY <1>9, <4>1, <4>2, Zenon
      <3>2. 0 \in 0 .. (w - 1)
        BY <1>1
      <3> QED
        BY <3>1, <3>2, Zenon DEF indexw
    <2>3. row \in 0 .. (h - 1)
      <3>1. d.row + 1 # h => d.row + 1 \in 0 .. (h - 1)
        BY <1>1, <1>5
      <3>2. 0 \in 0 .. (h - 1)
        BY <1>1
      <3> QED
        BY <1>5, <3>1, <3>2 DEF row
    <2>4. plane \in 1 .. 5
      BY <1>5 DEF plane
    <2>5. colour \in Int
      <3>1. raw \in Seq(Int) /\ DOMAIN raw = 1 .. Len(raw) /\ Len(raw) \in Nat
        BY <1>4, SegmentForm
      <3>2. raw # <<>> => Len(raw) \in 1 .. Len(raw)
        BY <3>1
      <3>3. raw # <<>> => raw[Len(raw)] \in Int
        BY <3>1, <3>2
      <3> QED
        BY <1>5, <3>3 DEF colour
    <2>6. result \in {"more", "done", "drawn"}
      BY DEF result
    <2>7. <<>> \in Seq(Byte)
      OBVIOUS
    <2> QED
      BY <1>12, <2>1, <2>2, <2>3, <2>4, <2>5, <2>6, <2>7 DEF Decoder32
  <1>29. FaithfulPlanes(e, p, w, h)
    <2> SUFFICES ASSUME NEW q \in 1 .. 4, NEW m \in 1 .. DrawnOf(e, w, h, q)
                 PROVE  e.out[q][Place(w, h, m)] = p.planes[q][m]
      BY DEF FaithfulPlanes
    <2>1. CASE q = d.plane
      <3>1. m \in 1 .. (N + L)
        BY <1>27, <2>1
      <3>2. drawn[Place(w, h, m)] = pixels[m]
        BY <1>25, <3>1
      <3>3. e.out[q] = drawn
        BY <1>5, <1>13, <2>1 DEF out
      <3> QED
        BY <2>1, <3>2, <3>3 DEF pixels
    <2>2. CASE q # d.plane
      <3>1. m \in 1 .. DrawnOf(d, w, h, q)
        BY <1>27, <2>2
      <3>2. d.out[q][Place(w, h, m)] = p.planes[q][m]
        BY <1>2, <3>1 DEF FaithfulPlanes
      <3>3. e.out[q] = d.out[q]
        BY <1>5, <1>13, <2>2 DEF out
      <3> QED
        BY <3>2, <3>3
    <2> QED
      BY <2>1, <2>2
  <1>30. \A q \in 1 .. 4 : Len(p.planes[q]) = DrawnOf(e, w, h, q)
    BY <1>2, <1>20, <1>27 DEF pixels
  <1>31. e.result = "done" <=> e.plane = 5
    BY <1>5, <1>13 DEF result, plane
  <1>32. e.plane = 5 => e.row = 0 /\ e.indexw = 0
    BY <1>5, <1>13 DEF plane, row, indexw
  <1>33. e.result # "drawn"
    BY <1>13 DEF result
  <1>34. e.colour = p.last
    BY <1>6, <1>13 DEF colour, L
  <1>35. e.plane < 5 => e.plane \in 1 .. 4
    BY <1>28 DEF Decoder32
  <1> QED
    BY <1>2, <1>13, <1>28, <1>29, <1>30, <1>31, <1>32, <1>33, <1>34, <1>35 DEF Following32, e, w, h

-----------------------------------------------------------------------------
(***************************************************************************)
(* A bitmap gets to its place in the window, in its colours.               *)
(***************************************************************************)
\* Turning an image upside down twice changes nothing.
LEMMA PlaceTwice ==
    ASSUME NEW w \in Nat \ {0}, NEW h \in Nat \ {0}, NEW n \in 1 .. (w * h)
    PROVE  Place(w, h, n) \in 1 .. (w * h) /\ Place(w, h, Place(w, h, n)) = n
  <1> DEFINE r == (n - 1) \div w
             c == (n - 1) % w
             m == Place(w, h, n)
             s == (m - 1) \div w
             e == (m - 1) % w
  <1>1. r \in 0 .. (h - 1) /\ c \in 0 .. (w - 1) /\ n - 1 = r * w + c
    BY LineOf
  <1>2. m \in 1 .. (w * h) /\ m - 1 = (h - 1 - r) * w + c
    BY PlaceIs
  <1>3. s \in 0 .. (h - 1) /\ e \in 0 .. (w - 1) /\ m - 1 = s * w + e
    BY <1>2, LineOf
  <1>4. Place(w, h, m) \in 1 .. (w * h) /\ Place(w, h, m) - 1 = (h - 1 - s) * w + e
    BY <1>2, PlaceIs
  <1> HIDE DEF r, c, m, s, e
  <1>5. h - 1 - r \in Nat /\ s \in Nat
    BY <1>1, <1>3
  <1>6. h - 1 - r = s /\ c = e
    BY <1>1, <1>2, <1>3, <1>5, Unique
  <1>7. h - 1 - s = r
    BY <1>1, <1>6
  <1>8. Place(w, h, m) - 1 = n - 1
    BY <1>1, <1>4, <1>6, <1>7, Zenon
  <1>9. \A x, y \in Int : x - 1 = y - 1 => x = y
    OBVIOUS
  <1>10. Place(w, h, m) \in Int /\ n \in Int
    BY <1>4
  <1>11. Place(w, h, m) = n
    BY <1>8, <1>9, <1>10, Zenon
  <1> QED
    BY <1>2, <1>11 DEF m

\* A colour of five bits has the nearest value of eight,
LEMMA Five ==
    ASSUME NEW r \in 0 .. 31
    PROVE  (r * 527 + 23) \div 64 = (510 * r + 31) \div 62
  OBVIOUS

\* and so has one of six.
LEMMA Six ==
    ASSUME NEW g \in 0 .. 63
    PROVE  (g * 259 + 33) \div 64 = (510 * g + 63) \div 126
  OBVIOUS

\* Colours are shown as they are.
LEMMA ColourShown ==
    ASSUME NEW v \in Word
    PROVE  Rgb32(v) = Shown16(v)
  <1>1. v \in Nat /\ v <= 256 * 256 - 1
    BY Words
  <1>2. v % 32 \in 0 .. 31 /\ (v \div 32) % 64 \in 0 .. 63
    BY <1>1
  <1>3. v \div 2048 \in 0 .. 31
    BY <1>1
  <1> QED
    BY <1>2, <1>3, Five, Six DEF Rgb32, Shown16, Nearest

\* The lines of a conforming bitmap all fit,
LEMMA RowsFit ==
    ASSUME NEW b, IsBitmap(b), Conforming(b), NEW data, Len(data) = b.w * b.h
    PROVE  FittingRows(b, data) = 0 .. (b.bottom - b.top)
  <1> DEFINE count == b.right - b.left + 1
  <1>1. /\ b.w \in Nat \ {0} /\ b.h \in Nat \ {0} /\ b.left \in Nat /\ b.top \in Nat /\ b.right \in Nat /\ b.bottom \in Nat
        /\ b.left <= b.right /\ b.top <= b.bottom
    BY DEF IsBitmap
  <1>2. b.right < Width /\ b.bottom < Height /\ b.right - b.left < b.w /\ b.bottom - b.top < b.h
    BY DEF Conforming
  <1>3. Width \in Nat \ {0} /\ Height \in Nat \ {0}
    BY WindowAssumption
  <1>4. \A x \in Nat \ {0}, y \in Nat \ {0} : \A r \in 0 .. (y - 1), c \in 0 .. (x - 1) : r * x + c \in 0 .. (x * y - 1)
    BY InRange
  <1>5. \A x, y \in Nat : x * y \in Nat
    OBVIOUS
  <1>6. ASSUME NEW i \in 0 .. (b.bottom - b.top) PROVE Fits(b, data, i)
    <2>1. (i + b.top) * Width + b.left + count <= Width * Height
      <3>1. i + b.top \in 0 .. (Height - 1) /\ b.right \in 0 .. (Width - 1)
        BY <1>1, <1>2, <1>3, SMTT(20)
      <3>2. (i + b.top) * Width + b.right \in 0 .. (Width * Height - 1)
        BY <1>3, <1>4, <3>1
      <3>3. (i + b.top) * Width \in Nat /\ Width * Height \in Nat
        <4>1. i + b.top \in Nat /\ Width \in Nat /\ Height \in Nat
          BY <1>3, <3>1
        <4> QED
          BY <1>5, <4>1, Zenon
      <3>4. \A x, y \in Nat : x + b.right \in 0 .. (y - 1) => x + b.left + count <= y
        BY <1>1
      <3> QED
        BY <3>2, <3>3, <3>4, Zenon
    <2>2. RowOf(b, i) + count <= Len(data)
      <3>1. i \in 0 .. (b.h - 1) /\ count - 1 \in 0 .. (b.w - 1)
        BY <1>1, <1>2, SMTT(20)
      <3>2. i * b.w + (count - 1) \in 0 .. (b.w * b.h - 1)
        BY <1>1, <1>4, <3>1
      <3>3. i * b.w \in Nat /\ b.w * b.h \in Nat /\ count \in Int
        <4>1. i \in Nat /\ b.w \in Nat /\ b.h \in Nat /\ count \in Int
          BY <1>1, <3>1
        <4> QED
          BY <1>5, <4>1, Zenon
      <3>4. \A x, y, z \in Int : x + (z - 1) \in 0 .. (y - 1) => x + z <= y
        OBVIOUS
      <3>5. i * b.w + count <= b.w * b.h
        BY <3>2, <3>3, <3>4
      <3> QED
        BY <3>5, Zenon DEF RowOf
    <2> QED
      BY <2>1, <2>2, Zenon DEF Fits
  <1>7. ASSUME NEW i \in 0 .. (b.bottom - b.top) PROVE \A j \in 0 .. i : Fits(b, data, j)
    <2>1. \A j \in 0 .. i : j \in 0 .. (b.bottom - b.top)
      BY <1>1
    <2> QED
      BY <1>6, <2>1
  <1> QED
    BY <1>7, Zenon DEF FittingRows

\* and go where they belong.
LEMMA Copies ==
    ASSUME NEW b, IsBitmap(b), Conforming(b), NEW data, Len(data) = b.w * b.h,
           buffer = [k \in 1 .. (Width * Height) |-> Black],
           NEW i \in 0 .. (Height - 1), NEW j \in 0 .. (Width - 1)
    PROVE  Copied(b, data)[i * Width + j + 1] =
               IF i \in b.top .. b.bottom /\ j \in b.left .. b.right
               THEN data[(i - b.top) * b.w + (j - b.left) + 1] ELSE Black
  <1> DEFINE count == b.right - b.left + 1
             k == i * Width + j + 1
             at(c) == k - 1 - (c + b.top) * Width - b.left
             rows == {c \in FittingRows(b, data) : at(c) \in 0 .. (count - 1)}
             row == CHOOSE c \in rows : \A e \in rows : e <= c
  <1>1. /\ b.w \in Nat \ {0} /\ b.h \in Nat \ {0} /\ b.left \in Nat /\ b.top \in Nat /\ b.right \in Nat /\ b.bottom \in Nat
        /\ b.left <= b.right /\ b.top <= b.bottom
    BY DEF IsBitmap
  <1>2. b.right < Width /\ b.bottom < Height /\ b.right - b.left < b.w /\ b.bottom - b.top < b.h
    BY DEF Conforming
  <1>3. Width \in Nat \ {0} /\ Height \in Nat \ {0}
    BY WindowAssumption
  <1>4. FittingRows(b, data) = 0 .. (b.bottom - b.top)
    BY RowsFit
  <1>5. k \in 1 .. (Width * Height) /\ k \in Int
    <2>1. i * Width + j \in 0 .. (Width * Height - 1)
      BY <1>3, InRange
    <2>2. \A x \in Int : \A y \in Nat : x \in 0 .. (y - 1) => x + 1 \in 1 .. y
      OBVIOUS
    <2>3. \A x, y \in Nat : x * y \in Nat
      OBVIOUS
    <2>4. Width * Height \in Nat
      BY <1>3, <2>3
    <2> QED
      BY <2>1, <2>2, <2>4
  <1>6. k \in DOMAIN buffer /\ buffer[k] = Black
    BY <1>5, Zenon
  <1>7. Copied(b, data)[k] = IF rows = {} THEN Black ELSE data[RowOf(b, row) + at(row) + 1]
    BY <1>6 DEF Copied
  <1>8. ASSUME NEW c \in 0 .. (b.bottom - b.top)
        PROVE  at(c) \in 0 .. (count - 1) <=> c + b.top = i /\ j \in b.left .. b.right
    <2>1. PICK y \in Nat : y = (c + b.top) * Width
      <3>1. \A x, z \in Nat : x * z \in Nat
        OBVIOUS
      <3>2. c + b.top \in Nat /\ Width \in Nat
        BY <1>1, <1>3
      <3> QED
        BY <3>1, <3>2
    <2>2. PICK x \in Nat : x = i * Width
      <3>1. \A g, z \in Nat : g * z \in Nat
        OBVIOUS
      <3> QED
        BY <1>3, <3>1
    <2>3. PICK l \in Nat, r \in Nat : l = b.left /\ r = b.right
      BY <1>1
    <2>4. l <= r /\ r < Width
      BY <1>1, <1>2, <2>3
    <2>5. at(c) = (x + j + 1) - 1 - y - l
      BY <2>1, <2>2, <2>3
    <2> DEFINE g == at(c)
    <2>6. g = (x + j) - y - l
      <3>1. \A n, o, q, z \in Int : (n + o + 1) - 1 - q - z = (n + o) - q - z
        OBVIOUS
      <3>2. x \in Int /\ y \in Int /\ j \in Int /\ l \in Int
        OBVIOUS
      <3>3. (x + j + 1) - 1 - y - l = (x + j) - y - l
        BY <3>1, <3>2
      <3> HIDE DEF at
      <3> QED
        BY <2>5, <3>3
    <2>7. count - 1 = r - l
      BY <2>3
    <2>8. i \in Nat /\ c + b.top \in Nat /\ Width \in Nat \ {0}
      BY <1>1, <1>3
    <2> HIDE DEF at, k, g, count
    <2>9. ASSUME c + b.top = i, j \in l .. r PROVE g \in 0 .. (r - l)
      <3>1. x = y
        BY <2>1, <2>2, <2>9
      <3>2. j \in l .. r
        BY <2>9
      <3> QED
        BY <2>6, <3>1, <3>2
    <2>10. ASSUME g \in 0 .. (r - l) PROVE c + b.top = i /\ j \in l .. r
      <3>1. l + g \in l .. r /\ l + g \in 0 .. (Width - 1)
        BY <1>3, <2>4, <2>10
      <3>2. x + j = y + (l + g)
        BY <2>6, <2>10
      <3>3. i * Width + j = (c + b.top) * Width + (l + g)
        BY <2>1, <2>2, <3>2, Zenon
      <3>4. i = c + b.top /\ j = l + g
        <4>1. PICK e \in 0 .. (Width - 1) : e = l + g
          BY <3>1
        <4>2. PICK t \in Nat : t = c + b.top
          BY <2>8
        <4>3. PICK u \in Nat : u = i
          BY <2>8
        <4>4. u * Width + j = t * Width + e
          BY <3>3, <4>1, <4>2, <4>3, Zenon
        <4>5. u = t /\ j = e
          BY <2>8, <4>4, Unique
        <4> QED
          BY <4>1, <4>2, <4>3, <4>5
      <3> QED
        BY <3>1, <3>4, Zenon
    <2>11. at(c) \in 0 .. (r - l) <=> c + b.top = i /\ j \in l .. r
      BY <2>9, <2>10, Zenon DEF g
    <2> QED
      BY <2>3, <2>7, <2>11, Zenon
  <1>9. CASE i \in b.top .. b.bottom /\ j \in b.left .. b.right
    <2>1. i - b.top \in 0 .. (b.bottom - b.top) /\ (i - b.top) + b.top = i
      BY <1>1, <1>9
    <2>2. rows = {i - b.top}
      <3>1. \A c \in 0 .. (b.bottom - b.top) : c + b.top = i => c = i - b.top
        BY <1>1, <1>9
      <3> HIDE DEF at
      <3> QED
        BY <1>4, <1>8, <1>9, <2>1, <3>1
    <2>3. row = i - b.top
      <3>1. i - b.top <= i - b.top
        BY <2>1
      <3>2. \E c \in rows : \A e \in rows : e <= c
        <4> HIDE DEF rows
        <4> QED
          BY <2>2, <3>1, Zenon
      <3> HIDE DEF rows
      <3>3. row \in rows
        BY <3>2, Zenon
      <3> QED
        BY <2>2, <3>3
    <2>4. at(i - b.top) = j - b.left
      <3>1. PICK x \in Int : x = i * Width
        <4>1. \A g, z \in Nat : g * z \in Int
          OBVIOUS
        <4> QED
          BY <1>3, <4>1
      <3>2. at(i - b.top) = (x + j + 1) - 1 - x - b.left
        BY <2>1, <3>1
      <3> HIDE DEF at
      <3> QED
        BY <1>1, <3>1, <3>2
    <2>5. rows # {}
      BY <2>2
    <2>6. RowOf(b, i - b.top) = (i - b.top) * b.w
      BY DEF RowOf
    <2> HIDE DEF rows, row, at
    <2>7. Copied(b, data)[k] = data[RowOf(b, row) + at(row) + 1]
      BY <1>7, <2>5
    <2>8. Copied(b, data)[k] = data[(i - b.top) * b.w + (j - b.left) + 1]
      BY <2>3, <2>4, <2>6, <2>7, Zenon
    <2> QED
      BY <1>9, <2>8
  <1>10. CASE ~(i \in b.top .. b.bottom /\ j \in b.left .. b.right)
    <2>1. ASSUME NEW c \in 0 .. (b.bottom - b.top), c + b.top = i PROVE i \in b.top .. b.bottom
      BY <1>1, <2>1
    <2>2. rows = {}
      <3> HIDE DEF at
      <3> QED
        BY <1>4, <1>8, <1>10, <2>1
    <2> HIDE DEF rows, row, at
    <2>3. Copied(b, data)[k] = Black
      BY <1>7, <2>2
    <2> QED
      BY <1>10, <2>3
  <1> QED
    BY <1>9, <1>10

\* The place of a pixel that a picture has,
LEMMA LowerIs ==
    ASSUME NEW b, NEW n
    PROVE  Lower(b, n) = Place(b.w, b.h, n)
  BY DEF Lower, Place

\* the image of a bitmap that took orders,
LEMMA OrdersShown ==
    ASSUME bitmap.w \in Nat \ {0}, bitmap.h \in Nat \ {0}, bitmap.bpp = 16, bitmap.compressed,
           decoder \in Decoder16(bitmap.w, bitmap.h), picture \in Picture16,
           Drawn16(bitmap, decoder, picture, Len(picture.pixels))
    PROVE  /\ Len(Decompressed) = bitmap.w * bitmap.h
           /\ \A n \in 1 .. (bitmap.w * bitmap.h) : Decompressed[n] = Shown(Lower(bitmap, n))
  <1> DEFINE w == bitmap.w
             h == bitmap.h
             out == decoder.out
             pixels == picture.pixels
             N == Len(pixels)
  <1>1. out \in [1 .. (w * h) -> Word] /\ pixels \in Seq(Word) /\ N \in Nat /\ DOMAIN pixels = 1 .. N
    BY DEF Decoder16, Picture16
  <1>2. w \in Nat \ {0} /\ h \in Nat \ {0} /\ w * h \in Nat
    <2>1. \A x, y \in Nat : x * y \in Nat
      OBVIOUS
    <2> QED
      BY <2>1
  <1>3. Faithful(out, pixels, w, h, N)
    BY DEF Drawn16
  <1>4. Decompressed = [n \in 1 .. (w * h) |-> Rgb32(out[n])]
    <2>1. Decompressed = Rgb(out)
      <3>1. 16 # 32
        OBVIOUS
      <3> QED
        BY <3>1, Zenon DEF Decompressed
    <2>2. DOMAIN out = 1 .. (w * h)
      BY <1>1
    <2> QED
      BY <2>1, <2>2, Zenon DEF Rgb
  <1> HIDE DEF out, pixels, N
  <1>5. Len(Decompressed) = w * h
    BY <1>2, <1>4
  <1>6. ASSUME NEW n \in 1 .. (w * h) PROVE Decompressed[n] = Shown(Lower(bitmap, n))
    <2> DEFINE m == Place(w, h, n)
    <2>1. m \in 1 .. (w * h) /\ Place(w, h, m) = n
      BY <1>2, PlaceTwice
    <2> HIDE DEF m
    <2>2. out[n] = IF m <= N THEN pixels[m] ELSE 0
      BY <1>3, <2>1 DEF Faithful
    <2>3. m <= N <=> m \in DOMAIN pixels
      BY <1>1, <2>1
    <2>4. out[n] = IF m \in DOMAIN pixels THEN pixels[m] ELSE 0
      BY <2>2, <2>3, Zenon
    <2>5. Rgb32(out[n]) = Shown16(out[n])
      <3>1. out[n] \in Word
        BY <1>1
      <3> QED
        BY <3>1, ColourShown
    <2>6. Decompressed[n] = Rgb32(out[n])
      BY <1>4
    <2>7. Lower(bitmap, n) = m
      BY LowerIs, Zenon DEF m
    <2>8. Shown(m) = Shown16(IF m \in DOMAIN pixels THEN pixels[m] ELSE 0)
      BY Zenon DEF Shown, pixels
    <2> QED
      BY <2>4, <2>5, <2>6, <2>7, <2>8, Zenon
  <1> QED
    BY <1>5, <1>6

\* of one that took segments,
LEMMA SegmentsShown ==
    ASSUME bitmap.w \in Nat \ {0}, bitmap.h \in Nat \ {0}, bitmap.bpp = 32, bitmap.compressed,
           decoder.plane = 5, FaithfulPlanes(decoder, picture, bitmap.w, bitmap.h)
    PROVE  /\ Len(Decompressed) = bitmap.w * bitmap.h
           /\ \A n \in 1 .. (bitmap.w * bitmap.h) : Decompressed[n] = Shown(Lower(bitmap, n))
  <1> DEFINE w == bitmap.w
             h == bitmap.h
  <1>1. w \in Nat \ {0} /\ h \in Nat \ {0} /\ w * h \in Nat
    <2>1. \A x, y \in Nat : x * y \in Nat
      OBVIOUS
    <2> QED
      BY <2>1
  <1>2. Decompressed = [n \in 1 .. (w * h) |-> [c \in 1 .. 4 |-> decoder.out[5 - c][n]]]
    <2>1. 32 # 16
      OBVIOUS
    <2> QED
      BY <2>1, Zenon DEF Decompressed
  <1>3. Len(Decompressed) = w * h
    BY <1>1, <1>2
  <1>4. \A q \in 1 .. 4 : DrawnOf(decoder, w, h, q) = w * h
    <2>1. \A q \in 1 .. 4 : q < 5
      OBVIOUS
    <2> QED
      BY <2>1, Zenon DEF DrawnOf
  <1>5. \A q \in 1 .. 4 : \A m \in 1 .. (w * h) : decoder.out[q][Place(w, h, m)] = picture.planes[q][m]
    BY <1>4 DEF FaithfulPlanes
  <1>6. ASSUME NEW n \in 1 .. (w * h) PROVE Decompressed[n] = Shown(Lower(bitmap, n))
    <2> DEFINE m == Place(w, h, n)
               o(q) == decoder.out[q][n]
               p(q) == picture.planes[q][m]
    <2>1. m \in 1 .. (w * h) /\ Place(w, h, m) = n
      BY <1>1, PlaceTwice
    <2>2. \A q \in 1 .. 4 : o(q) = p(q)
      <3> HIDE DEF m
      <3> QED
        BY <1>5, <2>1
    <2>3. Decompressed[n] = [c \in 1 .. 4 |-> o(5 - c)]
      BY <1>2
    <2>4. Shown(m) = <<p(4), p(3), p(2), p(1)>>
      <3>1. bitmap.bpp # 16
        OBVIOUS
      <3> HIDE DEF m
      <3> QED
        BY <3>1, Zenon DEF Shown
    <2>5. Lower(bitmap, n) = m
      BY LowerIs, Zenon
    <2> HIDE DEF m, o, p
    <2>6. [c \in 1 .. 4 |-> o(5 - c)] = <<p(4), p(3), p(2), p(1)>>
      <3>1. o(1) = p(1) /\ o(2) = p(2) /\ o(3) = p(3) /\ o(4) = p(4)
        BY <2>2
      <3>2. [c \in 1 .. 4 |-> o(5 - c)] = <<o(4), o(3), o(2), o(1)>>
        OBVIOUS
      <3> QED
        BY <3>1, <3>2
    <2> QED
      BY <2>3, <2>4, <2>5, <2>6
  <1> QED
    BY <1>3, <1>6

\* and of one that is not compressed, as long as its bytes fit.
LEMMA UprightShown ==
    ASSUME bitmap.w \in Nat \ {0}, bitmap.h \in Nat \ {0}, bitmap.bpp = 16, ~bitmap.compressed, ~Overflows(bitmap),
           picture = [NoPicture EXCEPT !.pixels = Raw(bitmap)]
    PROVE  /\ Len(Decompressed) = bitmap.w * bitmap.h
           /\ \A n \in 1 .. (bitmap.w * bitmap.h) : Decompressed[n] = Shown(Lower(bitmap, n))
  <1> DEFINE w == bitmap.w
             h == bitmap.h
             size == w * h
             data == picture.pixels
             source(n) == ((((h - n \div w - 1) * w + (n % w)) * 2) % U16) \div 2
             target(k) == {n \in 0 .. (size - 1) : n % U16 = k - 1}
             upright == Upright(bitmap, data)
  <1>1. w \in Nat \ {0} /\ h \in Nat \ {0} /\ size \in Nat
    <2>1. \A x, y \in Nat : x * y \in Nat
      OBVIOUS
    <2> QED
      BY <2>1
  <1>2. U16 \in Nat \ {0}
    BY WindowAssumption
  <1>3. 2 * size <= U16
    <2>1. ~(2 * bitmap.w * bitmap.h > U16)
      BY Zenon DEF Overflows
    <2>2. 2 * w * h = 2 * size
      BY <1>1
    <2> QED
      BY <1>1, <1>2, <2>1, <2>2
  <1>4. data = Raw(bitmap)
    BY DEF NoPicture
  <1>5. data = [i \in 1 .. size |-> (257 * i) % (Ones + 1)]
    BY <1>4, ZenonT(30) DEF Raw
  <1>6. \A i \in 1 .. size : data[i] \in Word
    <2> SUFFICES ASSUME NEW i \in 1 .. size PROVE data[i] \in Word
      OBVIOUS
    <2>1. data[i] = (257 * i) % (Ones + 1)
      BY <1>5
    <2>2. \A o \in Nat : (257 * i) % (o + 1) \in 0 .. o
      <3>1. i \in Nat
        BY <1>1
      <3> QED
        BY <3>1
    <2>3. Ones \in Nat
      BY DEF Ones
    <2> QED
      BY <2>1, <2>2, <2>3, Zenon DEF Word
  <1>7. Decompressed = Rgb(upright)
    <2>1. 16 # 32
      OBVIOUS
    <2> QED
      BY <2>1, Zenon DEF Decompressed
  <1>8. upright = [k \in 1 .. size |-> IF target(k) = {} THEN 0
                                      ELSE data[source(CHOOSE n \in target(k) : \A o \in target(k) : o <= n) + 1]]
    BY Zenon DEF Upright
  <1> HIDE DEF size, data, upright
  <1>9. ASSUME NEW k \in 1 .. size PROVE upright[k] = data[Place(w, h, k)] /\ Place(w, h, k) \in 1 .. size
    <2>1. k - 1 \in 0 .. (size - 1)
      BY <1>1
    <2>2. \A n \in 0 .. (size - 1) : n % U16 = n
      BY <1>1, <1>2, <1>3
    <2>3. target(k) = {k - 1}
      BY <2>1, <2>2
    <2> DEFINE n == CHOOSE n \in target(k) : \A o \in target(k) : o <= n
    <2>4. n = k - 1
      <3>1. k - 1 <= k - 1
        BY <2>1
      <3>2. \E m \in target(k) : \A o \in target(k) : o <= m
        <4> HIDE DEF target
        <4> QED
          BY <2>3, <3>1, Zenon
      <3> HIDE DEF target
      <3>3. n \in target(k)
        BY <3>2, Zenon
      <3> QED
        BY <2>3, <3>3
    <2>5. upright[k] = data[source(n) + 1]
      <3> HIDE DEF target, source
      <3>1. target(k) # {}
        BY <2>3
      <3> QED
        BY <1>8, <3>1
    <2>6. Place(w, h, k) \in 1 .. size /\ Place(w, h, k) = (h - (k - 1) \div w - 1) * w + ((k - 1) % w) + 1
      <3>1. Place(w, h, k) \in 1 .. (w * h)
        BY <1>1, PlaceIs DEF size
      <3> QED
        BY <3>1, Zenon DEF Place, size
    <2>7. PICK x : x = (h - (k - 1) \div w - 1) * w + ((k - 1) % w)
      OBVIOUS
    <2>8. x + 1 = Place(w, h, k)
      BY <2>6, <2>7, Zenon
    <2>9. x \in Int
      <3>1. (k - 1) \div w \in Int /\ (k - 1) % w \in Int
        BY <1>1, <2>1
      <3>2. \A a, c, e \in Int : a * c + e \in Int
        OBVIOUS
      <3>3. h - (k - 1) \div w - 1 \in Int /\ w \in Int
        BY <1>1, <3>1
      <3> QED
        BY <2>7, <3>1, <3>2, <3>3, Zenon
    <2>10. x \in 0 .. (size - 1)
      BY <1>1, <2>6, <2>8, <2>9
    <2>11. ((x * 2) % U16) \div 2 = x
      BY <1>1, <1>2, <1>3, <2>10
    <2>12. source(k - 1) = x
      BY <2>7, <2>11, Zenon
    <2> HIDE DEF source, n
    <2> QED
      BY <2>4, <2>5, <2>6, <2>8, <2>12, Zenon
  <1>10. Decompressed = [k \in 1 .. size |-> Rgb32(upright[k])]
    <2>1. DOMAIN upright = 1 .. size
      BY <1>8
    <2> QED
      BY <1>7, <2>1, Zenon DEF Rgb
  <1>11. Len(Decompressed) = size
    BY <1>1, <1>10
  <1>12. ASSUME NEW n \in 1 .. size PROVE Decompressed[n] = Shown(Lower(bitmap, n))
    <2>1. upright[n] = data[Place(w, h, n)] /\ Place(w, h, n) \in 1 .. size
      BY <1>9
    <2>2. Decompressed[n] = Rgb32(data[Place(w, h, n)])
      BY <1>10, <2>1
    <2>3. Rgb32(data[Place(w, h, n)]) = Shown16(data[Place(w, h, n)])
      BY <1>6, <2>1, ColourShown
    <2>4. Lower(bitmap, n) = Place(w, h, n)
      BY LowerIs
    <2>5. Place(w, h, n) \in DOMAIN data
      BY <1>5, <2>1
    <2>6. Shown(Place(w, h, n)) = Shown16(data[Place(w, h, n)])
      BY <2>5, Zenon DEF Shown, data
    <2> QED
      BY <2>2, <2>3, <2>4, <2>6, Zenon
  <1> QED
    BY <1>11, <1>12 DEF size

-----------------------------------------------------------------------------
(***************************************************************************)
(* Every step keeps the invariant.                                         *)
(***************************************************************************)
\* A bitmap is not none.
LEMMA SomeBitmap ==
    ASSUME NEW b \in Bitmaps
    PROVE  b # NoBitmap /\ IsBitmap(b) /\ b.bpp \in {16, 32} /\ b.compressed \in BOOLEAN
           /\ b.w \in Nat \ {0} /\ b.h \in Nat \ {0} /\ b.whole \in BOOLEAN
  <1>1. IsBitmap(b)
    BY WindowAssumption
  <1>2. b.w # 0
    BY <1>1 DEF IsBitmap
  <1>3. b # NoBitmap
    BY <1>2 DEF NoBitmap
  <1> QED
    BY <1>1, <1>3 DEF IsBitmap

\* A decoder of planes that has not failed has read the header it knows.
LEMMA KnownHeader ==
    ASSUME NEW b \in Bitmaps, NEW d, NEW p, Follows(b, d, p), b.compressed, b.bpp = 32, d.result # "error"
    PROVE  b.whole /\ Following32(b, d, p)
  <1>1. StartPlanes(b.w, b.h, FALSE).result = "error"
    BY DEF StartPlanes
  <1> QED
    BY <1>1, Zenon DEF Follows

\* The start of a bitmap.
LEMMA StartStep ==
    ASSUME Following, Shows, NEW b \in Bitmaps, Start(b)
    PROVE  Following' /\ Shows'
  <1>1. /\ bitmap = NoBitmap /\ bitmap' = b /\ buffer' = buffer
        /\ decoder' = CASE b.bpp = 16 /\ b.compressed -> Start16(b.w, b.h)
                        [] b.bpp = 32 /\ b.compressed -> StartPlanes(b.w, b.h, b.whole)
                        [] OTHER -> [in |-> <<>>, result |-> "raw"]
        /\ picture' = CASE ~b.compressed -> [NoPicture EXCEPT !.pixels = Raw(b)]
                        [] b.compressed /\ b.bpp = 32 -> [planes |-> <<<<>>, <<>>, <<>>, <<>>>>, last |-> 0]
                        [] OTHER         -> NoPicture
    BY Zenon DEF Start
  <1>2. b # NoBitmap /\ b.bpp \in {16, 32} /\ b.compressed \in BOOLEAN /\ b.whole \in BOOLEAN
    BY SomeBitmap
  <1>3. decoder = NoBitmap
    <2>1. bitmap \notin Bitmaps
      BY <1>1, SomeBitmap
    <2> QED
      BY <2>1 DEF Following
  <1>4. buffer' = [i \in 1 .. (Width * Height) |-> Black]
    BY <1>1, <1>3 DEF Shows
  <1>5. 16 # 32
    OBVIOUS
  <1>6. CASE b.compressed /\ b.bpp = 16
    <2>1. decoder' = Start16(b.w, b.h) /\ picture' = NoPicture
      BY <1>1, <1>5, <1>6, Zenon
    <2>2. Following16(b, decoder', picture')
      BY <2>1, StartFollows, Zenon
    <2>3. decoder'.result # "drawn"
      BY <2>1 DEF Start16
    <2> QED
      BY <1>1, <1>4, <1>5, <1>6, <2>2, <2>3 DEF Following, Follows, Shows
  <1>7. CASE b.compressed /\ b.bpp = 32
    <2>1. decoder' = StartPlanes(b.w, b.h, b.whole) /\ picture' = [planes |-> <<<<>>, <<>>, <<>>, <<>>>>, last |-> 0]
      BY <1>1, <1>5, <1>7, Zenon
    <2>2. IF b.whole THEN Following32(b, decoder', picture') ELSE decoder' = StartPlanes(b.w, b.h, FALSE)
      <3>1. CASE b.whole
        <4>1. b.whole = TRUE
          BY <1>2, <3>1
        <4> QED
          BY <2>1, <3>1, <4>1, StartPlanesFollows, Zenon
      <3>2. CASE ~b.whole
        <4>1. b.whole = FALSE
          BY <1>2, <3>2
        <4> QED
          BY <2>1, <3>2, <4>1, Zenon
      <3> QED
        BY <3>1, <3>2
    <2>3. decoder'.result # "drawn"
      BY <2>1 DEF StartPlanes
    <2> QED
      BY <1>1, <1>4, <1>5, <1>7, <2>2, <2>3 DEF Following, Follows, Shows
  <1>8. CASE ~b.compressed
    <2>1. decoder' = [in |-> <<>>, result |-> "raw"] /\ picture' = [NoPicture EXCEPT !.pixels = Raw(b)]
      BY <1>1, <1>8, Zenon
    <2>2. decoder' \in [in : {<<>>}, result : {"raw", "drawn"}] /\ decoder'.result # "drawn"
      BY <2>1
    <2> QED
      BY <1>1, <1>4, <1>8, <2>1, <2>2 DEF Following, Follows, Shows
  <1> QED
    BY <1>2, <1>6, <1>7, <1>8

\* What a step of a decoder has to show.
LEMMA DecoderStep ==
    ASSUME Shows, decoder.result = "more", bitmap \in Bitmaps, bitmap' = bitmap, buffer' = buffer,
           Follows(bitmap, decoder', picture'), decoder'.result # "drawn"
    PROVE  Following' /\ Shows'
  <1>1. buffer = [i \in 1 .. (Width * Height) |-> Black]
    BY DEF Shows
  <1> QED
    BY <1>1 DEF Following, Shows

\* An order that is sent,
LEMMA SendOrderStep ==
    ASSUME Following, Shows, NEW o \in Orders, SendOrder(o)
    PROVE  Following' /\ Shows'
  <1>1. /\ bitmap # NoBitmap /\ bitmap.compressed /\ bitmap.bpp = 16 /\ decoder.result = "more" /\ decoder.in = <<>>
        /\ decoder.count = 0 /\ decoder' = [decoder EXCEPT !.in = OrderBytes(o)]
        /\ picture' = Painted(picture, o, bitmap.w) /\ bitmap' = bitmap /\ buffer' = buffer
    BY DEF SendOrder, Asks
  <1>2. bitmap \in Bitmaps /\ Following16(bitmap, decoder, picture)
    BY <1>1 DEF Following, Follows
  <1>3. Following16(bitmap, decoder', picture')
    BY <1>1, <1>2, SendFollows
  <1>4. decoder'.result # "drawn"
    <2>1. decoder \in Decoder16(bitmap.w, bitmap.h)
      BY <1>2 DEF Following16
    <2> QED
      BY <1>1, <2>1 DEF Decoder16
  <1>5. Follows(bitmap, decoder', picture')
    <2>1. 16 # 32
      OBVIOUS
    <2> QED
      BY <1>1, <1>3, <2>1, Zenon DEF Follows
  <1> QED
    BY <1>1, <1>2, <1>4, <1>5, DecoderStep

\* one that is read,
LEMMA ReadOrderStep ==
    ASSUME Following, Shows, ReadOrder
    PROVE  Following' /\ Shows'
  <1>1. /\ bitmap # NoBitmap /\ bitmap.bpp = 16 /\ decoder.result = "more" /\ decoder.in # <<>> /\ decoder.count = 0
        /\ decoder' = Order(decoder, bitmap.w) /\ picture' = picture /\ bitmap' = bitmap /\ buffer' = buffer
    BY DEF ReadOrder
  <1>2. bitmap \in Bitmaps /\ Follows(bitmap, decoder, picture)
    BY <1>1 DEF Following
  <1>3. bitmap.compressed
    BY <1>1, <1>2, SomeBitmap DEF Follows
  <1>4. Following16(bitmap, decoder, picture)
    BY <1>1, <1>2, <1>3 DEF Follows
  <1>5. Following16(bitmap, decoder', picture') /\ decoder'.result # "drawn"
    BY <1>1, <1>2, <1>4, OrderFollows
  <1>6. Follows(bitmap, decoder', picture')
    <2>1. 16 # 32
      OBVIOUS
    <2> QED
      BY <1>1, <1>3, <1>5, <2>1, Zenon DEF Follows
  <1> QED
    BY <1>1, <1>2, <1>5, <1>6, DecoderStep

\* a pixel of it,
LEMMA ReadPixelStep ==
    ASSUME Following, Shows, ReadPixel
    PROVE  Following' /\ Shows'
  <1>1. /\ bitmap # NoBitmap /\ bitmap.bpp = 16 /\ decoder.result = "more" /\ decoder.count > 0
        /\ decoder' = Pixel(decoder, bitmap.w) /\ picture' = picture /\ bitmap' = bitmap /\ buffer' = buffer
    BY DEF ReadPixel
  <1>2. bitmap \in Bitmaps /\ Follows(bitmap, decoder, picture)
    BY <1>1 DEF Following
  <1>3. bitmap.compressed
    BY <1>1, <1>2, SomeBitmap DEF Follows
  <1>4. Following16(bitmap, decoder, picture)
    BY <1>1, <1>2, <1>3 DEF Follows
  <1>5. Following16(bitmap, decoder', picture') /\ decoder'.result # "drawn"
    BY <1>1, <1>2, <1>4, PixelFollows
  <1>6. Follows(bitmap, decoder', picture')
    <2>1. 16 # 32
      OBVIOUS
    <2> QED
      BY <1>1, <1>3, <1>5, <2>1, Zenon DEF Follows
  <1> QED
    BY <1>1, <1>2, <1>5, <1>6, DecoderStep

\* a segment that is sent,
LEMMA SendSegmentStep ==
    ASSUME Following, Shows, NEW s \in Segments, SendSegment(s[1], s[2])
    PROVE  Following' /\ Shows'
  <1> DEFINE raw == s[1]
             n == s[2]
  <1>1. <<raw, n>> \in Segments
    <2>1. s = <<s[1], s[2]>>
      BY WindowAssumption
    <2> QED
      BY <2>1
  <1> HIDE DEF raw, n
  <1>2. SendSegment(raw, n)
    BY DEF raw, n
  <1>3. /\ bitmap # NoBitmap /\ bitmap.compressed /\ bitmap.bpp = 32 /\ decoder.result = "more" /\ decoder.in = <<>>
        /\ Len(raw) + n \in 1 .. (bitmap.w - decoder.indexw) /\ Fresh(decoder.row, raw)
        /\ decoder' = [decoder EXCEPT !.in = SegmentBytes(decoder.row, raw, n)]
        /\ picture' = [planes |-> [picture.planes EXCEPT
                                     ![decoder.plane] = PaintedPlane(picture.planes[decoder.plane], raw, n, picture.last, bitmap.w)],
                       last   |-> IF Len(raw) + n = bitmap.w - decoder.indexw THEN 0
                                  ELSE IF raw = <<>> THEN picture.last ELSE raw[Len(raw)]]
        /\ bitmap' = bitmap /\ buffer' = buffer
    BY <1>2 DEF SendSegment, Asks, Missing, Fresh
  <1>4. bitmap \in Bitmaps /\ bitmap.whole /\ Following32(bitmap, decoder, picture)
    BY <1>3, KnownHeader DEF Following
  <1>5. Following32(bitmap, decoder', picture')
    BY <1>1, <1>3, <1>4, SegmentSent
  <1>6. decoder'.result # "drawn"
    <2>1. decoder \in Decoder32(bitmap.w, bitmap.h)
      BY <1>4 DEF Following32
    <2> QED
      BY <1>3, <2>1 DEF Decoder32
  <1>7. Follows(bitmap, decoder', picture')
    <2>1. 16 # 32
      OBVIOUS
    <2> QED
      BY <1>3, <1>4, <1>5, <2>1, Zenon DEF Follows
  <1> QED
    BY <1>3, <1>4, <1>6, <1>7, DecoderStep

\* and one that is read.
LEMMA ReadSegmentStep ==
    ASSUME Following, Shows, ReadSegment
    PROVE  Following' /\ Shows'
  <1>1. /\ bitmap # NoBitmap /\ bitmap.bpp = 32 /\ decoder.result = "more" /\ decoder.in # <<>>
        /\ decoder' = Segment(decoder, bitmap.w, bitmap.h) /\ picture' = picture /\ bitmap' = bitmap /\ buffer' = buffer
    BY DEF ReadSegment
  <1>2. bitmap \in Bitmaps /\ Follows(bitmap, decoder, picture)
    BY <1>1 DEF Following
  <1>3. bitmap.compressed
    BY <1>1, <1>2, SomeBitmap DEF Follows
  <1>4. bitmap.whole /\ Following32(bitmap, decoder, picture)
    BY <1>1, <1>2, <1>3, KnownHeader
  <1>5. Following32(bitmap, decoder', picture') /\ decoder'.result # "drawn"
    BY <1>1, <1>2, <1>4, SegmentFollows
  <1>6. Follows(bitmap, decoder', picture')
    <2>1. 16 # 32
      OBVIOUS
    <2> QED
      BY <1>1, <1>3, <1>4, <1>5, <2>1, Zenon DEF Follows
  <1> QED
    BY <1>1, <1>2, <1>5, <1>6, DecoderStep

\* A bitmap that is complete has all of its pixels, as they are shown.
LEMMA Complete ==
    ASSUME bitmap \in Bitmaps, Follows(bitmap, decoder, picture), bitmap.compressed \/ bitmap.bpp = 16,
           ~Overflows(bitmap), decoder.result # "error",
           decoder.result = "more" => bitmap.bpp = 16 /\ decoder.in = <<>> /\ decoder.count = 0,
           decoder.result # "drawn"
    PROVE  /\ Len(Decompressed) = bitmap.w * bitmap.h
           /\ \A n \in 1 .. (bitmap.w * bitmap.h) : Decompressed[n] = Shown(Lower(bitmap, n))
  <1>1. bitmap.w \in Nat \ {0} /\ bitmap.h \in Nat \ {0} /\ bitmap.bpp \in {16, 32} /\ bitmap.compressed \in BOOLEAN
    BY SomeBitmap
  <1>2. CASE bitmap.compressed /\ bitmap.bpp = 16
    <2>1. Following16(bitmap, decoder, picture)
      BY <1>2 DEF Follows
    <2>2. decoder \in Decoder16(bitmap.w, bitmap.h) /\ picture \in Picture16
      BY <2>1 DEF Following16
    <2>3. decoder.result = "more"
      BY <2>2 DEF Decoder16
    <2>4. Drawn16(bitmap, decoder, picture, Len(picture.pixels))
      BY <2>1, <2>3, Phases
    <2> QED
      BY <1>1, <1>2, <2>2, <2>4, OrdersShown
  <1>3. CASE bitmap.compressed /\ bitmap.bpp = 32
    <2>1. Following32(bitmap, decoder, picture)
      BY <1>3, KnownHeader
    <2>2. decoder.result = "done"
      <3>1. decoder.result \in {"more", "done", "drawn"}
        BY <2>1 DEF Following32, Decoder32
      <3> QED
        BY <1>3, <3>1
    <2>3. decoder.plane = 5 /\ FaithfulPlanes(decoder, picture, bitmap.w, bitmap.h)
      BY <2>1, <2>2 DEF Following32
    <2> QED
      BY <1>1, <1>3, <2>3, SegmentsShown
  <1>4. CASE ~bitmap.compressed
    <2>1. picture = [NoPicture EXCEPT !.pixels = Raw(bitmap)] /\ bitmap.bpp = 16
      BY <1>4 DEF Follows
    <2> QED
      BY <1>1, <1>4, <2>1, UprightShown
  <1> QED
    BY <1>1, <1>2, <1>3, <1>4

\* The end of a bitmap: its decoder has done its work,
LEMMA DrawnFollows ==
    ASSUME NEW b \in Bitmaps, NEW d, NEW p, Follows(b, d, p), d.result # "error", d.result # "drawn",
           d.result = "more" => b.bpp = 16 /\ d.in = <<>> /\ (b.bpp = 16 => d.count = 0)
    PROVE  Follows(b, [d EXCEPT !.result = "drawn"], p)
  <1> DEFINE e == [d EXCEPT !.result = "drawn"]
  <1>1. b.bpp \in {16, 32} /\ b.compressed \in BOOLEAN
    BY SomeBitmap
  <1>2. CASE b.compressed /\ b.bpp = 16
    <2>1. Following16(b, d, p)
      BY <1>2 DEF Follows
    <2>2. d \in Decoder16(b.w, b.h) /\ p \in Picture16
      BY <2>1 DEF Following16
    <2>3. d.result = "more"
      BY <2>2 DEF Decoder16
    <2>4. d.in = <<>> /\ d.count = 0
      BY <1>2, <2>3
    <2>5. Drawn16(b, d, p, Len(p.pixels)) /\ AtRest(d, p)
      BY <2>1, <2>3, <2>4, Phases
    <2>6. /\ e \in Decoder16(b.w, b.h) /\ e.result = "drawn" /\ e.out = d.out /\ e.x = d.x /\ e.left = d.left
          /\ e.line = d.line /\ e.prev = d.prev /\ e.in = d.in /\ e.count = d.count /\ e.mix = d.mix
          /\ e.insertmix = d.insertmix /\ e.bicolour = d.bicolour /\ e.op = d.op
      BY <2>2 DEF Decoder16
    <2> HIDE DEF e
    <2>7. Drawn16(b, e, p, Len(p.pixels))
      BY <2>5, <2>6 DEF Drawn16, Placed
    <2>8. AtRest(e, p)
      BY <2>5, <2>6 DEF AtRest
    <2>9. Following16(b, e, p)
      BY <2>2, <2>6, <2>7, <2>8 DEF Following16
    <2> QED
      BY <1>2, <2>9 DEF Follows, e
  <1>3. CASE b.compressed /\ b.bpp = 32
    <2>1. b.whole /\ Following32(b, d, p)
      BY <1>3, KnownHeader
    <2>2. d \in Decoder32(b.w, b.h)
      BY <2>1 DEF Following32
    <2>3. d.result = "done"
      BY <1>3, <2>2 DEF Decoder32
    <2>4. d.plane = 5 /\ ~(d.plane < 5)
      BY <2>1, <2>3 DEF Following32
    <2>5. /\ e \in Decoder32(b.w, b.h) /\ e.result = "drawn" /\ e.out = d.out /\ e.plane = d.plane /\ e.row = d.row
          /\ e.indexw = d.indexw /\ e.colour = d.colour /\ e.in = d.in
      BY <2>2 DEF Decoder32
    <2> HIDE DEF e
    <2>6. \A q : DrawnOf(e, b.w, b.h, q) = DrawnOf(d, b.w, b.h, q)
      BY <2>5 DEF DrawnOf
    <2>7. FaithfulPlanes(e, p, b.w, b.h)
      BY <2>1, <2>5, <2>6 DEF FaithfulPlanes, Following32
    <2>8. Following32(b, e, p)
      BY <2>1, <2>4, <2>5, <2>6, <2>7 DEF Following32
    <2> QED
      BY <1>3, <2>1, <2>8 DEF Follows, e
  <1>4. CASE ~b.compressed
    <2>1. d \in [in : {<<>>}, result : {"raw", "drawn"}] /\ p = [NoPicture EXCEPT !.pixels = Raw(b)]
      BY <1>4 DEF Follows
    <2>2. e \in [in : {<<>>}, result : {"raw", "drawn"}]
      BY <2>1
    <2> QED
      BY <1>4, <2>1, <2>2 DEF Follows
  <1> QED
    BY <1>1, <1>2, <1>3, <1>4

\* and the window has it where it belongs.
LEMMA DrawStep ==
    ASSUME Following, Shows, Draw
    PROVE  Following' /\ Shows'
  <1>1. /\ bitmap # NoBitmap /\ gui = "open" /\ decoder.result # "drawn" /\ bitmap' = bitmap /\ picture' = picture
        /\ decoder.result = "more" => decoder.in = <<>> /\ (bitmap.bpp = 16 => decoder.count = 0)
    BY DEF Draw
  <1>2. bitmap \in Bitmaps /\ Follows(bitmap, decoder, picture)
    BY <1>1 DEF Following
  <1>3. buffer = [k \in 1 .. (Width * Height) |-> Black]
    BY <1>1 DEF Shows
  <1>4. CASE UNCHANGED <<decoder, buffer>>
    BY <1>1, <1>2, <1>3, <1>4 DEF Following, Shows
  <1>5. CASE ~(decoder.result \in {"error", "panic"} \/ Unfinished(bitmap))
             /\ buffer' = Copied(bitmap, Decompressed)
             /\ gui' = (IF Cardinality(FittingRows(bitmap, Decompressed)) = bitmap.bottom - bitmap.top + 1
                        THEN "open" ELSE "failed")
             /\ decoder' = [decoder EXCEPT !.result = "drawn"]
    <2>1. bitmap.bpp \in {16, 32} /\ bitmap.compressed \in BOOLEAN /\ IsBitmap(bitmap)
      BY <1>2, SomeBitmap
    <2>2. decoder.result # "error"
      BY <1>5
    <2>3. decoder.result = "more" => bitmap.bpp = 16 /\ decoder.in = <<>> /\ decoder.count = 0
      BY <1>1, <1>5, <2>1 DEF Unfinished
    <2>4. Follows(bitmap, decoder', picture')
      BY <1>1, <1>2, <1>5, <2>2, <2>3, DrawnFollows
    <2>5. Following'
      BY <1>1, <1>2, <2>4 DEF Following
    <2>6. DrawnWhereItBelongs'
      <3>0. \A n : Shown(n)' = Shown(n)
        BY <1>1, Zenon DEF Shown
      <3> SUFFICES ASSUME Conforming(bitmap), bitmap.compressed \/ bitmap.bpp = 16, ~Overflows(bitmap)
                   PROVE  /\ gui' = "open"
                          /\ \A i \in 0 .. (Height - 1), j \in 0 .. (Width - 1) :
                               buffer'[i * Width + j + 1] =
                                 IF i \in bitmap.top .. bitmap.bottom /\ j \in bitmap.left .. bitmap.right
                                 THEN Shown(Lower(bitmap, (i - bitmap.top) * bitmap.w + (j - bitmap.left) + 1)) ELSE Black
        BY <1>1, <3>0 DEF DrawnWhereItBelongs, Conforming, Overflows, Lower
      <3>1. /\ Len(Decompressed) = bitmap.w * bitmap.h
            /\ \A n \in 1 .. (bitmap.w * bitmap.h) : Decompressed[n] = Shown(Lower(bitmap, n))
        BY <1>1, <1>2, <2>2, <2>3, Complete
      <3>2. FittingRows(bitmap, Decompressed) = 0 .. (bitmap.bottom - bitmap.top)
        BY <2>1, <3>1, RowsFit
      <3>3. bitmap.top \in Nat /\ bitmap.bottom \in Nat /\ bitmap.left \in Nat /\ bitmap.right \in Nat
            /\ bitmap.top <= bitmap.bottom /\ bitmap.w \in Nat \ {0} /\ bitmap.h \in Nat \ {0}
        BY <2>1 DEF IsBitmap
      <3>4. gui' = "open"
        <4>1. Cardinality(0 .. (bitmap.bottom - bitmap.top)) = bitmap.bottom - bitmap.top + 1
          <5>1. PICK m \in Nat : m = bitmap.bottom - bitmap.top
            BY <3>3
          <5>2. Cardinality(0 .. m) = m + 1
            <6>1. 0 \in Int /\ m \in Int /\ ~(0 > m) /\ m - 0 + 1 = m + 1
              OBVIOUS
            <6> QED
              BY <6>1, FS_Interval
          <5>3. bitmap.bottom - bitmap.top + 1 = m + 1
            BY <3>3, <5>1
          <5> QED
            BY <5>1, <5>2, <5>3
        <4> QED
          BY <1>5, <3>2, <4>1
      <3>5. ASSUME NEW i \in 0 .. (Height - 1), NEW j \in 0 .. (Width - 1)
            PROVE  Copied(bitmap, Decompressed)[i * Width + j + 1] =
                     IF i \in bitmap.top .. bitmap.bottom /\ j \in bitmap.left .. bitmap.right
                     THEN Shown(Lower(bitmap, (i - bitmap.top) * bitmap.w + (j - bitmap.left) + 1)) ELSE Black
        <4> DEFINE n == (i - bitmap.top) * bitmap.w + (j - bitmap.left) + 1
        <4>1. Copied(bitmap, Decompressed)[i * Width + j + 1] =
                IF i \in bitmap.top .. bitmap.bottom /\ j \in bitmap.left .. bitmap.right THEN Decompressed[n] ELSE Black
          BY <1>3, <2>1, <3>1, Copies
        <4>2. ASSUME i \in bitmap.top .. bitmap.bottom, j \in bitmap.left .. bitmap.right
              PROVE  n \in 1 .. (bitmap.w * bitmap.h)
          <5>1. i - bitmap.top \in 0 .. (bitmap.h - 1) /\ j - bitmap.left \in 0 .. (bitmap.w - 1)
            BY <3>3, <4>2 DEF Conforming
          <5>2. (i - bitmap.top) * bitmap.w + (j - bitmap.left) \in 0 .. (bitmap.w * bitmap.h - 1)
            BY <3>3, <5>1, InRange
          <5>3. \A x \in Int, y \in Nat : x \in 0 .. (y - 1) => x + 1 \in 1 .. y
            OBVIOUS
          <5>4. \A x, y \in Nat : x * y \in Nat
            OBVIOUS
          <5>5. bitmap.w * bitmap.h \in Nat
            BY <3>3, <5>4
          <5> QED
            BY <5>2, <5>3, <5>5
        <4> HIDE DEF n
        <4>3. i \in bitmap.top .. bitmap.bottom /\ j \in bitmap.left .. bitmap.right => Decompressed[n] = Shown(Lower(bitmap, n))
          BY <3>1, <4>2
        <4> QED
          BY <4>1, <4>3, Zenon DEF n
      <3> QED
        BY <1>5, <3>4, <3>5
    <2>7. decoder' # NoBitmap /\ decoder'.result = "drawn" => Shows'
      BY <2>6 DEF Shows
    <2>8. decoder'.result = "drawn"
      BY <2>2, <1>5, <1>2, <2>1, KnownHeader DEF Follows, Following16, Following32, Decoder16, Decoder32
    <2>9. decoder' # NoBitmap
      BY <2>4, <2>1 DEF Follows, Following16, Following32, Decoder16, Decoder32, StartPlanes, NoBitmap
    <2> QED
      BY <2>5, <2>7, <2>8, <2>9
  <1> QED
    BY <1>4, <1>5 DEF Draw

\* Of no button and one, the event has the one.
LEMMA OneButton ==
    ASSUME NEW x \in Buttons
    PROVE  Or(NoButton, x) = x /\ Or(x, NoButton) = x /\ x # NoButton
  BY DEF Buttons, Left, Right, Middle, NoButton, Or, Or1

\* The mouse,
LEMMA MouseStep ==
    ASSUME InputInv, MouseInput
    PROVE  InputInv'
  <1> DEFINE current == get_rdp_pointer_down
             button == Changed(last_button, current)
  <1>1. current \in {NoButton} \cup Buttons
    BY DEF get_rdp_pointer_down, Buttons, Left, Right, Middle, NoButton
  <1> HIDE DEF current
  <1>2. /\ last_button' = current /\ held_keys' = held_keys /\ last_keys' = last_keys
        /\ held' = IF button = NoButton THEN held
                   ELSE IF Down(last_button, current) THEN held \cup {button} ELSE held \ {button}
        /\ direct' = (direct \/ (current # last_button /\ NoButton \notin {current, last_button}))
    BY DEF MouseInput, current
  <1>3. last_button \in {NoButton} \cup Buttons /\ (~direct => held = {last_button} \ {NoButton}) /\ held_keys = last_keys
    BY DEF InputInv, InputFollows
  <1>4. ~direct' => held' = {current} \ {NoButton}
    <2> SUFFICES ASSUME ~direct' PROVE held' = {current} \ {NoButton}
      OBVIOUS
    <2>1. ~direct /\ (current = last_button \/ current = NoButton \/ last_button = NoButton)
      BY <1>2
    <2>2. held = {last_button} \ {NoButton}
      BY <1>3, <2>1
    <2>3. CASE current = last_button
      <3>1. button = NoButton
        BY <2>3 DEF Changed
      <3> QED
        BY <1>2, <2>2, <2>3, <3>1
    <2>4. CASE current # last_button /\ last_button = NoButton
      <3>1. current \in Buttons
        BY <1>1, <2>4
      <3>2. button = current /\ button # NoButton
        BY <2>4, <3>1, OneButton DEF Changed
      <3>3. Down(last_button, current)
        BY <2>4 DEF Down
      <3> HIDE DEF button
      <3>4. held' = held \cup {current}
        BY <1>2, <3>2, <3>3
      <3> QED
        BY <2>2, <2>4, <3>2, <3>4
    <2>5. CASE current # last_button /\ current = NoButton
      <3>1. last_button \in Buttons
        BY <1>3, <2>5
      <3>2. button = last_button /\ button # NoButton
        BY <2>5, <3>1, OneButton DEF Changed
      <3>3. ~Down(last_button, current)
        BY <2>5 DEF Down
      <3> HIDE DEF button
      <3>4. held' = held \ {last_button}
        BY <1>2, <3>2, <3>3
      <3> QED
        BY <2>2, <2>5, <3>4
    <2> QED
      BY <2>1, <2>3, <2>4, <2>5
  <1> QED
    BY <1>1, <1>2, <1>3, <1>4 DEF InputInv, InputFollows

\* and the keys.
LEMMA KeyStep ==
    ASSUME InputInv, KeyInput
    PROVE  InputInv'
  <1>1. /\ last_keys' = keys /\ last_button' = last_button /\ held' = held /\ direct' = direct
    BY DEF KeyInput
  <1>2. PICK repeated \in SUBSET (keys \cap last_keys) :
           held_keys' = (held_keys \ (last_keys \ keys)) \cup (keys \ last_keys) \cup repeated
    BY DEF KeyInput
  <1>3. held_keys = last_keys
    BY DEF InputInv, InputFollows
  <1>4. held_keys' = keys
    BY <1>2, <1>3
  <1> QED
    BY <1>1, <1>4 DEF InputInv, InputFollows

\* The invariant at the start,
LEMMA IInvInit == Init => IInv
  <1> SUFFICES ASSUME Init PROVE IInv
    OBVIOUS
  <1>1. Following
    BY DEF Init, Following
  <1>2. Shows
    BY DEF Init, Shows
  <1>3. InputInv
    BY DEF Init, InputInv, InputFollows, NoButton
  <1> QED
    BY <1>1, <1>2, <1>3 DEF IInv

\* and in every step.
LEMMA IInvStep == IInv /\ [Next]_vars => IInv'
  <1> SUFFICES ASSUME IInv, [Next]_vars PROVE IInv'
    OBVIOUS
  <1>1. Following /\ Shows /\ InputInv
    BY DEF IInv
  <1>2. ASSUME UNCHANGED <<screen, gui>> PROVE Following' /\ Shows'
    BY <1>1, <1>2 DEF screen, Following, Shows, DrawnWhereItBelongs, Overflows, Shown
  <1>3. ASSUME UNCHANGED input PROVE InputInv'
    BY <1>1, <1>3 DEF input, InputInv, InputFollows
  <1>4. ASSUME NEW b \in Bitmaps, Start(b) PROVE IInv'
    <2>1. UNCHANGED input
      BY <1>4 DEF Start
    <2> QED
      BY <1>1, <1>3, <1>4, <2>1, StartStep DEF IInv
  <1>5. ASSUME NEW o \in Orders, SendOrder(o) PROVE IInv'
    <2>1. UNCHANGED input
      BY <1>5 DEF SendOrder
    <2> QED
      BY <1>1, <1>3, <1>5, <2>1, SendOrderStep DEF IInv
  <1>6. ASSUME NEW s \in Segments, SendSegment(s[1], s[2]) PROVE IInv'
    <2>1. UNCHANGED input
      BY <1>6 DEF SendSegment
    <2> QED
      BY <1>1, <1>3, <1>6, <2>1, SendSegmentStep DEF IInv
  <1>7. CASE ReadOrder
    <2>1. UNCHANGED input
      BY <1>7 DEF ReadOrder
    <2> QED
      BY <1>1, <1>3, <1>7, <2>1, ReadOrderStep DEF IInv
  <1>8. CASE ReadPixel
    <2>1. UNCHANGED input
      BY <1>8 DEF ReadPixel
    <2> QED
      BY <1>1, <1>3, <1>8, <2>1, ReadPixelStep DEF IInv
  <1>9. CASE ReadSegment
    <2>1. UNCHANGED input
      BY <1>9 DEF ReadSegment
    <2> QED
      BY <1>1, <1>3, <1>9, <2>1, ReadSegmentStep DEF IInv
  <1>10. CASE Draw
    <2>1. UNCHANGED input
      BY <1>10 DEF Draw
    <2> QED
      BY <1>1, <1>3, <1>10, <2>1, DrawStep DEF IInv
  <1>11. ASSUME NEW b \in Buttons, Press(b) PROVE IInv'
    <2>1. UNCHANGED <<screen, gui>>
      BY <1>11 DEF Press
    <2>2. InputInv'
      BY <1>1, <1>11 DEF Press, InputInv, InputFollows
    <2> QED
      BY <1>2, <2>1, <2>2 DEF IInv
  <1>12. ASSUME NEW k \in Keys, Type(k) PROVE IInv'
    <2>1. UNCHANGED <<screen, gui>>
      BY <1>12 DEF Type
    <2>2. InputInv'
      BY <1>1, <1>12 DEF Type, InputInv, InputFollows
    <2> QED
      BY <1>2, <2>1, <2>2 DEF IInv
  <1>13. CASE MouseInput
    <2>1. UNCHANGED <<screen, gui>>
      BY <1>13 DEF MouseInput
    <2> QED
      BY <1>1, <1>2, <1>13, <2>1, MouseStep DEF IInv
  <1>14. CASE KeyInput
    <2>1. UNCHANGED <<screen, gui>>
      BY <1>14 DEF KeyInput
    <2> QED
      BY <1>1, <1>2, <1>14, <2>1, KeyStep DEF IInv
  <1>15. CASE UNCHANGED vars
    BY <1>2, <1>3, <1>15 DEF IInv, vars
  <1> QED
    BY <1>4, <1>5, <1>6, <1>7, <1>8, <1>9, <1>10, <1>11, <1>12, <1>13, <1>14, <1>15 DEF Next

\* It says what was painted,
LEMMA IInvPaints == IInv => PaintsAsTold
  <1> SUFFICES ASSUME IInv PROVE PaintsAsTold
    OBVIOUS
  <1>1. Following
    BY DEF IInv
  <1>2. CASE bitmap = NoBitmap /\ decoder = NoBitmap
    BY <1>2 DEF PaintsAsTold, Idle
  <1>3. CASE bitmap \in Bitmaps /\ Follows(bitmap, decoder, picture)
    <2>1. bitmap.bpp \in {16, 32} /\ bitmap.compressed \in BOOLEAN /\ bitmap.w \in Nat \ {0} /\ bitmap.h \in Nat \ {0}
      BY <1>3, SomeBitmap
    <2>2. bitmap.compressed /\ bitmap.bpp = 16 => Following16(bitmap, decoder, picture)
      BY <1>3 DEF Follows
    <2>3. bitmap.compressed /\ bitmap.bpp = 32 =>
            IF decoder.result = "error" THEN ~bitmap.whole ELSE Following32(bitmap, decoder, picture)
      <3> SUFFICES ASSUME bitmap.compressed, bitmap.bpp = 32, decoder.result = "error", bitmap.whole
                   PROVE  FALSE
        BY <1>3, KnownHeader
      <3>1. Following32(bitmap, decoder, picture)
        BY <1>3 DEF Follows
      <3> QED
        BY <3>1 DEF Following32, Decoder32
    <2>4. ~bitmap.compressed => decoder.result \in {"raw", "drawn"}
      BY <1>3 DEF Follows
    <2>5. decoder.result # "panic"
      BY <2>1, <2>2, <2>3, <2>4 DEF Following16, Following32, Decoder16, Decoder32
    <2>6. decoder.result = "error" =>
            IF bitmap.bpp = 16 THEN Len(picture.pixels) > bitmap.w * bitmap.h ELSE ~bitmap.whole
      <3> SUFFICES ASSUME decoder.result = "error"
                   PROVE  IF bitmap.bpp = 16 THEN Len(picture.pixels) > bitmap.w * bitmap.h ELSE ~bitmap.whole
        OBVIOUS
      <3>1. bitmap.compressed
        BY <2>1, <2>4
      <3>2. CASE bitmap.bpp = 16
        BY <2>2, <3>1, <3>2 DEF Following16
      <3>3. CASE bitmap.bpp = 32
        BY <2>3, <3>1, <3>3
      <3> QED
        BY <2>1, <3>2, <3>3
    <2>7. ASSUME Idle, bitmap.compressed, bitmap.bpp = 16, decoder.count = 0
          PROVE  \A n \in DOMAIN picture.pixels : decoder.out[Lower(bitmap, n)] = picture.pixels[n]
      <3>1. decoder.in = <<>> /\ decoder.result # "error"
        BY <2>7 DEF Idle
      <3>2. Following16(bitmap, decoder, picture)
        BY <2>2, <2>7
      <3>3. decoder.result = "more" \/ decoder.result = "drawn"
        BY <3>1, <3>2 DEF Following16, Decoder16
      <3>4. Drawn16(bitmap, decoder, picture, Len(picture.pixels))
        <4>1. CASE decoder.result = "more"
          BY <1>3, <2>7, <3>1, <3>2, <4>1, Phases
        <4>2. CASE decoder.result = "drawn"
          BY <3>2, <4>2 DEF Following16
        <4> QED
          BY <3>3, <4>1, <4>2
      <3> DEFINE N == Len(picture.pixels)
                 size == bitmap.w * bitmap.h
      <3>5. picture.pixels \in Seq(Word) /\ N \in Nat /\ DOMAIN picture.pixels = 1 .. N
        BY <3>2 DEF Following16, Picture16
      <3>6. size \in Nat /\ N <= size
        <4>1. \A x, y \in Nat : x * y \in Nat
          OBVIOUS
        <4>2. size \in Nat
          BY <2>1, <4>1
        <4> QED
          BY <3>4, <4>2 DEF Drawn16
      <3>7. \A m \in 1 .. size :
               decoder.out[Place(bitmap.w, bitmap.h, m)] = IF m <= N THEN picture.pixels[m] ELSE 0
        BY <3>4 DEF Drawn16, Faithful
      <3> HIDE DEF N, size
      <3> SUFFICES ASSUME NEW n \in 1 .. N PROVE decoder.out[Lower(bitmap, n)] = picture.pixels[n]
        BY <3>5
      <3>8. n \in 1 .. size /\ n <= N
        BY <3>5, <3>6
      <3> QED
        BY <3>7, <3>8, LowerIs
    <2>8. ASSUME Idle, bitmap.compressed, bitmap.bpp = 32
          PROVE  \A p \in 1 .. 4 : \A n \in DOMAIN picture.planes[p] :
                     decoder.out[p][Lower(bitmap, n)] = picture.planes[p][n]
      <3>1. decoder.in = <<>> /\ decoder.result # "error"
        BY <2>8 DEF Idle
      <3>2. Following32(bitmap, decoder, picture)
        BY <2>3, <2>8, <3>1
      <3>3. \A p \in 1 .. 4 : Len(picture.planes[p]) = DrawnOf(decoder, bitmap.w, bitmap.h, p)
        <4>1. ASSUME NEW s \in Segments, Unread(decoder, picture, bitmap.w, s[1], s[2]) PROVE FALSE
          <5>1. WellFormedSegment(s[1], s[2])
            BY WindowAssumption
          <5>2. decoder.row \in Nat
            BY <3>2 DEF Following32, Decoder32
          <5>3. PICK row \in Nat : row = decoder.row
            BY <5>2
          <5>4. PICK in : in = decoder.in
            OBVIOUS
          <5>5. in = SegmentBytes(row, s[1], s[2]) /\ Fresh(row, s[1])
            BY <4>1, <5>3, <5>4 DEF Unread
          <5>6. in # <<>>
            BY <5>1, <5>5, SegmentRead
          <5> QED
            BY <3>1, <5>4, <5>6
        <4>2. decoder.plane < 5 => Len(picture.planes[decoder.plane]) = DrawnOf(decoder, bitmap.w, bitmap.h, decoder.plane)
          BY <3>2, <4>1 DEF Following32
        <4>3. \A p \in 1 .. 4 : p # decoder.plane => Len(picture.planes[p]) = DrawnOf(decoder, bitmap.w, bitmap.h, p)
          BY <3>2 DEF Following32
        <4> QED
          BY <4>2, <4>3
      <3>4. FaithfulPlanes(decoder, picture, bitmap.w, bitmap.h) /\ picture.planes \in [1 .. 4 -> Seq(Byte)]
        BY <3>2 DEF Following32, Planes
      <3> SUFFICES ASSUME NEW p \in 1 .. 4, NEW n \in DOMAIN picture.planes[p]
                   PROVE  decoder.out[p][Lower(bitmap, n)] = picture.planes[p][n]
        OBVIOUS
      <3>5. n \in 1 .. DrawnOf(decoder, bitmap.w, bitmap.h, p)
        BY <3>3, <3>4
      <3>6. decoder.out[p][Place(bitmap.w, bitmap.h, n)] = picture.planes[p][n]
        BY <3>4, <3>5 DEF FaithfulPlanes
      <3> QED
        BY <3>6, LowerIs
    <2> QED
      BY <2>5, <2>6, <2>7, <2>8 DEF PaintsAsTold
  <1> QED
    BY <1>1, <1>2, <1>3 DEF Following

\* and what is shown.
LEMMA IInvDrawn == IInv => DrawnWhereItBelongs
  <1> SUFFICES ASSUME IInv PROVE DrawnWhereItBelongs
    OBVIOUS
  <1>1. bitmap # NoBitmap => decoder # NoBitmap
    <2>1. ASSUME bitmap # NoBitmap PROVE decoder # NoBitmap
      <3>1. bitmap \in Bitmaps /\ Follows(bitmap, decoder, picture)
        BY <2>1 DEF IInv, Following
      <3>2. bitmap.bpp \in {16, 32} /\ bitmap.compressed \in BOOLEAN
        BY <3>1, SomeBitmap
      <3>3. CASE bitmap.compressed /\ bitmap.bpp = 32 /\ decoder.result = "error"
        <4>1. "in" \notin DOMAIN NoBitmap
          BY DEF NoBitmap
        <4>2. "in" \in DOMAIN StartPlanes(bitmap.w, bitmap.h, FALSE)
          BY DEF StartPlanes
        <4>3. ASSUME Following32(bitmap, decoder, picture) PROVE "in" \in DOMAIN decoder
          BY <4>3 DEF Following32, Decoder32
        <4> QED
          BY <3>1, <3>3, <4>1, <4>2, <4>3, Zenon DEF Follows
      <3>4. CASE bitmap.compressed /\ bitmap.bpp = 32 /\ decoder.result # "error"
        BY <3>1, <3>4, KnownHeader DEF Following32, Decoder32, NoBitmap
      <3> QED
        BY <3>1, <3>2, <3>3, <3>4 DEF Follows, Following16, Decoder16, NoBitmap
    <2> QED
      BY <2>1
  <1>2. bitmap # NoBitmap /\ decoder.result = "drawn" => DrawnWhereItBelongs
    BY <1>1 DEF IInv, Shows
  <1> QED
    BY <1>2 DEF DrawnWhereItBelongs

\* What a decoder of rle.rs has drawn behind each order and each segment is what
\* the server painted, whatever the orders and segments are, and however they cross
\* the lines of whatever bitmap: rle_16_decompress and rle_32_decompress never
\* index outside the image, and fail only for an order that leaves it and for a
\* header that is not that of planes.
THEOREM PaintsAsToldHolds == Spec => []PaintsAsTold
  <1>1. Init => IInv
    BY IInvInit
  <1>2. IInv /\ [Next]_vars => IInv'
    BY IInvStep
  <1>3. IInv => PaintsAsTold
    BY IInvPaints
  <1> QED
    BY <1>1, <1>2, <1>3, PTL DEF Spec

\* BitmapEvent::decompress and fast_bitmap_transfer bring each pixel of every
\* bitmap that conforms to its line and column of every window, in the nearest
\* colour of 24 bits, and touch nothing else.
THEOREM DrawnWhereItBelongsHolds == Spec => []DrawnWhereItBelongs
  <1>1. Init => IInv
    BY IInvInit
  <1>2. IInv /\ [Next]_vars => IInv'
    BY IInvStep
  <1>3. IInv => DrawnWhereItBelongs
    BY IInvDrawn
  <1> QED
    BY <1>1, <1>2, <1>3, PTL DEF Spec

\* The loop of mstsc-rs keeps the server's mouse and keys in step with what it
\* saw, for every keyboard, as long as no button follows another directly.
THEOREM InputFollowsHolds == Spec => []InputFollows
  <1>1. Init => IInv
    BY IInvInit
  <1>2. IInv /\ [Next]_vars => IInv'
    BY IInvStep
  <1>3. IInv => InputFollows
    BY DEF IInv, InputInv
  <1> QED
    BY <1>1, <1>2, <1>3, PTL DEF Spec
=============================================================================
