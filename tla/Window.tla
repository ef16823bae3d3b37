------------------------------- MODULE Window -------------------------------
(***************************************************************************)
(* The window of mstsc-rs: a bitmap of the server is decompressed          *)
(* (core/event.rs, codec/rle.rs) and copied into the buffer of the window, *)
(* and the mouse and the keys of the user become input events that the     *)
(* server follows.  The server paints as in Paint.                         *)
(***************************************************************************)
EXTENDS Paint, FiniteSets

CONSTANTS
    Width, Height,      \* of the window
    Bitmaps,            \* records: w, h, bpp, compressed, whole, left, top, right, bottom
    Orders,             \* the orders of a compressed 16 bit bitmap
    Segments,           \* pairs of a sequence and a number: the segments of the first plane
    MaxOrders,          \* bound: orders of a bitmap
    MaxSegments,        \* bound: segments of the first plane of a bitmap
    U16,                \* how many values the arithmetic of an uncompressed bitmap has
    Keys                \* keys of the keyboard

\* Bitmaps of both depths that the code knows, with a rectangle to go to.  One that
\* is not whole has another header than 0x10 in front of its planes, or lacks some
\* of its uncompressed pixels of 16 bits.
IsBitmap(b) ==
    /\ b.w \in Nat \ {0} /\ b.h \in Nat \ {0} /\ b.bpp \in {16, 32} /\ b.compressed \in BOOLEAN
    /\ b.left \in Nat /\ b.top \in Nat /\ b.right \in Nat /\ b.bottom \in Nat
    /\ b.left <= b.right /\ b.top <= b.bottom
    /\ b.whole \in BOOLEAN /\ (~b.whole => b.compressed = (b.bpp = 32))

ASSUME WindowAssumption ==
    /\ Width \in Nat \ {0} /\ Height \in Nat \ {0} /\ MaxOrders \in Nat /\ MaxSegments \in Nat
    /\ U16 \in Nat \ {0} /\ U16 % 2 = 0
    /\ \A b \in Bitmaps : IsBitmap(b)
    /\ \A o \in Orders : WellFormed(o)
    /\ \A s \in Segments : s = <<s[1], s[2]>> /\ WellFormedSegment(s[1], s[2])

VARIABLES
    bitmap,      \* the event under way, if any
    decoder,     \* the decoder of it
    picture,     \* what the server painted: a picture, or four planes
    orders,      \* how many orders, or segments of the first plane, it took
    buffer,      \* the buffer of the window
    gui,         \* the loop: "open", or how it ended
    mouse,       \* the buttons the user holds
    last_button, \* the button the loop saw last
    held,        \* the buttons the server believes are held
    direct,      \* the loop saw one button right after another
    keys,        \* the keys the user holds
    last_keys,   \* the keys the loop saw last
    held_keys    \* the keys the server believes are held

screen == <<bitmap, decoder, picture, orders, buffer>>
input == <<mouse, last_button, held, direct, keys, last_keys, held_keys>>
vars == <<screen, gui, input>>

NoBitmap == [w |-> 0]
NoButton == 0
Left == 1
Right == 2
Middle == 3
Buttons == {Left, Right, Middle}
Black == <<0, 0, 0, 0>>
-----------------------------------------------------------------------------
Init ==
    /\ bitmap = NoBitmap /\ decoder = NoBitmap /\ picture = NoPicture /\ orders = 0
    /\ buffer = [i \in 1..(Width * Height) |-> Black]
    /\ gui = "open"
    /\ mouse = {} /\ last_button = NoButton /\ held = {} /\ direct = FALSE
    /\ keys = {} /\ last_keys = {} /\ held_keys = {}

\* Bound: a bitmap arrives at a user who has not touched anything, and then the
\* user only watches.
Untouched == mouse = {} /\ last_button = NoButton /\ held = {} /\ ~direct
             /\ keys = {} /\ last_keys = {} /\ held_keys = {}

\* The server starts a bitmap: compressed ones are painted order by order, the
\* others have all of their pixels, each another.
Raw(b) == [i \in 1..(b.w * b.h) |-> IF b.bpp = 16 THEN (257 * i) % (Ones + 1) ELSE <<i % 256, i % 256, i % 256, 255>>]
Start(b) ==
    /\ bitmap = NoBitmap /\ gui = "open" /\ Untouched
    /\ bitmap' = b
    /\ decoder' = CASE b.bpp = 16 /\ b.compressed -> Start16(b.w, b.h)
                    [] b.bpp = 32 /\ b.compressed -> StartPlanes(b.w, b.h, b.whole)
                    [] OTHER -> [in |-> <<>>, result |-> "raw"]
    /\ picture' = CASE ~b.compressed -> [NoPicture EXCEPT !.pixels = Raw(b)]
                    [] b.compressed /\ b.bpp = 32 -> [planes |-> <<<<>>, <<>>, <<>>, <<>>>>, last |-> 0]
                    [] OTHER         -> NoPicture
    /\ UNCHANGED <<orders, buffer, gui, input>>

Asks(bpp) == bitmap # NoBitmap /\ bitmap.compressed /\ bitmap.bpp = bpp
             /\ decoder.result = "more" /\ decoder.in = <<>>

\* One more order, that may be too long for what is left of the bitmap.
SendOrder(o) ==
    /\ Asks(16) /\ decoder.count = 0 /\ orders < MaxOrders
    /\ orders' = orders + 1
    /\ decoder' = [decoder EXCEPT !.in = OrderBytes(o)]
    /\ picture' = Painted(picture, o, bitmap.w)
    /\ UNCHANGED <<bitmap, buffer, gui, input>>

ReadOrder ==
    /\ bitmap # NoBitmap /\ bitmap.bpp = 16 /\ decoder.result = "more"
    /\ decoder.in # <<>> /\ decoder.count = 0
    /\ decoder' = Order(decoder, bitmap.w)
    /\ UNCHANGED <<bitmap, picture, orders, buffer, gui, input>>
ReadPixel ==
    /\ bitmap # NoBitmap /\ bitmap.bpp = 16 /\ decoder.result = "more" /\ decoder.count > 0
    /\ decoder' = Pixel(decoder, bitmap.w)
    /\ UNCHANGED <<bitmap, picture, orders, buffer, gui, input>>

\* A segment that stays in its line.  Bound: in the planes behind the first a line
\* is one byte and its repetition.
Missing == bitmap.w - decoder.indexw
SendSegment(raw, n) ==
    LET p == decoder.plane
    IN  /\ Asks(32)
        /\ Len(raw) + n \in 1..Missing
        /\ p > 1 => IF decoder.indexw = 0 THEN raw = <<p>> /\ n = 0 ELSE raw = <<>> /\ n = Missing
        /\ p = 1 => orders < MaxSegments
        /\ orders' = IF p = 1 THEN orders + 1 ELSE orders
        /\ \A i \in DOMAIN raw : IF decoder.row = 0 THEN raw[i] >= 0 ELSE raw[i] < 128
        /\ decoder' = [decoder EXCEPT !.in = SegmentBytes(decoder.row, raw, n)]
        /\ picture' = [planes |-> [picture.planes EXCEPT ![p] = PaintedPlane(@, raw, n, picture.last, bitmap.w)],
                       last   |-> IF Len(raw) + n = Missing THEN 0
                                  ELSE IF raw = <<>> THEN picture.last ELSE raw[Len(raw)]]
        /\ UNCHANGED <<bitmap, buffer, gui, input>>
ReadSegment ==
    /\ bitmap # NoBitmap /\ bitmap.bpp = 32 /\ decoder.result = "more" /\ decoder.in # <<>>
    /\ decoder' = Segment(decoder, bitmap.w, bitmap.h)
    /\ UNCHANGED <<bitmap, picture, orders, buffer, gui, input>>
-----------------------------------------------------------------------------
\* BitmapEvent::decompress.  Uncompressed bitmaps of 16 bits are turned upside
\* down, in u16; those of 32 bits are taken as they are.
Upright(b, data) ==
    LET source(n) == ((((b.h - n \div b.w - 1) * b.w + (n % b.w)) * 2) % U16) \div 2
        target(k) == {n \in 0..(b.w * b.h - 1) : n % U16 = k - 1}
    IN  [k \in 1..(b.w * b.h) |->
           IF target(k) = {} THEN 0
           ELSE data[source(CHOOSE n \in target(k) : \A o \in target(k) : o <= n) + 1]]
Rgb(pixels) == [i \in DOMAIN pixels |-> Rgb32(pixels[i])]
Decompressed ==
    CASE bitmap.bpp = 16 /\ bitmap.compressed  -> Rgb(decoder.out)
      [] bitmap.bpp = 16 /\ ~bitmap.compressed -> Rgb(Upright(bitmap, picture.pixels))
      [] bitmap.bpp = 32 /\ bitmap.compressed  ->
             [i \in 1..(bitmap.w * bitmap.h) |-> [c \in 1..4 |-> decoder.out[5 - c][i]]]
      [] OTHER -> picture.pixels

\* A fault: the next line of the image follows the last pixel that was copied.
PackedRow(b, i) == i * (b.right - b.left + 1)
\* Where in the data line i of the image starts.
RowOf(b, i) == i * b.w

\* fast_bitmap_transfer: lines are copied until one does not fit.
Fits(b, data, i) ==
    LET count == b.right - b.left + 1
    IN  /\ (i + b.top) * Width + b.left + count <= Width * Height
        /\ RowOf(b, i) + count <= Len(data)
FittingRows(b, data) ==
    {i \in 0..(b.bottom - b.top) : \A j \in 0..i : Fits(b, data, j)}
Copied(b, data) ==
    LET count == b.right - b.left + 1
        at(k, i) == k - 1 - (i + b.top) * Width - b.left    \* place of k in line i
        rows(k) == {i \in FittingRows(b, data) : at(k, i) \in 0..(count - 1)}
        row(k) == CHOOSE i \in rows(k) : \A j \in rows(k) : j <= i
    IN  [k \in DOMAIN buffer |->
           IF rows(k) = {} THEN buffer[k] ELSE data[RowOf(b, row(k)) + at(k, row(k)) + 1]]

\* The server ends the bitmap, and the loop decompresses and copies it; whatever
\* fails ends the loop.  Numbers that do not fit u16 panic or wrap, an index past
\* the data panics; one that wraps may stay inside.
Overflows(b) == b.bpp = 16 /\ ~b.compressed /\ 2 * b.w * b.h > U16
TooShort(b) == b.bpp = 16 /\ ~b.whole
Unfinished(b) == b.bpp = 32 /\ decoder.result = "more"
Draw ==
    /\ bitmap # NoBitmap /\ gui = "open" /\ decoder.result # "drawn"
    /\ decoder.result = "more" => decoder.in = <<>> /\ (bitmap.bpp = 16 => decoder.count = 0)
    /\ IF decoder.result \in {"error", "panic"} \/ Unfinished(bitmap)
       THEN gui' = "failed" /\ UNCHANGED <<decoder, buffer>>
       ELSE \/ /\ TooShort(bitmap) => Overflows(bitmap)
               /\ buffer' = Copied(bitmap, Decompressed)
               /\ gui' = IF Cardinality(FittingRows(bitmap, Decompressed)) = bitmap.bottom - bitmap.top + 1
                         THEN "open" ELSE "failed"
               /\ decoder' = [decoder EXCEPT !.result = "drawn"]
            \/ /\ Overflows(bitmap) \/ TooShort(bitmap)
               /\ gui' = "panic" /\ UNCHANGED <<decoder, buffer>>
    /\ UNCHANGED <<bitmap, picture, orders, input>>
-----------------------------------------------------------------------------
\* The user.
Watching == bitmap = NoBitmap
Press(b) == Watching /\ mouse' = (mouse \ {b}) \cup ({b} \ mouse)
            /\ UNCHANGED <<screen, gui, last_button, held, direct, keys, last_keys, held_keys>>
Type(k) == Watching /\ keys' = (keys \ {k}) \cup ({k} \ keys)
           /\ UNCHANGED <<screen, gui, mouse, last_button, held, direct, last_keys, held_keys>>

\* get_rdp_pointer_down: the first button that is down.
get_rdp_pointer_down ==
    CASE Left \in mouse   -> Left    [] Middle \in mouse -> Middle
      [] Right \in mouse  -> Right   [] OTHER            -> NoButton

\* A fault: a press is a change to no button.
DownLate(last, current) == last # current /\ current = NoButton
\* Whether the event of a change is a press, and its button: the two or-ed.
Down(last, current) == last # current /\ last = NoButton
Changed(last, current) == IF last = current THEN NoButton ELSE Or(last, current)

\* One turn of the loop for the mouse: RdpClient::write makes flags of the event
\* and the server follows them.
MouseInput ==
    LET current == get_rdp_pointer_down
        button == Changed(last_button, current)
    IN  /\ Watching
        /\ last_button' = current
        /\ held' = IF button = NoButton THEN held
                   ELSE IF Down(last_button, current) THEN held \cup {button} ELSE held \ {button}
        /\ direct' = (direct \/ (current # last_button /\ NoButton \notin {current, last_button}))
        /\ UNCHANGED <<screen, gui, mouse, keys, last_keys, held_keys>>

\* And for the keys: releases first, then the pressed and the repeated ones.
KeyInput ==
    /\ Watching
    /\ \E repeated \in SUBSET (keys \cap last_keys) :
          held_keys' = (held_keys \ (last_keys \ keys)) \cup (keys \ last_keys) \cup repeated
    /\ last_keys' = keys
    /\ UNCHANGED <<screen, gui, mouse, last_button, held, direct, keys>>
-----------------------------------------------------------------------------
Next ==
    \/ \E b \in Bitmaps : Start(b)
    \/ \E o \in Orders : SendOrder(o)
    \/ \E s \in Segments : SendSegment(s[1], s[2])
    \/ ReadOrder \/ ReadPixel \/ ReadSegment \/ Draw
    \/ \E b \in Buttons : Press(b)
    \/ \E k \in Keys : Type(k)
    \/ MouseInput \/ KeyInput

Spec == Init /\ [][Next]_vars
-----------------------------------------------------------------------------
Idle == bitmap # NoBitmap /\ decoder.in = <<>> /\ decoder.result # "error" /\ decoder.result # "panic"
Lower(b, n) == (b.h - (n - 1) \div b.w - 1) * b.w + ((n - 1) % b.w) + 1   \* place of pixel n of a picture

\* What a decoder has drawn after each order is what the server has painted, each
\* pixel in its line and column: foreground pixels between background runs, masks,
\* lines that an order crosses, differences to the line below (rle.rs:10, 133).
\* Only an order that leaves the bitmap and an unknown header of planes are errors.
PaintsAsTold ==
    /\ Idle /\ bitmap.compressed /\ bitmap.bpp = 16 /\ decoder.count = 0 =>
          \A n \in DOMAIN picture.pixels : decoder.out[Lower(bitmap, n)] = picture.pixels[n]
    /\ Idle /\ bitmap.compressed /\ bitmap.bpp = 32 =>
          \A p \in 1..4 : \A n \in DOMAIN picture.planes[p] :
              decoder.out[p][Lower(bitmap, n)] = picture.planes[p][n]
    /\ bitmap # NoBitmap /\ decoder.result = "error" =>
          IF bitmap.bpp = 16 THEN Len(picture.pixels) > bitmap.w * bitmap.h ELSE ~bitmap.whole
    /\ decoder # NoBitmap => decoder.result # "panic"

\* Pixels as the window shows them.
Nearest(v, max) == (510 * v + max) \div (2 * max)
Shown16(v) == <<Nearest(v % 32, 31), Nearest((v \div 32) % 64, 63), Nearest(v \div 2048, 31), 255>>
Shown(n) ==
    IF bitmap.bpp = 16 THEN Shown16(IF n \in DOMAIN picture.pixels THEN picture.pixels[n] ELSE 0)
    ELSE <<picture.planes[4][n], picture.planes[3][n], picture.planes[2][n], picture.planes[1][n]>>

\* Bitmaps a server may send: they stay in the window and in their own data.
Conforming(b) ==
    /\ b.right < Width /\ b.bottom < Height
    /\ b.right - b.left < b.w /\ b.bottom - b.top < b.h
\* A conforming bitmap is drawn, and the pixel in line i and column j of its
\* rectangle is the one the server painted there, the first line on top; nothing
\* else of the window changes.  Not so for the uncompressed ones of 32 bits, which
\* are taken upside down, and those that overflow u16 (event.rs:62, mstsc-rs.rs:96).
DrawnWhereItBelongs ==
    /\ bitmap # NoBitmap /\ decoder.result = "drawn" /\ Conforming(bitmap)
    /\ (bitmap.compressed \/ bitmap.bpp = 16) /\ ~Overflows(bitmap)
    => /\ gui = "open"
       /\ \A i \in 0..(Height - 1), j \in 0..(Width - 1) :
            buffer[i * Width + j + 1] =
                IF i \in bitmap.top..bitmap.bottom /\ j \in bitmap.left..bitmap.right
                THEN Shown(Lower(bitmap, (i - bitmap.top) * bitmap.w + (j - bitmap.left) + 1))
                ELSE Black

\* As long as one button never follows another without a moment between them that
\* the loop sees, the server holds the button the loop saw last, and it always
\* holds the keys the loop saw last (mstsc-rs.rs:407, client.rs:90).
InputFollows ==
    /\ ~direct => held = {last_button} \ {NoButton}
    /\ held_keys = last_keys
=============================================================================
