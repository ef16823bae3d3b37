------------------------------ MODULE MCWindow ------------------------------
(* A window of 4 x 3 pixels, bitmaps of all kinds, and every kind of order.  *)
EXTENDS Window

Bitmap(w, h, bpp, compressed, left, top, right, bottom) ==
    [w |-> w, h |-> h, bpp |-> bpp, compressed |-> compressed, whole |-> TRUE,
     left |-> left, top |-> top, right |-> right, bottom |-> bottom]
Damaged(b) == [b EXCEPT !.whole = FALSE]
SmallBitmaps ==
    {Bitmap(3, 3, 16, TRUE, 1, 0, 3, 2),
     Bitmap(4, 2, 16, TRUE, 0, 1, 2, 2),      \* wider than its rectangle
     Bitmap(3, 2, 16, TRUE, 2, 0, 4, 1),      \* over the right side of the window
     Bitmap(4, 2, 32, TRUE, 0, 1, 3, 2),
     Bitmap(20, 2, 32, TRUE, 1, 0, 3, 1),     \* runs of 16 and more
     Bitmap(3, 3, 16, FALSE, 0, 0, 2, 2),
     Bitmap(4, 3, 16, FALSE, 0, 0, 3, 2),     \* its bytes exceed the small u16
     Bitmap(2, 2, 32, FALSE, 0, 1, 1, 2),
     Bitmap(2, 2, 32, FALSE, 0, 2, 1, 3),     \* under the window
     Damaged(Bitmap(4, 2, 32, TRUE, 0, 1, 3, 2)),
     Damaged(Bitmap(3, 3, 16, FALSE, 0, 0, 2, 2)),
     Damaged(Bitmap(4, 3, 16, FALSE, 0, 0, 3, 2))}

\* Opcode, count, long form, colours, masks.
AllOrders ==
    {Paints(0, 1, FALSE, <<>>, <<>>),  Paints(0, 2, FALSE, <<>>, <<>>),
     Paints(0, 3, TRUE, <<>>, <<>>),   Paints(0, 40, FALSE, <<>>, <<>>),
     Paints(1, 2, FALSE, <<>>, <<>>),  Paints(1, 4, TRUE, <<>>, <<>>),
     Paints(2, 4, FALSE, <<>>, <<5>>), Paints(2, 9, TRUE, <<>>, <<165, 1>>),
     Paints(2, 8, FALSE, <<>>, <<60>>), Paints(3, 2, FALSE, <<4660>>, <<>>),
     Paints(4, 2, FALSE, <<258, 772>>, <<>>), Paints(6, 1, FALSE, <<3855>>, <<>>),
     Paints(6, 2, TRUE, <<3855>>, <<>>), Paints(7, 3, FALSE, <<255>>, <<6>>),
     Paints(8, 2, FALSE, <<17, 34>>, <<>>), Paints(9, 8, FALSE, <<>>, <<>>),
     Paints(10, 8, FALSE, <<>>, <<>>), Paints(13, 1, FALSE, <<>>, <<>>),
     Paints(14, 1, FALSE, <<>>, <<>>)}
SomeSegments ==
    {<<<<5>>, 0>>, <<<<120, 7>>, 0>>, <<<<3>>, 3>>, <<<<-128>>, 0>>, <<<<-1>>, 3>>, <<<<>>, 3>>,
     <<<<>>, 4>>, <<<<>>, 16>>, <<<<>>, 19>>}
    \cup {<<<<p>>, 0>> : p \in 2..4}
=============================================================================
