------------------------------- MODULE Margin -------------------------------
(* Dove::CalculcateMargin: the part of the output picture that is cut out    *)
(* and enlarged, so that pictures moved by up to the largest correction show *)
(* no border.  Quotients are those of C: they are cut off towards zero.      *)
EXTENDS Integers

CONSTANTS Width, Height,        \* p->dst_width, p->dst_height
          MinWidth, MinHeight   \* the smallest rectangle accepted

ASSUME MarginAssumption ==
    /\ {Width, Height, MinWidth, MinHeight} \subseteq Nat \ {0}
    /\ MinWidth =< Width /\ MinHeight =< Height

Abs(v) == IF v < 0 THEN -v ELSE v
Larger(v, w) == IF v < w THEN w ELSE v
Smaller(v, w) == IF v < w THEN v ELSE w
Quotient(v, d) == IF v < 0 THEN -((-v) \div d) ELSE v \div d

\* As high as w is wide, as wide as h is high, in the shape of the picture.
HeightFor(w) == Quotient(w * Height, Width)
WidthFor(h) == Quotient(h * Width, Height)

\* The corners: the near one is moved inwards until it has the picture's
\* shape, and so is the far one; then each pair is put in order.
Near(mx, my) == IF mx > WidthFor(my) THEN <<mx, HeightFor(mx)>>
                                     ELSE <<WidthFor(my), my>>
Far(mx, my) ==
    IF Width - mx < WidthFor(Height - my)
    THEN <<Width - mx, HeightFor(Width - mx)>>
    ELSE <<WidthFor(Height - my), Height - my>>

CalculcateMargin(mx, my) ==
    LET near == Near(mx, my)
        far  == Far(mx, my)
    IN [x |-> Smaller(near[1], far[1]), y |-> Smaller(near[2], far[2]),
        width  |-> Abs(far[1] - near[1]), height |-> Abs(far[2] - near[2])]

Accepted(mg) == /\ mg.x >= 0 /\ mg.y >= 0
                /\ mg.width >= MinWidth /\ mg.height >= MinHeight

\* A picture moved by at most mx to either side and my up or down covers mg.
Covers(mg, mx, my) == /\ mx =< mg.x /\ mg.x + mg.width =< Width - mx
                      /\ my =< mg.y /\ mg.y + mg.height =< Height - my

=============================================================================
