------------------------------ MODULE IconImages ------------------------------
(* How an image of any size is drawn into a square icon: in proportion, its    *)
(* longer side filling the edge, in the middle.  The two copies of the          *)
(* algorithm, for the pixels of an X11 property and of a PNG file, give up      *)
(* when an index is out of range.                                               *)
EXTENDS Integers

CONSTANTS SmallEdge, LargeEdge  \* SMALL_ICON_EDGE and LARGE_ICON_EDGE

Positive == Nat \ {0}

Scaled(side, longer, edge) ==
  LET size == (side * edge) \div longer IN IF size = 0 THEN 1 ELSE size

ScaledWidth(width, height, edge) ==
  IF width >= height THEN edge ELSE Scaled(width, height, edge)

ScaledHeight(width, height, edge) ==
  IF width >= height THEN Scaled(height, width, edge) ELSE edge

Margin(edge, scaled) == (edge - scaled) \div 2

\* The row or column of the image that a row or column of the icon shows.
Shown(at, total, scaled) == (at * total) \div scaled

SourceIndex(x, y, width, height, edge) ==
  Shown(y, height, ScaledHeight(width, height, edge)) * width
    + Shown(x, width, ScaledWidth(width, height, edge))

TargetIndex(x, y, width, height, edge) ==
  (y + Margin(edge, ScaledHeight(width, height, edge))) * edge
    + x + Margin(edge, ScaledWidth(width, height, edge))

\* Whether an image with that many pixels becomes an icon.
Drawn(width, height, pixels, edge) ==
  /\ width # 0 /\ height # 0 /\ edge # 0
  /\ \A x \in 0..(ScaledWidth(width, height, edge) - 1),
        y \in 0..(ScaledHeight(width, height, edge) - 1) :
       /\ SourceIndex(x, y, width, height, edge) < pixels
       /\ TargetIndex(x, y, width, height, edge) < edge * edge

=============================================================================
