------------------------------ MODULE WindowIcons ------------------------------
(* The icons of a row of the Applications page on Windows: which of the five   *)
(* icons of a window and its class become the small and the large one, and how *)
(* an image with transparency is made of two drawings, over black and white.   *)
(* An image is the sequence of its pixels, a drawn pixel the record of its     *)
(* blue, green and red bytes (the fourth byte of a GDI surface is not used).    *)
EXTENDS Integers, Sequences

CONSTANT NoIcon  \* a null HICON

Byte == 0..255

(***************************************************************************)
(* The source of each icon                                                 *)
(***************************************************************************)
\* What WM_GETICON and the window class have to offer; a window that does not
\* answer in time offers nothing to WM_GETICON.
Offers(Icons) ==
  [{"small2", "big", "small", "class_small", "class_large"} -> Icons \cup {NoIcon}]

\* What is asked for: nothing of a hung window, and the rest only if needed.
Queried(offer, hung) ==
  LET small2 == IF hung THEN NoIcon ELSE offer["small2"]
      big    == IF hung THEN NoIcon ELSE offer["big"]
      small  == IF hung \/ (small2 # NoIcon /\ big # NoIcon) THEN NoIcon ELSE offer["small"]
  IN [small2 |-> small2, big |-> big, small |-> small,
      class_small |-> IF small2 = NoIcon /\ small = NoIcon THEN offer["class_small"] ELSE NoIcon,
      class_large |-> IF big = NoIcon THEN offer["class_large"] ELSE NoIcon]

FirstOf(icons) ==
  LET found == {i \in DOMAIN icons : icons[i] # NoIcon}
  IN IF found = {} THEN NoIcon
     ELSE icons[CHOOSE i \in found : \A j \in found : i <= j]

SmallSource(got) ==
  FirstOf(<<got.small2, got.small, got.big, got.class_small, got.class_large>>)

LargeSource(got) ==
  FirstOf(<<got.big, got.small, got.small2, got.class_large, got.class_small>>)

(***************************************************************************)
(* The image                                                               *)
(***************************************************************************)
\* DibSurface::new: a surface whose size in bytes fits 32 bits, none otherwise.
MaxBytes == 2^32 - 1
HasSurface(width, height) ==
  width \in Nat /\ height \in Nat /\ width * height * 4 <= MaxBytes

\* (external) DrawIconEx onto a background: a pixel of an icon has its colour
\* premultiplied by its opacity, and lets the rest of the background through.
Over(pixel, background) ==
  [channel \in {"blue", "green", "red"} |->
     pixel[channel] + (background * (255 - pixel.alpha)) \div 255]

Premultiplied ==
  {p \in [blue : Byte, green : Byte, red : Byte, alpha : Byte] :
     p.blue <= p.alpha /\ p.green <= p.alpha /\ p.red <= p.alpha}

Least(a, b) == IF a <= b THEN a ELSE b
SaturatingSub(a, b) == IF a >= b THEN a - b ELSE 0

\* recover_rgba_from_composites, for one pixel
Alpha(black, white) ==
  LET delta == SaturatingSub(white.blue, black.blue) + SaturatingSub(white.green, black.green)
                 + SaturatingSub(white.red, black.red)
  IN Least(SaturatingSub(255, (delta + 1) \div 3), 255)

Recover(channel, alpha) ==
  IF alpha = 0 THEN 0 ELSE Least((channel * 255 + alpha \div 2) \div alpha, 255)

RecoveredPixel(black, white) ==
  LET alpha == Alpha(black, white)
  IN [red |-> Recover(black.red, alpha), green |-> Recover(black.green, alpha),
      blue |-> Recover(black.blue, alpha), alpha |-> alpha]

RecoverRgba(black, white) ==
  [i \in 1..Len(black) |-> RecoveredPixel(black[i], white[i])]

\* encode_icon_png up to the encoder: the image, or none when there is no surface
\* or the sizes disagree.
Encodes(width, height, black, white) ==
  /\ HasSurface(width, height)
  /\ Len(black) = Len(white)
  /\ Len(RecoverRgba(black, white)) = width * height

-----------------------------------------------------------------------------
\* What is drawn of a recovered channel: the premultiplied value it stands for.
Blended(channel, alpha) == (channel * alpha + 127) \div 255

=============================================================================
