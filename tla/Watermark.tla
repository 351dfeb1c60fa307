------------------------------ MODULE Watermark ------------------------------
(***************************************************************************)
(* The size createThumbnail gives a watermark                              *)
(* (src/src/uploader/pipelines/image.pipeline.ts:144-187), and why it fits *)
(* the size that the code computes for the resized image.  Sizes are       *)
(* pixels; a ratio is num/den, so that products and quotients are exact,   *)
(* as JavaScript's are for sizes an image can have.                        *)
(***************************************************************************)
EXTENDS Integers, TLAPS

Pixels == Nat \ {0}
Sizes == [width : Pixels, height : Pixels]
Ratios == [num : Nat, den : Pixels]

Floor(a, b) == a \div b
Ceil(a, b) == (a + b - 1) \div b

\* The size of the image scaled to the longer side of the wanted size.
FinalImage(image, wanted) ==
    IF image.width > image.height
    THEN [width  |-> wanted.width,
          height |-> Floor(wanted.width * image.height, image.width)]
    ELSE [width  |-> Floor(wanted.height * image.width, image.height),
          height |-> wanted.height]

\* The watermark at the ratio asked for, before it is made to fit.
Scaled(mark, final, ratio) ==
    LET width == Ceil(ratio.num * final.width, ratio.den)
    IN  [width |-> width, height |-> Ceil(width * mark.height, mark.width)]

FinalWatermark(mark, final, ratio) ==
    LET s == Scaled(mark, final, ratio)
    IN  IF s.width > final.width
        THEN [width  |-> final.width,
              height |-> Floor(final.width * mark.height, mark.width)]
        ELSE IF s.height > final.height
        THEN [width  |-> Floor(final.height * mark.width, mark.height),
              height |-> final.height]
        ELSE s

-----------------------------------------------------------------------------
\* Integer division by a positive number.
LEMMA Division ==
  ASSUME NEW a \in Nat, NEW b \in Pixels
  PROVE  /\ a \div b \in Nat
         /\ b * (a \div b) <= a
         /\ a < b * (a \div b) + b
  BY Z3 DEF Pixels

\* A quotient rounded down is below every bound its numerator respects.
LEMMA FloorBelow ==
  ASSUME NEW a \in Nat, NEW b \in Pixels, NEW n \in Nat, a <= n * b
  PROVE  Floor(a, b) \in Nat /\ Floor(a, b) <= n
<1>. DEFINE q == Floor(a, b)
<1>1. q \in Nat /\ b * q <= a
  BY Division DEF Floor
<1>2. ASSUME q > n PROVE FALSE
  <2>1. q >= n + 1
    BY <1>1, <1>2
  <2>2. b * q >= b * (n + 1)
    BY <1>1, <2>1, Z3 DEF Pixels
  <2>. QED  BY <1>1, <2>2, Z3 DEF Pixels
<1>. QED  BY <1>1, <1>2

\* A quotient rounded up respects a bound exactly if its numerator does.
LEMMA CeilBelow ==
  ASSUME NEW a \in Nat, NEW b \in Pixels, NEW n \in Nat
  PROVE  Ceil(a, b) \in Nat /\ (a <= n * b <=> Ceil(a, b) <= n)
<1>. DEFINE m == a + b - 1
            q == Ceil(a, b)
<1>1. m \in Nat /\ q \in Nat /\ b * q <= m /\ m < b * q + b
  <2>1. m \in Nat
    BY DEF Pixels
  <2>. QED  BY <2>1, Division DEF Ceil
<1>. HIDE DEF q
<1>2. ASSUME a <= n * b PROVE q <= n
  <2>1. b * q < (n + 1) * b
    BY <1>1, <1>2, Z3 DEF Pixels
  <2>. QED  BY <1>1, <2>1, Z3 DEF Pixels
<1>3. ASSUME q <= n PROVE a <= n * b
  <2>1. b * q <= b * n
    BY <1>1, <1>3, Z3 DEF Pixels
  <2>. QED  BY <1>1, <2>1, Z3 DEF Pixels
<1>. QED  BY <1>1, <1>2, <1>3 DEF q

\* The watermark createThumbnail composes is nowhere larger than the image it
\* computed, whatever the sizes and shapes of the two, as long as the ratio asked
\* for is at most 1: sharp refuses to compose anything larger, which would fail
\* the upload.  (Above 1 the height is not looked at again, line 177-181.)
THEOREM WatermarkFits ==
  ASSUME NEW image \in Sizes, NEW wanted \in Sizes, NEW mark \in Sizes,
         NEW ratio \in Ratios, ratio.num <= ratio.den
  PROVE  LET final == FinalImage(image, wanted)
             w == FinalWatermark(mark, final, ratio)
         IN  /\ w.width \in Nat /\ w.width <= final.width
             /\ w.height \in Nat /\ w.height <= final.height
<1>. DEFINE final == FinalImage(image, wanted)
            W == final.width
            H == final.height
            s == Scaled(mark, final, ratio)
<1>1. W \in Nat /\ H \in Nat
  <2>1. \A a \in Nat, b \in Pixels : Floor(a, b) \in Nat
    BY Division DEF Floor
  <2>2. /\ wanted.width * image.height \in Nat /\ wanted.height * image.width \in Nat
        /\ image.width \in Pixels /\ image.height \in Pixels
        /\ wanted.width \in Nat /\ wanted.height \in Nat
    BY DEF Sizes, Pixels
  <2>. QED  BY <2>1, <2>2 DEF FinalImage
<1>2. /\ mark.width \in Pixels /\ mark.height \in Pixels
      /\ ratio.num \in Nat /\ ratio.den \in Pixels
  BY DEF Sizes, Ratios
<1>. HIDE DEF final
<1>3. s.width \in Nat /\ s.width <= W
  <2>1. ratio.num * W \in Nat /\ ratio.num * W <= W * ratio.den
    BY <1>1, <1>2, Z3 DEF Pixels
  <2>. QED  BY <1>1, <1>2, <2>1, CeilBelow DEF Scaled
<1>4. s.height \in Nat /\ (s.width * mark.height <= H * mark.width <=> s.height <= H)
  <2>1. s.width * mark.height \in Nat
    BY <1>2, <1>3 DEF Pixels
  <2>2. s.height = Ceil(s.width * mark.height, mark.width)
    BY DEF Scaled
  <2>. HIDE DEF s
  <2>. QED  BY <1>1, <1>2, <2>1, <2>2, CeilBelow
<1>. DEFINE v == Floor(H * mark.width, mark.height)
<1>5. ASSUME s.height > H PROVE v \in Nat /\ v <= W
  <2>1. s.width * mark.height > H * mark.width
    <3>. HIDE DEF s
    <3>. QED  BY <1>1, <1>2, <1>3, <1>4, <1>5, Z3 DEF Pixels
  <2>2. s.width * mark.height <= W * mark.height
    <3>. HIDE DEF s
    <3>. QED  BY <1>1, <1>2, <1>3, Z3 DEF Pixels
  <2>3. H * mark.width \in Nat /\ H * mark.width <= W * mark.height
    <3>. HIDE DEF s
    <3>. QED  BY <1>1, <1>2, <1>3, <2>1, <2>2, Z3 DEF Pixels
  <2>. QED  BY <1>1, <1>2, <2>3, FloorBelow
<1>6. FinalWatermark(mark, final, ratio) =
        IF s.width > W
        THEN [width |-> W, height |-> Floor(W * mark.height, mark.width)]
        ELSE IF s.height > H THEN [width |-> v, height |-> H] ELSE s
  BY DEF FinalWatermark
<1>. HIDE DEF s, v
<1>. QED  BY <1>1, <1>3, <1>4, <1>5, <1>6 DEF final
=============================================================================
