------------------------------- MODULE Resize -------------------------------
(***************************************************************************)
(* The C++ backend's thumbnail: fit_dimensions and the bilinear resize of  *)
(* interleaved 8-bit channels, in exact arithmetic.  A picture's pixels    *)
(* are a function on 0..(w * h * channels - 1).                            *)
(***************************************************************************)
EXTENDS Integers

CONSTANT MaxSize    \* thumbnail_max_size, of both sides

ASSUME SizeAssumption == MaxSize \in Nat \ {0}

AtLeastOne(n) == IF n < 1 THEN 1 ELSE n
Smaller(a, b) == IF a < b THEN a ELSE b

\* std::round(a / b) of a positive quotient.
Round(a, b) == (2 * a + b) \div (2 * b)

MutFitShorter(w, h) ==
    LET shorter == Smaller(w, h) IN
    IF w <= MaxSize /\ h <= MaxSize THEN <<w, h>>
    ELSE <<AtLeastOne(Round(w * MaxSize, shorter)), AtLeastOne(Round(h * MaxSize, shorter))>>

\* Both sides are scaled by MaxSize over the longer one.
fit_dimensions(w, h) ==
    LET longer == IF w > h THEN w ELSE h IN
    IF w <= MaxSize /\ h <= MaxSize THEN <<w, h>>
    ELSE <<AtLeastOne(Round(w * MaxSize, longer)), AtLeastOne(Round(h * MaxSize, longer))>>

\* The neighbour of row or column i among n: std::min(i + 1, n - 1).
Neighbour(i, n) == Smaller(i + 1, n - 1)

MutOffset(row, col, w, channels, chan) == row * w + col * channels + chan

\* Where a channel of a pixel lies.
Offset(row, col, w, channels, chan) == (row * w + col) * channels + chan

\* The source rows (or columns) of target row i, and the weight of the second in
\* units of 1/dst: static_cast<int>(i * src / dst), and what that cuts off.
First(i, src, dst) == (i * src) \div dst
Weight(i, src, dst) == (i * src) % dst

\* The four source bytes a target byte is interpolated from, with their weights.
Corners(src, dst, channels, x, y, chan) ==
    LET left == First(x, src[1], dst[1])      right == Neighbour(left, src[1])
        top == First(y, src[2], dst[2])       bottom == Neighbour(top, src[2])
        wx == Weight(x, src[1], dst[1])       wy == Weight(y, src[2], dst[2])
        at(row, col) == Offset(row, col, src[1], channels, chan)
    IN  << <<at(top, left), (dst[1] - wx) * (dst[2] - wy)>>,
           <<at(top, right), wx * (dst[2] - wy)>>,
           <<at(bottom, left), (dst[1] - wx) * wy>>,
           <<at(bottom, right), wx * wy>> >>

\* Outside the buffer there is no value: ChannelsApart says it is never asked for.
Byte(pixels, i) == IF i \in DOMAIN pixels THEN pixels[i] ELSE 0

\* The sum of the weighted bytes, cut off to a byte.
Interpolated(pixels, corners, unit) ==
    LET term(k) == Byte(pixels, corners[k][1]) * corners[k][2]
    IN  (term(1) + term(2) + term(3) + term(4)) \div unit

\* The argument checks of bilinear_resize_bytes.
Accepts(pixels, src, channels, dst) ==
    /\ channels \in {3, 4}
    /\ \A n \in {src[1], src[2], dst[1], dst[2]} : n > 0
    /\ DOMAIN pixels = 0..(src[1] * src[2] * channels - 1)

\* Which target byte i is: its column, row and channel.
Place(i, dst, channels) ==
    <<(i \div channels) % dst[1], (i \div channels) \div dst[1], i % channels>>

CornersOf(i, src, channels, dst) ==
    LET p == Place(i, dst, channels) IN Corners(src, dst, channels, p[1], p[2], p[3])

bilinear_resize_bytes(pixels, src, channels, dst) ==
    [i \in 0..(dst[1] * dst[2] * channels - 1) |->
        Interpolated(pixels, CornersOf(i, src, channels, dst), dst[1] * dst[2])]

\* _normalize_mode: grey values are repeated for red, green and blue, an alpha
\* channel is kept.  Pillow converts palettes and CMYK, which are not told apart here.
Normalized(p) ==
    LET grey == p.channels < 3
        channels == IF grey THEN p.channels + 2 ELSE p.channels
        source(i) == IF i % channels = 3 THEN 1 ELSE 0
    IN  IF ~grey THEN p
        ELSE [size |-> p.size, channels |-> channels,
              pixels |-> [i \in 0..(p.size[1] * p.size[2] * channels - 1) |->
                            p.pixels[(i \div channels) * p.channels + source(i)]]]
=============================================================================
