------------------------- MODULE UploadedFileProofs -------------------------
(***************************************************************************)
(* Proofs about UploadedFile.                                              *)
(***************************************************************************)
EXTENDS UploadedFile, WellFoundedInduction, SequenceTheorems, TLAPS

LEMMA Quotient ==
    ASSUME NEW a \in Nat, NEW b \in Nat \ {0}
    PROVE  /\ a \div b \in Nat
           /\ b * (a \div b) <= a
           /\ a < b * (a \div b) + b
  BY SMT

LEMMA Grows ==
    ASSUME NEW a \in Nat, NEW b \in Nat, NEW c \in Nat, a <= b
    PROVE  a * c <= b * c /\ c * a <= c * b
  BY SMT

LEMMA Rounds ==
    ASSUME NEW a \in Nat, NEW b \in Nat \ {0}
    PROVE  /\ Round(a, b) \in Nat
           /\ 2 * (b * Round(a, b)) <= 2 * a + b
           /\ 2 * a < 2 * (b * Round(a, b)) + b
<1>1. PICK n \in Nat : n = 2 * a + b
  OBVIOUS
<1>2. PICK d \in Nat \ {0} : d = 2 * b
  OBVIOUS
<1>3. PICK q \in Nat : q = n \div d
  BY Quotient
<1>4. d * q <= n /\ n < d * q + d
  BY <1>3, Quotient
<1>5. Round(a, b) = q
  BY <1>1, <1>2, <1>3 DEF Round
<1>6. d * q = 2 * (b * q) /\ b * q \in Nat
  BY <1>2
<1> QED
  BY <1>1, <1>2, <1>4, <1>5, <1>6

\* The side that is scaled by MaxSize over the longer one stays within the box.
LEMMA Shrinks ==
    ASSUME NEW w \in Nat \ {0}, NEW longer \in Nat \ {0}, w <= longer
    PROVE  /\ Round(w * MaxSize, longer) \in 0..MaxSize
           /\ w = longer => Round(w * MaxSize, longer) = MaxSize
<1>1. MaxSize \in Nat \ {0}
  BY SizeAssumption
<1>2. PICK a \in Nat : a = w * MaxSize
  BY <1>1
<1>3. PICK m \in Nat : m = longer * MaxSize
  BY <1>1
<1>4. a <= m
  BY <1>1, <1>2, <1>3, Grows
<1>5. PICK q \in Nat : q = Round(a, longer)
  BY Rounds
<1>6. PICK x \in Nat : x = longer * q
  OBVIOUS
<1>7. 2 * x <= 2 * a + longer /\ 2 * a < 2 * x + longer
  BY <1>5, <1>6, Rounds
<1>8. q <= MaxSize
  <2> SUFFICES ASSUME MaxSize + 1 <= q PROVE FALSE
    BY <1>1
  <2>1. longer * (MaxSize + 1) <= x
    BY <1>1, <1>6, Grows
  <2>2. longer * (MaxSize + 1) = m + longer
    BY <1>1, <1>3
  <2> QED
    BY <1>4, <1>7, <2>1, <2>2
<1>9. w = longer => MaxSize <= q
  <2> SUFFICES ASSUME w = longer, q + 1 <= MaxSize PROVE FALSE
    BY <1>1
  <2>1. longer * (q + 1) <= m
    BY <1>1, <1>3, Grows
  <2>2. longer * (q + 1) = x + longer
    BY <1>6
  <2>3. a = m
    BY <1>2, <1>3
  <2> QED
    BY <1>7, <2>1, <2>2, <2>3
<1> QED
  BY <1>1, <1>2, <1>5, <1>8, <1>9

Longer(w, h) == IF w > h THEN w ELSE h

\* The products a and b differ by at most half of the longer side.
Near(a, b, longer) == 2 * (a - b) <= longer /\ 2 * (b - a) <= longer

\* The shorter side is the nearest whole number of pixels, or one.
LEMMA Scales ==
    ASSUME NEW w \in Nat \ {0}, NEW longer \in Nat \ {0}, w <= longer
    PROVE  LET side == AtLeastOne(Round(w * MaxSize, longer)) IN
           /\ side \in 1..MaxSize
           /\ w = longer => side = MaxSize
           /\ side = 1 \/ Near(side * longer, MaxSize * w, longer)
           /\ side = 1 \/ Near(MaxSize * w, side * longer, longer)
<1>1. MaxSize \in Nat \ {0}
  BY SizeAssumption
<1>2. PICK a \in Nat : a = w * MaxSize
  BY <1>1
<1>3. PICK q \in Nat : q = Round(a, longer)
  BY Rounds
<1>4. q \in 0..MaxSize /\ (w = longer => q = MaxSize)
  BY <1>2, <1>3, Shrinks
<1>5. PICK x \in Nat : x = longer * q
  OBVIOUS
<1>6. 2 * x <= 2 * a + longer /\ 2 * a < 2 * x + longer
  BY <1>3, <1>5, Rounds
<1>7. Near(x, a, longer) /\ Near(a, x, longer)
  BY <1>6 DEF Near
<1>8. MaxSize * w = a /\ q * longer = x
  BY <1>1, <1>2, <1>5
<1>9. PICK side : side = AtLeastOne(Round(w * MaxSize, longer))
  OBVIOUS
<1>10. side = IF q < 1 THEN 1 ELSE q
  BY <1>2, <1>3, <1>9 DEF AtLeastOne
<1>11. side \in 1..MaxSize /\ (w = longer => side = MaxSize) /\ (side = 1 \/ side = q)
  BY <1>1, <1>4, <1>10
<1> QED
  BY <1>7, <1>8, <1>9, <1>11

\* fit_dimensions keeps what fits and shrinks the rest to touch the box.
LEMMA Fits ==
    ASSUME NEW w \in Nat \ {0}, NEW h \in Nat \ {0}
    PROVE  LET d == fit_dimensions(w, h) IN
           /\ Longer(w, h) <= MaxSize => d = <<w, h>>
           /\ Longer(w, h) > MaxSize =>
                \E tw, th \in 1..MaxSize :
                    /\ d = <<tw, th>>
                    /\ MaxSize \in {tw, th}
                    /\ Near(tw * h, th * w, Longer(w, h)) \/ 1 \in {tw, th}
<1>1. MaxSize \in Nat \ {0}
  BY SizeAssumption
<1>2. CASE Longer(w, h) <= MaxSize
  <2>1. w <= MaxSize /\ h <= MaxSize
    BY <1>1, <1>2 DEF Longer
  <2> QED
    BY <1>1, <1>2, <2>1 DEF fit_dimensions, Longer
<1>3. CASE Longer(w, h) > MaxSize
  <2>1. PICK longer \in Nat \ {0} : longer = Longer(w, h)
    BY DEF Longer
  <2>2. w <= longer /\ h <= longer /\ longer \in {w, h} /\ ~(w <= MaxSize /\ h <= MaxSize)
    BY <1>1, <1>3, <2>1 DEF Longer
  <2>3. PICK tw : tw = AtLeastOne(Round(w * MaxSize, longer))
    OBVIOUS
  <2>4. PICK th : th = AtLeastOne(Round(h * MaxSize, longer))
    OBVIOUS
  <2>5. fit_dimensions(w, h) = <<tw, th>>
    BY <2>1, <2>2, <2>3, <2>4 DEF fit_dimensions, Longer
  <2>6. /\ tw \in 1..MaxSize /\ (w = longer => tw = MaxSize)
        /\ tw = 1 \/ Near(tw * longer, MaxSize * w, longer)
    BY <2>2, <2>3, Scales
  <2>7. /\ th \in 1..MaxSize /\ (h = longer => th = MaxSize)
        /\ th = 1 \/ Near(MaxSize * h, th * longer, longer)
    BY <2>2, <2>4, Scales
  <2>8. MaxSize \in {tw, th}
    BY <2>2, <2>6, <2>7
  <2>9. Near(tw * h, th * w, longer) \/ 1 \in {tw, th}
    <3>1. CASE w = longer
      BY <2>6, <2>7, <3>1
    <3>2. CASE h = longer
      BY <2>6, <2>7, <3>2
    <3> QED
      BY <2>2, <3>1, <3>2
  <2> QED
    BY <1>1, <1>3, <2>1, <2>5, <2>6, <2>7, <2>8, <2>9
<1> QED
  BY <1>1, <1>2, <1>3 DEF Longer

\* _normalize_mode leaves the size and yields three or four channels.
LEMMA Normalizes ==
    ASSUME NEW p, IsPicture(p)
    PROVE  /\ Normalized(p).size = p.size
           /\ Normalized(p).channels \in {3, 4}
           /\ DOMAIN Normalized(p).pixels =
                  0..(p.size[1] * p.size[2] * Normalized(p).channels - 1)
<1>1. CASE p.channels < 3
  BY <1>1 DEF Normalized, IsPicture
<1>2. CASE ~(p.channels < 3)
  BY <1>2 DEF Normalized, IsPicture
<1> QED
  BY <1>1, <1>2

\* The size of the thumbnail is what fit_dimensions says of the picture.
FileInv ==
    /\ IsPicture(file.picture)
    /\ stage \in {"received", "stored", "unstorable", "scaled", "done", "failed"}
    /\ stage \in {"scaled", "done", "failed"} => thumb = Thumbnail(Normalized(file.picture))

\* bilinear_resize_bytes accepts every picture that does not fit.
LEMMA NeverRefused ==
    ASSUME NEW p, IsPicture(p)
    PROVE  LET n == Normalized(p)
               d == fit_dimensions(n.size[1], n.size[2])
           IN  d = n.size \/ Accepts(n.pixels, n.size, n.channels, d)
<1>1. PICK n : n = Normalized(p)
  OBVIOUS
<1>2. /\ n.size = p.size /\ n.channels \in {3, 4}
      /\ DOMAIN n.pixels = 0..(n.size[1] * n.size[2] * n.channels - 1)
  BY <1>1, Normalizes
<1>3. PICK w \in Nat \ {0}, h \in Nat \ {0} : n.size = <<w, h>>
  BY <1>2 DEF IsPicture
<1>4. PICK d : d = fit_dimensions(w, h)
  OBVIOUS
<1>5. CASE Longer(w, h) <= MaxSize
  BY <1>1, <1>3, <1>4, <1>5, Fits
<1>6. CASE Longer(w, h) > MaxSize
  <2>1. PICK tw \in 1..MaxSize, th \in 1..MaxSize : d = <<tw, th>>
    BY <1>4, <1>6, Fits
  <2>2. \A k \in {n.size[1], n.size[2], d[1], d[2]} : k > 0
    BY <1>3, <2>1, SizeAssumption
  <2>3. Accepts(n.pixels, n.size, n.channels, d)
    BY <1>2, <2>2 DEF Accepts
  <2> QED
    BY <1>1, <1>3, <1>4, <2>3
<1> QED
  BY <1>5, <1>6, SizeAssumption DEF Longer

LEMMA FileAlways == Spec => []FileInv
<1>1. Init => FileInv
  BY PictureAssumption DEF Init, FileInv
<1>2. FileInv /\ [Next]_vars => FileInv'
  <2> SUFFICES ASSUME FileInv, [Next]_vars PROVE FileInv'
    OBVIOUS
  <2>1. CASE Upload
    BY <2>1 DEF Upload, FileInv
  <2>2. CASE Scale
    <3>1. stage' = "scaled" /\ thumb' = Thumbnail(Normalized(file.picture)) /\ UNCHANGED file
      BY <2>2, NeverRefused DEF Scale, FileInv
    <3> QED
      BY <3>1 DEF FileInv
  <2>3. CASE StoreThumbnail
    BY <2>3 DEF StoreThumbnail, FileInv
  <2>4. CASE UNCHANGED vars
    BY <2>4 DEF vars, FileInv
  <2> QED
    BY <2>1, <2>2, <2>3, <2>4 DEF Next
<1> QED
  BY <1>1, <1>2, PTL DEF Spec

\* fast_resize.cpp:275, for every picture and every box: the resize is never refused,
\* a picture that fits keeps its size, and any other is shrunk to lie within the box,
\* to touch it and to keep its ratio as closely as whole pixels allow.
THEOREM ThumbnailsFit == Spec => []FitsBox
<1>1. FileInv => FitsBox
  <2> SUFFICES ASSUME FileInv, stage \in {"scaled", "done", "failed", "refused"}
               PROVE  FitsBox
    BY DEF FitsBox
  <2>1. PICK p : p = file.picture
    OBVIOUS
  <2>2. PICK n : n = Normalized(p)
    OBVIOUS
  <2>3. IsPicture(p) /\ thumb = Thumbnail(n)
    BY <2>1, <2>2 DEF FileInv
  <2>4. n.size = p.size
    BY <2>2, <2>3, Normalizes
  <2>5. PICK w \in Nat \ {0}, h \in Nat \ {0} : p.size = <<w, h>>
    BY <2>3 DEF IsPicture
  <2>6. thumb.size = fit_dimensions(w, h)
    BY <2>3, <2>4, <2>5 DEF Thumbnail
  <2>7. CASE Longer(w, h) <= MaxSize
    <3>1. thumb.size = <<w, h>>
      BY <2>6, <2>7, Fits
    <3> QED
      BY <2>1, <2>5, <2>7, <3>1 DEF FitsBox, Longer
  <2>8. CASE Longer(w, h) > MaxSize
    <3>1. PICK tw \in 1..MaxSize, th \in 1..MaxSize :
             /\ thumb.size = <<tw, th>>
             /\ MaxSize \in {tw, th}
             /\ Near(tw * h, th * w, Longer(w, h)) \/ 1 \in {tw, th}
      BY <2>6, <2>8, Fits
    <3>2. PICK longer \in Nat : longer = Longer(w, h) /\ ~(longer <= MaxSize)
      BY <2>8, SizeAssumption DEF Longer
    <3> QED
      BY <2>1, <2>5, <3>1, <3>2 DEF FitsBox, Longer, Near
  <2> QED
    BY <2>7, <2>8, SizeAssumption DEF Longer
<1> QED
  BY <1>1, FileAlways, PTL

-----------------------------------------------------------------------------
(* Pixels.                                                                 *)

LEMMA LeastNatural ==
    ASSUME NEW T \in SUBSET Nat, T # {}
    PROVE  \E x \in T : \A y \in T : x <= y
<1>1. PICK R : R = OpToRel(<, Nat)
  OBVIOUS
<1>2. PICK x \in T : \A y \in T : ~(<<y, x>> \in R)
  BY <1>1, NatLessThanWellFounded, WFMin
<1>3. \A y \in T : y < x => <<y, x>> \in R
  BY <1>1 DEF OpToRel
<1>4. \A y \in T : ~(y < x)
  BY <1>2, <1>3, Zenon
<1>5. \A y \in T : y \in Nat
  OBVIOUS
<1> QED
  BY <1>4, <1>5

\* A set of numbers up to a bound has a least and a greatest member.
LEMMA Bounds ==
    ASSUME NEW l \in Nat, NEW T \in SUBSET (0..l), T # {}
    PROVE  /\ Min(T) \in T /\ \A y \in T : Min(T) <= y
           /\ Max(T) \in T /\ \A y \in T : y <= Max(T)
<1>1. \E x \in T : \A y \in T : x =< y
  <2>1. T \in SUBSET Nat
    OBVIOUS
  <2> QED
    BY <2>1, LeastNatural
<1>2. \E x \in T : \A y \in T : x >= y
  <2>1. PICK U : U = {l - t : t \in T}
    OBVIOUS
  <2>2. U \in SUBSET Nat /\ U # {}
    <3>1. \A t \in T : l - t \in Nat
      OBVIOUS
    <3> QED
      BY <2>1, <3>1, ZenonT(60)
  <2>3. PICK u \in U : \A v \in U : u <= v
    BY <2>2, LeastNatural
  <2>4. PICK x \in T : u = l - x
    BY <2>1
  <2>5. \A y \in T : l - x <= l - y
    BY <2>1, <2>3, <2>4, ZenonT(60)
  <2> QED
    BY <2>5
<1>3. Min(T) \in T /\ \A y \in T : Min(T) =< y
  BY <1>1, Zenon DEF Min
<1>4. Max(T) \in T /\ \A y \in T : Max(T) >= y
  BY <1>2, Zenon DEF Max
<1> QED
  BY <1>3, <1>4

\* A set of bytes has a least and a greatest member.
LEMMA Extremes ==
    ASSUME NEW T \in SUBSET (0..255), T # {}
    PROVE  /\ Min(T) \in T /\ \A y \in T : Min(T) <= y
           /\ Max(T) \in T /\ \A y \in T : y <= Max(T)
<1>1. 255 \in Nat
  OBVIOUS
<1> QED
  BY <1>1, Bounds, Zenon

LEMMA Remainder ==
    ASSUME NEW a \in Nat, NEW b \in Nat \ {0}, NEW q, NEW r, q = a \div b, r = a % b
    PROVE  q \in Nat /\ r \in 0..(b - 1) /\ a = b * q + r
<1>1. r \in 0..(b - 1) /\ q \in Nat
  BY Quotient
<1>2. a % b = a - b * (a \div b)
  OBVIOUS
<1>3. PICK x \in Nat : x = b * q
  BY <1>1
<1>4. r = a - x
  BY <1>2, <1>3
<1>5. a = x + r
  BY <1>1, <1>4
<1> QED
  BY <1>1, <1>3, <1>5

\* The quotient of a number below b * n.
LEMMA QuotientBelow ==
    ASSUME NEW a \in Nat, NEW b \in Nat \ {0}, NEW n \in Nat, a < b * n
    PROVE  a \div b \in Nat /\ a \div b < n
<1>1. PICK q \in Nat : q = a \div b
  BY Quotient
<1>2. b * q <= a
  BY <1>1, Quotient
<1>3. n <= q => b * n <= b * q
  BY Grows
<1>4. b * n \in Nat /\ b * q \in Nat
  OBVIOUS
<1> QED
  BY <1>1, <1>2, <1>3, <1>4

\* A number is its quotient and its remainder in one way.
LEMMA RemainderUnique ==
    ASSUME NEW k \in Nat, NEW b \in Nat \ {0}, NEW c \in 0..(b - 1)
    PROVE  (k * b + c) % b = c
<1>1. PICK a \in Nat : a = k * b + c
  OBVIOUS
<1>2. PICK q \in Nat : q = a \div b
  BY Quotient
<1>3. PICK r \in 0..(b - 1) : r = a % b
  BY Remainder
<1>4. a = b * q + r
  BY <1>2, <1>3, Remainder
<1>5. CASE q = k
  BY <1>1, <1>3, <1>4, <1>5
<1>6. CASE q + 1 <= k
  <2>1. b * (q + 1) <= b * k
    BY <1>6, Grows
  <2>2. b * (q + 1) = b * q + b /\ b * k = k * b
    OBVIOUS
  <2> QED
    BY <1>1, <1>4, <2>1, <2>2
<1>7. CASE k + 1 <= q
  <2>1. b * (k + 1) <= b * q
    BY <1>7, Grows
  <2>2. b * (k + 1) = b * k + b /\ b * k = k * b
    OBVIOUS
  <2> QED
    BY <1>1, <1>4, <2>1, <2>2
<1> QED
  BY <1>5, <1>6, <1>7

\* The column, the row and the channel of a target byte.
LEMMA Places ==
    ASSUME NEW tw \in Nat \ {0}, NEW th \in Nat \ {0}, NEW channels \in Nat \ {0},
           NEW i \in 0..(tw * th * channels - 1)
    PROVE  LET p == Place(i, <<tw, th>>, channels) IN
           p[1] \in 0..(tw - 1) /\ p[2] \in 0..(th - 1) /\ p[3] \in 0..(channels - 1)
<1>1. PICK n \in Nat : n = tw * th
  OBVIOUS
<1>2. i \in Nat /\ i < channels * n
  <2>1. tw * th * channels = n * channels /\ n * channels = channels * n /\ n * channels \in Nat
    BY <1>1
  <2> QED
    BY <2>1
<1>3. PICK j \in Nat : j = i \div channels
  BY <1>2, Quotient
<1>4. j < tw * th
  BY <1>1, <1>2, <1>3, QuotientBelow
<1>5. j % tw \in 0..(tw - 1) /\ j \div tw \in 0..(th - 1)
  <2>1. j % tw \in 0..(tw - 1)
    BY Remainder
  <2>2. j \div tw \in Nat /\ j \div tw < th
    BY <1>4, QuotientBelow
  <2> QED
    BY <2>1, <2>2
<1>6. i % channels \in 0..(channels - 1)
  BY <1>2, Remainder
<1> QED
  BY <1>3, <1>5, <1>6 DEF Place

\* The source rows or columns of a target one lie within the source.
LEMMA Firsts ==
    ASSUME NEW src \in Nat \ {0}, NEW dst \in Nat \ {0}, NEW i \in 0..(dst - 1)
    PROVE  /\ First(i, src, dst) \in 0..(src - 1)
           /\ Neighbour(First(i, src, dst), src) \in 0..(src - 1)
           /\ Weight(i, src, dst) \in 0..(dst - 1)
<1>1. PICK a \in Nat : a = i * src
  OBVIOUS
<1>2. a < dst * src
  <2>1. i + 1 \in Nat /\ (i + 1) * src <= dst * src
    BY Grows
  <2>2. (i + 1) * src = a + src
    BY <1>1
  <2> QED
    BY <2>1, <2>2
<1>3. PICK q \in Nat : q = First(i, src, dst)
  BY <1>1, Quotient DEF First
<1>4. q < src
  BY <1>1, <1>2, <1>3, QuotientBelow DEF First
<1>5. Weight(i, src, dst) \in 0..(dst - 1)
  BY <1>1, Remainder DEF Weight
<1>6. Neighbour(q, src) \in 0..(src - 1)
  BY <1>4 DEF Neighbour, Smaller
<1> QED
  BY <1>3, <1>4, <1>5, <1>6

\* A channel of a pixel of the source lies within its buffer, among those of its kind.
LEMMA Offsets ==
    ASSUME NEW w \in Nat \ {0}, NEW h \in Nat \ {0}, NEW channels \in Nat \ {0},
           NEW row \in 0..(h - 1), NEW col \in 0..(w - 1), NEW chan \in 0..(channels - 1)
    PROVE  /\ Offset(row, col, w, channels, chan) \in 0..(w * h * channels - 1)
           /\ Offset(row, col, w, channels, chan) % channels = chan
<1>1. PICK k \in Nat : k = row * w + col
  OBVIOUS
<1>2. PICK n \in Nat : n = w * h
  OBVIOUS
<1>3. k + 1 <= n
  <2>1. row + 1 \in Nat /\ (row + 1) * w <= h * w
    BY Grows
  <2>2. (row + 1) * w = row * w + w /\ h * w = w * h
    OBVIOUS
  <2> QED
    BY <1>1, <1>2, <2>1, <2>2
<1>4. (k + 1) * channels <= n * channels
  BY <1>3, Grows
<1>5. (k + 1) * channels = k * channels + channels /\ k * channels \in Nat
  OBVIOUS
<1>6. w * h * channels = n * channels /\ n * channels \in Nat
  BY <1>2
<1>7. Offset(row, col, w, channels, chan) = k * channels + chan
  BY <1>1 DEF Offset
<1>8. (k * channels + chan) % channels = chan
  BY RemainderUnique
<1> QED
  BY <1>4, <1>5, <1>6, <1>7, <1>8

\* A weighted mean lies among the values it is made of.
LEMMA Means ==
    ASSUME NEW lo \in Nat, NEW hi \in Nat,
           NEW a \in lo..hi, NEW b \in lo..hi, NEW c \in lo..hi, NEW d \in lo..hi,
           NEW s \in Nat, NEW t \in Nat, NEW u \in Nat, NEW v \in Nat,
           NEW unit \in Nat \ {0}, s + t + u + v = unit
    PROVE  (a * s + b * t + c * u + d * v) \div unit \in lo..hi
<1>1. /\ lo * s <= a * s /\ a * s <= hi * s
      /\ lo * t <= b * t /\ b * t <= hi * t
      /\ lo * u <= c * u /\ c * u <= hi * u
      /\ lo * v <= d * v /\ d * v <= hi * v
  BY Grows
<1>2. PICK sum \in Nat : sum = a * s + b * t + c * u + d * v
  OBVIOUS
<1>3. lo * s + lo * t + lo * u + lo * v <= sum /\ sum <= hi * s + hi * t + hi * u + hi * v
  BY <1>1, <1>2
<1>4. /\ lo * s + lo * t + lo * u + lo * v = lo * unit
      /\ hi * s + hi * t + hi * u + hi * v = hi * unit
  OBVIOUS
<1>5. PICK q \in Nat : q = sum \div unit
  BY Quotient
<1>6. unit * q <= sum /\ sum < unit * q + unit
  BY <1>5, Quotient
<1>7. q <= hi
  <2> SUFFICES ASSUME hi + 1 <= q PROVE FALSE
    OBVIOUS
  <2>1. unit * (hi + 1) <= unit * q
    BY Grows
  <2>2. unit * (hi + 1) = hi * unit + unit
    OBVIOUS
  <2> QED
    BY <1>3, <1>4, <1>6, <2>1, <2>2
<1>8. lo <= q
  <2> SUFFICES ASSUME q + 1 <= lo PROVE FALSE
    OBVIOUS
  <2>1. unit * (q + 1) <= unit * lo
    BY Grows
  <2>2. unit * (q + 1) = unit * q + unit /\ unit * lo = lo * unit
    OBVIOUS
  <2> QED
    BY <1>3, <1>4, <1>6, <2>1, <2>2
<1> QED
  BY <1>2, <1>5, <1>7, <1>8

\* The weights of the four corners add up.
LEMMA Weights ==
    ASSUME NEW tw \in Nat \ {0}, NEW th \in Nat \ {0},
           NEW x \in 0..(tw - 1), NEW y \in 0..(th - 1)
    PROVE  /\ (tw - x) * (th - y) \in Nat /\ x * (th - y) \in Nat
           /\ (tw - x) * y \in Nat /\ x * y \in Nat
           /\ (tw - x) * (th - y) + x * (th - y) + (tw - x) * y + x * y = tw * th
<1>1. PICK a \in Nat : a = tw - x
  OBVIOUS
<1>2. PICK b \in Nat : b = th - y
  OBVIOUS
<1>3. a * b + x * b + a * y + x * y = (a + x) * (b + y)
  OBVIOUS
<1>4. a + x = tw /\ b + y = th
  BY <1>1, <1>2
<1> QED
  BY <1>1, <1>2, <1>3, <1>4

\* Where the bytes of a channel lie in a buffer of n pixels.
Channel(n, channels, chan) == {j \in 0..(n * channels - 1) : j % channels = chan}

LEMMA ChannelOffsets ==
    ASSUME NEW w \in Nat \ {0}, NEW h \in Nat \ {0}, NEW channels \in Nat \ {0},
           NEW chan \in 0..(channels - 1), NEW row \in 0..(h - 1), NEW col \in 0..(w - 1)
    PROVE  Offset(row, col, w, channels, chan) \in Channel(w * h, channels, chan)
<1>1. PICK o : o = Offset(row, col, w, channels, chan)
  OBVIOUS
<1>2. o \in 0..(w * h * channels - 1) /\ o % channels = chan
  BY <1>1, Offsets
<1> QED
  BY <1>1, <1>2 DEF Channel

\* Four members of K, with weights that add up to the unit.
Blended(K, corners, unit) ==
    \E a, b, c, d \in K : \E s, t, u, v \in Nat :
        corners = << <<a, s>>, <<b, t>>, <<c, u>>, <<d, v>> >> /\ s + t + u + v = unit

\* What a target byte is made of: four bytes of its channel within the source.
LEMMA Reads ==
    ASSUME NEW w \in Nat \ {0}, NEW h \in Nat \ {0}, NEW tw \in Nat \ {0}, NEW th \in Nat \ {0},
           NEW channels \in Nat \ {0}, NEW i \in 0..(tw * th * channels - 1)
    PROVE  Blended(Channel(w * h, channels, i % channels),
                   CornersOf(i, <<w, h>>, channels, <<tw, th>>), tw * th)
<1>1. PICK x, y, chan : Place(i, <<tw, th>>, channels) = <<x, y, chan>> /\ chan = i % channels
  BY DEF Place
<1>2. x \in 0..(tw - 1) /\ y \in 0..(th - 1) /\ chan \in 0..(channels - 1)
  BY <1>1, Places
<1>3. PICK left \in 0..(w - 1), right \in 0..(w - 1), wx \in 0..(tw - 1) :
         left = First(x, w, tw) /\ right = Neighbour(left, w) /\ wx = Weight(x, w, tw)
  BY <1>2, Firsts
<1>4. PICK top \in 0..(h - 1), bottom \in 0..(h - 1), wy \in 0..(th - 1) :
         top = First(y, h, th) /\ bottom = Neighbour(top, h) /\ wy = Weight(y, h, th)
  BY <1>2, Firsts
<1>5. PICK Kind : Kind = Channel(w * h, channels, chan)
  OBVIOUS
<1>6. \A row \in 0..(h - 1), col \in 0..(w - 1) :
         Offset(row, col, w, channels, chan) \in Kind
  BY <1>2, <1>5, ChannelOffsets
<1>7. PICK a \in Kind, b \in Kind : /\ a = Offset(top, left, w, channels, chan)
                                   /\ b = Offset(top, right, w, channels, chan)
  BY <1>6
<1>8. PICK c \in Kind, d \in Kind : /\ c = Offset(bottom, left, w, channels, chan)
                                   /\ d = Offset(bottom, right, w, channels, chan)
  BY <1>6
<1>9. PICK s \in Nat, t \in Nat, u \in Nat, v \in Nat :
         /\ s = (tw - wx) * (th - wy) /\ t = wx * (th - wy)
         /\ u = (tw - wx) * wy /\ v = wx * wy
         /\ s + t + u + v = tw * th
  BY Weights
<1>10. CornersOf(i, <<w, h>>, channels, <<tw, th>>) =
         Corners(<<w, h>>, <<tw, th>>, channels, x, y, chan)
  BY <1>1 DEF CornersOf
<1>11. Corners(<<w, h>>, <<tw, th>>, channels, x, y, chan) =
         << <<a, s>>, <<b, t>>, <<c, u>>, <<d, v>> >>
  BY <1>3, <1>4, <1>7, <1>8, <1>9 DEF Corners
<1>12. PICK corners : corners = CornersOf(i, <<w, h>>, channels, <<tw, th>>)
  OBVIOUS
<1>13. corners = << <<a, s>>, <<b, t>>, <<c, u>>, <<d, v>> >>
  BY <1>10, <1>11, <1>12, Zenon
<1>14. \E ss, tt, uu, vv \in Nat :
          /\ corners = << <<a, ss>>, <<b, tt>>, <<c, uu>>, <<d, vv>> >>
          /\ ss + tt + uu + vv = tw * th
  <2> WITNESS s \in Nat, t \in Nat, u \in Nat, v \in Nat
  <2> QED
    BY <1>9, <1>13, Zenon
<1>15. Blended(Kind, corners, tw * th)
  BY <1>14, Zenon DEF Blended
<1> QED
  BY <1>1, <1>5, <1>12, <1>15, Zenon

Values(pixels, K) == {pixels[j] : j \in K}

\* Four bytes of K, with weights that add up to the unit, are blended to a value among
\* those that K has.
LEMMA Blends ==
    ASSUME NEW K, NEW pixels, K \subseteq DOMAIN pixels, \A j \in K : pixels[j] \in 0..255,
           NEW unit \in Nat \ {0}, NEW corners, Blended(K, corners, unit)
    PROVE  /\ \A e \in Range(corners) : e[1] \in DOMAIN pixels
           /\ Interpolated(pixels, corners, unit) \in
                 Min(Values(pixels, K))..Max(Values(pixels, K))
<1> PICK a \in K, b \in K, c \in K, d \in K : \E s, t, u, v \in Nat :
         corners = << <<a, s>>, <<b, t>>, <<c, u>>, <<d, v>> >> /\ s + t + u + v = unit
  BY Zenon DEF Blended
<1> PICK s \in Nat, t \in Nat, u \in Nat, v \in Nat :
         corners = << <<a, s>>, <<b, t>>, <<c, u>>, <<d, v>> >> /\ s + t + u + v = unit
  OBVIOUS
<1>1. \A e \in Range(corners) : e[1] \in DOMAIN pixels
  <2> SUFFICES ASSUME NEW e \in Range(corners) PROVE e[1] \in DOMAIN pixels
    OBVIOUS
  <2>1. PICK k \in DOMAIN corners : e = corners[k]
    BY DEF Range
  <2>2. k \in 1..4
    BY <2>1
  <2>3. corners[k][1] \in {a, b, c, d}
    BY <2>2
  <2> QED
    BY <2>1, <2>3
<1>2. PICK V : V = Values(pixels, K) /\ V = {pixels[j] : j \in K}
  BY DEF Values
<1>3. V \in SUBSET (0..255) /\ V # {} /\ \A j \in K : pixels[j] \in V
  BY <1>2
<1>4. PICK lo \in 0..255, hi \in 0..255 :
         lo = Min(V) /\ hi = Max(V) /\ \A y \in V : lo <= y /\ y <= hi
  BY <1>3, Extremes
<1>4a. \A j \in K : pixels[j] \in lo..hi
  <2> SUFFICES ASSUME NEW j \in K PROVE pixels[j] \in lo..hi
    OBVIOUS
  <2>1. PICK y \in 0..255 : y = pixels[j]
    OBVIOUS
  <2>2. y \in V
    BY <1>2, <2>1
  <2> QED
    BY <1>4, <2>1, <2>2
<1>5. PICK pa \in lo..hi, pb \in lo..hi, pc \in lo..hi, pd \in lo..hi :
         pa = pixels[a] /\ pb = pixels[b] /\ pc = pixels[c] /\ pd = pixels[d]
  BY <1>4a
<1>6. Byte(pixels, a) = pa /\ Byte(pixels, b) = pb /\ Byte(pixels, c) = pc /\ Byte(pixels, d) = pd
  BY <1>5 DEF Byte
<1>7. Interpolated(pixels, corners, unit) = (pa * s + pb * t + pc * u + pd * v) \div unit
  <2>1. /\ corners[1][1] = a /\ corners[1][2] = s /\ corners[2][1] = b /\ corners[2][2] = t
        /\ corners[3][1] = c /\ corners[3][2] = u /\ corners[4][1] = d /\ corners[4][2] = v
    OBVIOUS
  <2> QED
    BY <1>6, <2>1, Zenon DEF Interpolated
<1>8. (pa * s + pb * t + pc * u + pd * v) \div unit \in lo..hi
  <2>1. lo \in Nat /\ hi \in Nat
    OBVIOUS
  <2> QED
    BY <2>1, Means, ZenonT(60)
<1> QED
  BY <1>1, <1>2, <1>4, <1>7, <1>8, Zenon

\* A target byte is read from within the source and lies among its channel's values.
LEMMA Interpolates ==
    ASSUME NEW w \in Nat \ {0}, NEW h \in Nat \ {0}, NEW tw \in Nat \ {0}, NEW th \in Nat \ {0},
           NEW channels \in Nat \ {0}, NEW i \in 0..(tw * th * channels - 1),
           NEW pixels \in [0..(w * h * channels - 1) -> 0..255],
           NEW K, K = Channel(w * h, channels, i % channels),
           NEW corners, corners = CornersOf(i, <<w, h>>, channels, <<tw, th>>)
    PROVE  /\ \A e \in Range(corners) : e[1] \in DOMAIN pixels
           /\ Interpolated(pixels, corners, tw * th) \in
                 Min(Values(pixels, K))..Max(Values(pixels, K))
<1>1. PICK unit \in Nat \ {0} : unit = tw * th
  OBVIOUS
<1>2. Blended(Channel(w * h, channels, i % channels),
              CornersOf(i, <<w, h>>, channels, <<tw, th>>), tw * th)
  BY Reads
<1>3. Blended(K, corners, unit)
  BY <1>1, <1>2, Zenon
<1>5. K \subseteq DOMAIN pixels /\ \A j \in K : pixels[j] \in 0..255
  <2>1. PICK I : I = 0..(w * h * channels - 1)
    OBVIOUS
  <2>2. K \subseteq I
    BY <2>1, Zenon DEF Channel
  <2>3. pixels \in [I -> 0..255]
    BY <2>1, Zenon
  <2> QED
    BY <2>2, <2>3
<1>7. /\ \A e \in Range(corners) : e[1] \in DOMAIN pixels
      /\ Interpolated(pixels, corners, unit) \in
            Min(Values(pixels, K))..Max(Values(pixels, K))
  BY <1>3, <1>5, Blends
<1> QED
  BY <1>1, <1>7, Zenon

\* _normalize_mode yields a byte for every channel of every pixel.
LEMMA NormalizesBytes ==
    ASSUME NEW p, IsPicture(p), NEW w \in Nat \ {0}, NEW h \in Nat \ {0}, p.size = <<w, h>>,
           NEW channels, channels = Normalized(p).channels
    PROVE  Normalized(p).pixels \in [0..(w * h * channels - 1) -> 0..255]
<1>1. PICK n \in Nat \ {0} : n = w * h
  OBVIOUS
<1>2. PICK from \in 1..4 : from = p.channels
  BY DEF IsPicture
<1>3. p.pixels \in [0..(n * from - 1) -> 0..255]
  <2>1. p.size[1] = w /\ p.size[2] = h
    OBVIOUS
  <2> QED
    BY <1>1, <1>2, <2>1, Zenon DEF IsPicture
<1>4. CASE ~(p.channels < 3)
  <2>1. Normalized(p) = p
    BY <1>4, Zenon DEF Normalized
  <2> QED
    BY <1>1, <1>2, <1>3, <2>1, Zenon
<1>5. CASE p.channels < 3
  <2>1. PICK to \in {3, 4} : to = from + 2
    BY <1>2, <1>5
  <2>2. channels = to
    BY <1>2, <1>5, <2>1 DEF Normalized
  <2>3. PICK I : I = 0..(n * to - 1)
    OBVIOUS
  <2>4. PICK F : F = [i \in I |-> p.pixels[(i \div to) * from + (IF i % to = 3 THEN 1 ELSE 0)]]
    OBVIOUS
  <2>5. Normalized(p).pixels = F
    BY <1>1, <1>2, <1>5, <2>1, <2>3, <2>4 DEF Normalized
  <2>6. ASSUME NEW i \in I
        PROVE  F[i] \in 0..255
    <3>1. i \in Nat /\ i < to * n
      BY <2>3
    <3>2. PICK q \in Nat : q = i \div to /\ q < n
      BY <3>1, QuotientBelow
    <3>3. i % to \in 0..(to - 1)
      <4>1. i \in Nat /\ to \in Nat \ {0}
        BY <3>1
      <4> QED
        BY <4>1, Remainder, Zenon
    <3>4. PICK k \in {0, 1} : k = (IF i % to = 3 THEN 1 ELSE 0) /\ k < from
      BY <2>1, <3>3
    <3>5. q * from + k \in 0..(n * from - 1)
      <4>1. CASE from = 1
        BY <3>2, <3>4, <4>1
      <4>2. CASE from = 2
        BY <3>2, <3>4, <4>2
      <4> QED
        BY <1>2, <1>5, <4>1, <4>2
    <3>6. F[i] = p.pixels[q * from + k]
      BY <2>4, <3>2, <3>4
    <3> QED
      BY <1>3, <3>5, <3>6, ZenonT(60)
  <2>7. F \in [I -> 0..255]
    BY <2>4, <2>6
  <2> QED
    BY <1>1, <2>2, <2>3, <2>5, <2>7, Zenon
<1> QED
  BY <1>4, <1>5

\* fast_resize.cpp's bilinear loop, for every picture and every box: it reads nothing
\* outside the source's buffer, and what it writes to a channel lies between the least
\* and the greatest value that channel has in the source.
THEOREM ChannelsStayApart == Spec => []ChannelsApart
<1>1. FileInv => ChannelsApart
  <2> SUFFICES ASSUME FileInv, stage \in {"scaled", "done", "failed"},
                      NEW i \in DOMAIN thumb.pixels,
                      NEW p, p = Normalized(file.picture)
               PROVE  LET V == {p.pixels[j] : j \in {k \in DOMAIN p.pixels :
                                                        k % p.channels = i % p.channels}}
                      IN  /\ thumb.size # p.size =>
                                \A c \in Range(CornersOf(i, p.size, p.channels, thumb.size)) :
                                    c[1] \in DOMAIN p.pixels
                          /\ thumb.pixels[i] \in Min(V)..Max(V)
    BY Zenon DEF ChannelsApart
  <2>1. IsPicture(file.picture) /\ thumb = Thumbnail(p)
    BY DEF FileInv
  <2>2. PICK w \in Nat \ {0}, h \in Nat \ {0} : file.picture.size = <<w, h>>
    BY <2>1 DEF IsPicture
  <2>3. PICK channels \in {3, 4} : channels = p.channels
    BY <2>1, Normalizes
  <2>4. p.size = <<w, h>> /\ p.size[1] = w /\ p.size[2] = h
    BY <2>1, <2>2, Normalizes
  <2>5. PICK pixels : pixels = p.pixels
    OBVIOUS
  <2>6. pixels \in [0..(w * h * channels - 1) -> 0..255]
    <3>1. PICK q : q = file.picture
      OBVIOUS
    <3>2. IsPicture(q) /\ q.size = <<w, h>> /\ channels = Normalized(q).channels
      BY <2>1, <2>2, <2>3, <3>1, Zenon
    <3>3. Normalized(q).pixels \in [0..(w * h * channels - 1) -> 0..255]
      BY <3>2, NormalizesBytes, ZenonT(40)
    <3> QED
      BY <2>5, <3>1, <3>3, Zenon
  <2>7. PICK K : K = Channel(w * h, channels, i % channels)
    OBVIOUS
  <2>8. K = {k \in DOMAIN pixels : k % channels = i % channels}
    <3>1. DOMAIN pixels = 0..(w * h * channels - 1)
      BY <2>6, Zenon
    <3> QED
      BY <2>7, <3>1, Zenon DEF Channel
  <2>9. PICK V : V = Values(pixels, K)
    OBVIOUS
  <2>10. SUFFICES /\ thumb.size # p.size =>
                         \A c \in Range(CornersOf(i, p.size, channels, thumb.size)) :
                             c[1] \in DOMAIN pixels
                  /\ thumb.pixels[i] \in Min(V)..Max(V)
    BY <2>3, <2>5, <2>8, <2>9, Zenon DEF Values
  <2>11. CASE fit_dimensions(w, h) = p.size
    <3>1. thumb = p
      BY <2>1, <2>4, <2>11, Zenon DEF Thumbnail
    <3>2. i \in K
      BY <2>5, <2>8, <3>1
    <3>3. K \subseteq DOMAIN pixels
      BY <2>8
    <3>4. PICK I : I = DOMAIN pixels /\ pixels \in [I -> 0..255]
      BY <2>6, Zenon
    <3>5. V \in SUBSET (0..255) /\ pixels[i] \in V
      BY <2>9, <3>2, <3>3, <3>4 DEF Values
    <3>6. pixels[i] \in Min(V)..Max(V)
      <4>1. /\ Min(V) \in V /\ Min(V) <= pixels[i]
            /\ Max(V) \in V /\ pixels[i] <= Max(V)
        BY <3>5, Extremes
      <4>2. PICK lo \in 0..255, hi \in 0..255, y \in 0..255 :
               lo = Min(V) /\ hi = Max(V) /\ y = pixels[i] /\ lo <= y /\ y <= hi
        BY <3>5, <4>1
      <4>3. y \in lo..hi
        BY <4>2
      <4> QED
        BY <4>2, <4>3, Zenon
    <3> QED
      BY <2>5, <3>1, <3>6, Zenon
  <2>12. CASE fit_dimensions(w, h) # p.size
    <3>1. Longer(w, h) > MaxSize
      <4>1. Longer(w, h) <= MaxSize => fit_dimensions(w, h) = <<w, h>>
        BY Fits
      <4> QED
        BY <2>4, <2>12, <4>1, SizeAssumption DEF Longer
    <3>2. PICK tw \in 1..MaxSize, th \in 1..MaxSize : fit_dimensions(w, h) = <<tw, th>>
      BY <3>1, Fits
    <3>3. tw \in Nat \ {0} /\ th \in Nat \ {0} /\ channels \in Nat \ {0}
      BY SizeAssumption
    <3>4. PICK dst : dst = <<tw, th>>
      OBVIOUS
    <3>4b. dst[1] = tw /\ dst[2] = th
      BY <3>4
    <3>5. /\ thumb.size = dst
          /\ thumb.pixels = bilinear_resize_bytes(pixels, <<w, h>>, channels, dst)
      BY <2>1, <2>3, <2>4, <2>5, <2>12, <3>2, <3>4 DEF Thumbnail
    <3>6. PICK T : T = 0..(tw * th * channels - 1)
      OBVIOUS
    <3>7. thumb.pixels = [k \in T |-> Interpolated(pixels,
                              CornersOf(k, <<w, h>>, channels, dst), tw * th)]
      BY <3>4b, <3>5, <3>6, Zenon DEF bilinear_resize_bytes
    <3>8. i \in T
      BY <3>7
    <3>9. PICK corners : corners = CornersOf(i, <<w, h>>, channels, dst)
      OBVIOUS
    <3>10. thumb.pixels[i] = Interpolated(pixels, corners, tw * th)
      BY <3>7, <3>8, <3>9
    <3>11. corners = CornersOf(i, <<w, h>>, channels, <<tw, th>>)
      BY <3>4, <3>9, Zenon
    <3>12. i \in 0..(tw * th * channels - 1)
      BY <3>6, <3>8, Zenon
    <3>13. /\ \A c \in Range(corners) : c[1] \in DOMAIN pixels
           /\ Interpolated(pixels, corners, tw * th) \in Min(Values(pixels, K))..Max(Values(pixels, K))
      BY <2>6, <2>7, <3>3, <3>11, <3>12, Interpolates, ZenonT(60)
    <3> QED
      BY <2>4, <2>9, <3>5, <3>9, <3>10, <3>13, Zenon
  <2> QED
    BY <2>11, <2>12
<1> QED
  BY <1>1, FileAlways, PTL

-----------------------------------------------------------------------------
(* Induction.                                                              *)

\* A set that has zero and the successor of its members has every number.
LEMMA Induction ==
    ASSUME NEW T, 0 \in T, \A n \in Nat : n \in T => n + 1 \in T
    PROVE  \A n \in Nat : n \in T
<1> SUFFICES ASSUME NEW k \in Nat, k \notin T PROVE FALSE
  OBVIOUS
<1>1. PICK U : U = Nat \ T
  OBVIOUS
<1>2. U \in SUBSET Nat /\ U # {}
  BY <1>1
<1>3. PICK m \in U : \A y \in U : m <= y
  BY <1>2, LeastNatural
<1>4. m \in Nat /\ m \notin T /\ m # 0
  BY <1>1
<1>5. m - 1 \in Nat /\ m - 1 \notin U
  BY <1>3, <1>4
<1>6. m - 1 \in T
  BY <1>1, <1>5
<1>7. (m - 1) + 1 \in T
  BY <1>5, <1>6
<1> QED
  BY <1>4, <1>7

\* A set that has the empty sequence and every extension of its members has them all.
LEMMA SequenceInduction ==
    ASSUME NEW C, NEW T, <<>> \in T,
           \A s \in Seq(C), c \in C : s \in T => Append(s, c) \in T
    PROVE  \A s \in Seq(C) : s \in T
<1>1. PICK U : U = {n \in Nat : \A s \in Seq(C) : Len(s) = n => s \in T}
  OBVIOUS
<1>2. 0 \in U
  <2>1. \A s \in Seq(C) : Len(s) = 0 => s = <<>>
    BY EmptySeq
  <2> QED
    BY <1>1, <2>1
<1>3. ASSUME NEW n \in Nat, n \in U PROVE n + 1 \in U
  <2>1. ASSUME NEW s \in Seq(C), Len(s) = n + 1 PROVE s \in T
    <3>1. s # <<>>
      BY <2>1, EmptySeq
    <3>2. PICK r \in Seq(C), c \in C : s = Append(r, c)
      BY <3>1, SequenceEmptyOrAppend
    <3>3. Len(r) = n
      <4>1. Len(s) = Len(r) + 1 /\ Len(r) \in Nat
        BY <3>2, AppendProperties, LenProperties
      <4> QED
        BY <4>1, <2>1
    <3>4. r \in T
      BY <1>1, <1>3, <3>3
    <3> QED
      BY <3>2, <3>4
  <2> QED
    BY <1>1, <2>1
<1>4. \A n \in Nat : n \in U
  BY <1>2, <1>3, Induction, Zenon
<1>5. ASSUME NEW s \in Seq(C) PROVE s \in T
  <2>1. Len(s) \in U
    BY <1>4, LenProperties
  <2> QED
    BY <1>1, <2>1
<1> QED
  BY <1>5

-----------------------------------------------------------------------------
(* Filtered sequences.                                                     *)

\* The first n members of s, filtered, for every n up to m.
Filters(f, s, S, m) ==
    f = [n \in 0..m |-> IF n = 0 THEN <<>>
                        ELSE IF s[n] \in S THEN Append(f[n - 1], s[n]) ELSE f[n - 1]]

LEMMA FilterExists ==
    ASSUME NEW s, NEW S
    PROVE  \A m \in Nat : \E f : Filters(f, s, S, m)
<1>1. PICK U : U = {m \in Nat : \E f : Filters(f, s, S, m)}
  OBVIOUS
<1>2. 0 \in U
  <2>1. PICK f : f = [n \in 0..0 |-> <<>>]
    OBVIOUS
  <2>2. Filters(f, s, S, 0)
    BY <2>1 DEF Filters
  <2> QED
    BY <1>1, <2>2
<1>3. ASSUME NEW m \in Nat, m \in U PROVE m + 1 \in U
  <2>1. PICK f : Filters(f, s, S, m)
    BY <1>1, <1>3
  <2>2. PICK l : l = IF s[m + 1] \in S THEN Append(f[m], s[m + 1]) ELSE f[m]
    OBVIOUS
  <2>3. PICK g : g = [n \in 0..(m + 1) |-> IF n = m + 1 THEN l ELSE f[n]]
    OBVIOUS
  <2>4. \A n \in 0..(m + 1) :
           g[n] = IF n = 0 THEN <<>>
                  ELSE IF s[n] \in S THEN Append(g[n - 1], s[n]) ELSE g[n - 1]
    <3> TAKE n \in 0..(m + 1)
    <3>1. CASE n = m + 1
      <4>1. g[n] = l /\ g[n - 1] = f[m] /\ n # 0
        BY <2>3, <3>1
      <4> QED
        BY <2>2, <3>1, <4>1
    <3>2. CASE n \in 0..m /\ n # 0
      <4>1. g[n] = f[n] /\ g[n - 1] = f[n - 1]
        BY <2>3, <3>2
      <4>2. f[n] = IF s[n] \in S THEN Append(f[n - 1], s[n]) ELSE f[n - 1]
        BY <2>1, <3>2 DEF Filters
      <4> QED
        BY <3>2, <4>1, <4>2
    <3>3. CASE n = 0
      <4>1. g[n] = f[n] /\ f[n] = <<>>
        BY <2>1, <2>3, <3>3 DEF Filters
      <4> QED
        BY <3>3, <4>1
    <3> QED
      BY <3>1, <3>2, <3>3
  <2>5. Filters(g, s, S, m + 1)
    BY <2>3, <2>4 DEF Filters
  <2> QED
    BY <1>1, <2>5
<1>4. \A m \in Nat : m \in U
  BY <1>2, <1>3, Induction, Zenon
<1> QED
  BY <1>1, <1>4

LEMMA OnlyFilters ==
    ASSUME NEW s, NEW S, Len(s) \in Nat
    PROVE  \E f : Filters(f, s, S, Len(s)) /\ Only(s, S) = f[Len(s)]
<1>1. PICK f : f = CHOOSE g : Filters(g, s, S, Len(s))
  OBVIOUS
<1>2. Filters(f, s, S, Len(s))
  BY <1>1, FilterExists, Zenon
<1>3. Only(s, S) = f[Len(s)]
  BY <1>1 DEF Only, Filters
<1> QED
  BY <1>2, <1>3

LEMMA FilterStep ==
    ASSUME NEW f, NEW s, NEW S, NEW m \in Nat, Filters(f, s, S, m), NEW n \in Nat, n + 1 <= m
    PROVE  f[n + 1] = IF s[n + 1] \in S THEN Append(f[n], s[n + 1]) ELSE f[n]
<1>1. PICK j \in 0..m : j = n + 1 /\ j # 0 /\ j - 1 = n
  OBVIOUS
<1>2. f[j] = IF j = 0 THEN <<>> ELSE IF s[j] \in S THEN Append(f[j - 1], s[j]) ELSE f[j - 1]
  BY DEF Filters
<1> QED
  BY <1>1, <1>2

LEMMA OnlyOfEmpty ==
    ASSUME NEW S
    PROVE  Only(<<>>, S) = <<>>
<1>1. Len(<<>>) = 0
  BY EmptySeq
<1>2. PICK f : Filters(f, <<>>, S, 0) /\ Only(<<>>, S) = f[0]
  BY <1>1, OnlyFilters
<1> QED
  BY <1>2 DEF Filters

LEMMA OnlyOfAppend ==
    ASSUME NEW C, NEW S, NEW s \in Seq(C), NEW c \in C
    PROVE  Only(Append(s, c), S) = IF c \in S THEN Append(Only(s, S), c) ELSE Only(s, S)
<1>1. PICK k \in Nat : k = Len(s)
  BY LenProperties
<1>2. PICK t : t = Append(s, c)
  OBVIOUS
<1>3. Len(t) = k + 1 /\ t[k + 1] = c /\ \A i \in 1..k : t[i] = s[i]
  BY <1>1, <1>2, AppendProperties
<1>4. PICK f : Filters(f, s, S, k) /\ Only(s, S) = f[k]
  BY <1>1, OnlyFilters
<1>5. PICK g : Filters(g, t, S, k + 1) /\ Only(t, S) = g[k + 1]
  BY <1>3, OnlyFilters
<1>6. PICK U : U = {n \in Nat : n <= k => g[n] = f[n]}
  OBVIOUS
<1>7. 0 \in U
  BY <1>4, <1>5, <1>6 DEF Filters
<1>8. ASSUME NEW n \in Nat, n \in U PROVE n + 1 \in U
  <2> SUFFICES ASSUME n + 1 <= k PROVE g[n + 1] = f[n + 1]
    BY <1>6
  <2>1. g[n] = f[n] /\ t[n + 1] = s[n + 1]
    BY <1>3, <1>6, <1>8
  <2>2. f[n + 1] = IF s[n + 1] \in S THEN Append(f[n], s[n + 1]) ELSE f[n]
    BY <1>4, FilterStep
  <2>3. g[n + 1] = IF t[n + 1] \in S THEN Append(g[n], t[n + 1]) ELSE g[n]
    BY <1>5, FilterStep
  <2> QED
    BY <2>1, <2>2, <2>3
<1>9. \A n \in Nat : n \in U
  BY <1>7, <1>8, Induction, Zenon
<1>10. g[k] = f[k]
  BY <1>6, <1>9
<1>11. g[k + 1] = IF t[k + 1] \in S THEN Append(g[k], t[k + 1]) ELSE g[k]
  BY <1>5, FilterStep
<1> QED
  BY <1>2, <1>3, <1>4, <1>5, <1>10, <1>11

LEMMA OnlyType ==
    ASSUME NEW C, NEW S
    PROVE  \A s \in Seq(C) : Only(s, S) \in Seq(S \cap C) /\ Len(Only(s, S)) <= Len(s)
<1>1. PICK U : U = {s \in Seq(C) : Only(s, S) \in Seq(S \cap C) /\ Len(Only(s, S)) <= Len(s)}
  OBVIOUS
<1>2. <<>> \in U
  <2>1. <<>> \in Seq(C) /\ <<>> \in Seq(S \cap C) /\ Len(<<>>) <= Len(<<>>)
    BY EmptySeq
  <2> QED
    BY <1>1, <2>1, OnlyOfEmpty
<1>3. ASSUME NEW s \in Seq(C), NEW c \in C, s \in U PROVE Append(s, c) \in U
  <2>1. PICK o : o = Only(s, S)
    OBVIOUS
  <2>2. o \in Seq(S \cap C) /\ Len(o) <= Len(s) /\ Len(o) \in Nat /\ Len(s) \in Nat
    BY <1>1, <1>3, <2>1, LenProperties
  <2>3. Append(s, c) \in Seq(C) /\ Len(Append(s, c)) = Len(s) + 1
    BY AppendProperties
  <2>4. Only(Append(s, c), S) = IF c \in S THEN Append(o, c) ELSE o
    BY <2>1, OnlyOfAppend
  <2>5. c \in S => Append(o, c) \in Seq(S \cap C) /\ Len(Append(o, c)) = Len(o) + 1
    BY <2>2, AppendProperties
  <2>6. PICK r : r = Only(Append(s, c), S)
    OBVIOUS
  <2>7. r \in Seq(S \cap C) /\ Len(r) <= Len(s) + 1
    BY <2>2, <2>4, <2>5, <2>6
  <2> QED
    BY <1>1, <2>3, <2>6, <2>7
<1>4. \A s \in Seq(C) : s \in U
  BY <1>2, <1>3, SequenceInduction, Zenon
<1> QED
  BY <1>1, <1>4

\* A filter filters the parts of a sequence one by one.
LEMMA OnlyOfConcat ==
    ASSUME NEW C, NEW S, NEW s \in Seq(C)
    PROVE  \A t \in Seq(C) : Only(s \o t, S) = Only(s, S) \o Only(t, S)
<1>0. PICK D : D = S \cap C
  OBVIOUS
<1>1. PICK o \in Seq(D) : o = Only(s, S)
  BY <1>0, OnlyType
<1>2. PICK U : U = {t \in Seq(C) : Only(s \o t, S) = o \o Only(t, S)}
  OBVIOUS
<1>3. <<>> \in U
  <2>1. s \o <<>> = s /\ o \o <<>> = o
    BY ConcatEmptySeq
  <2> QED
    BY <1>1, <1>2, <2>1, OnlyOfEmpty, EmptySeq
<1>4. ASSUME NEW t \in Seq(C), NEW c \in C, t \in U PROVE Append(t, c) \in U
  <2>1. PICK q \in Seq(D) : q = Only(t, S)
    BY <1>0, OnlyType
  <2>2. PICK u \in Seq(C) : u = s \o t
    BY ConcatProperties
  <2>3. s \o Append(t, c) = Append(u, c)
    <3>1. <<c>> \in Seq(C)
      OBVIOUS
    <3>2. Append(t, c) = t \o <<c>> /\ Append(u, c) = u \o <<c>>
      BY AppendIsConcat
    <3> QED
      BY <2>2, <3>1, <3>2, ConcatAssociative
  <2>4. Only(u, S) = o \o q
    BY <1>2, <1>4, <2>1, <2>2
  <2>5. c \in S => o \o Append(q, c) = Append(o \o q, c)
    <3> SUFFICES ASSUME c \in D PROVE o \o Append(q, c) = Append(o \o q, c)
      BY <1>0
    <3>1. <<c>> \in Seq(D) /\ o \o q \in Seq(D)
      BY ConcatProperties
    <3>2. Append(q, c) = q \o <<c>> /\ Append(o \o q, c) = (o \o q) \o <<c>>
      BY <3>1, AppendIsConcat
    <3> QED
      BY <3>1, <3>2, ConcatAssociative
  <2>6. Only(Append(u, c), S) = IF c \in S THEN Append(o \o q, c) ELSE o \o q
    <3>1. Only(Append(u, c), S) = IF c \in S THEN Append(Only(u, S), c) ELSE Only(u, S)
      BY OnlyOfAppend
    <3> QED
      BY <2>4, <3>1
  <2>7. Only(Append(t, c), S) = IF c \in S THEN Append(q, c) ELSE q
    BY <2>1, OnlyOfAppend
  <2>8. Append(t, c) \in Seq(C)
    BY AppendProperties
  <2> QED
    BY <1>2, <2>3, <2>5, <2>6, <2>7, <2>8
<1>5. \A t \in Seq(C) : t \in U
  BY <1>3, <1>4, SequenceInduction, Zenon
<1> QED
  BY <1>1, <1>2, <1>5

LEMMA PrefixGrows ==
    ASSUME NEW C, NEW s \in Seq(C), NEW n \in Nat, n + 1 <= Len(s)
    PROVE  /\ SubSeq(s, 1, n) \in Seq(C) /\ s[n + 1] \in C
           /\ SubSeq(s, 1, n + 1) = Append(SubSeq(s, 1, n), s[n + 1])
<1>1. PICK k \in Nat : k = Len(s)
  BY LenProperties
<1>2. \A i \in 1..k : s[i] \in C
  BY <1>1, ElementOfSeq
<1>3. SubSeq(s, 1, n) \in Seq(C)
  <2>1. \A i \in 1..n : s[i] \in C
    BY <1>1, <1>2
  <2> QED
    BY <2>1, SubSeqProperties
<1>4. PICK j \in 1..k : j = n + 1 /\ j - 1 = n
  BY <1>1
<1>5. SubSeq(s, 1, j) = SubSeq(s, 1, j - 1) \o <<s[j]>>
  <2>1. 1 \in 1..Len(s) /\ j \in 1..Len(s)
    BY <1>1
  <2> QED
    BY <2>1, SubSeqRecursiveSecond
<1>6. s[j] \in C
  BY <1>2
<1>7. Append(SubSeq(s, 1, n), s[j]) = SubSeq(s, 1, n) \o <<s[j]>>
  BY <1>3, <1>6, AppendIsConcat
<1> QED
  BY <1>3, <1>4, <1>5, <1>6, <1>7

LEMMA OnlyOfPrefix ==
    ASSUME NEW C, NEW S, NEW s \in Seq(C), NEW n \in Nat, n + 1 <= Len(s)
    PROVE  Only(SubSeq(s, 1, n + 1), S) =
               IF s[n + 1] \in S THEN Append(Only(SubSeq(s, 1, n), S), s[n + 1])
               ELSE Only(SubSeq(s, 1, n), S)
<1>0. /\ SubSeq(s, 1, n) \in Seq(C) /\ s[n + 1] \in C
      /\ SubSeq(s, 1, n + 1) = Append(SubSeq(s, 1, n), s[n + 1])
  BY PrefixGrows, Zenon
<1>1. PICK r \in Seq(C) : r = SubSeq(s, 1, n)
  BY <1>0
<1>2. PICK c \in C : c = s[n + 1]
  BY <1>0
<1>3. SubSeq(s, 1, n + 1) = Append(r, c)
  BY <1>0, <1>1, <1>2
<1>4. Only(Append(r, c), S) = IF c \in S THEN Append(Only(r, S), c) ELSE Only(r, S)
  BY OnlyOfAppend
<1> QED
  BY <1>1, <1>2, <1>3, <1>4

LEMMA NoPrefix ==
    ASSUME NEW s, NEW S
    PROVE  SubSeq(s, 1, 0) = <<>> /\ Only(SubSeq(s, 1, 0), S) = <<>>
<1>1. SubSeq(s, 1, 0) = <<>>
  BY SubSeqEmpty
<1> QED
  BY <1>1, OnlyOfEmpty

\* Sequences that differ only in what is filtered out are filtered alike.
LEMMA OnlyAgrees ==
    ASSUME NEW C, NEW D, NEW S, NEW s \in Seq(C), NEW t \in Seq(D), Len(s) = Len(t),
           \A i \in 1..Len(s) : s[i] = t[i] \/ (s[i] \notin S /\ t[i] \notin S)
    PROVE  Only(s, S) = Only(t, S)
<1>1. PICK k \in Nat : k = Len(s)
  BY LenProperties
<1>2. PICK U : U = {n \in Nat : n <= k => Only(SubSeq(s, 1, n), S) = Only(SubSeq(t, 1, n), S)}
  OBVIOUS
<1>3. 0 \in U
  <2>1. Only(SubSeq(s, 1, 0), S) = Only(SubSeq(t, 1, 0), S)
    BY NoPrefix
  <2> QED
    BY <1>2, <2>1
<1>4. ASSUME NEW n \in Nat, n \in U PROVE n + 1 \in U
  <2> SUFFICES ASSUME n + 1 <= k PROVE Only(SubSeq(s, 1, n + 1), S) = Only(SubSeq(t, 1, n + 1), S)
    BY <1>2
  <2>1. PICK o : o = Only(SubSeq(s, 1, n), S)
    OBVIOUS
  <2>2. o = Only(SubSeq(t, 1, n), S)
    BY <1>2, <1>4, <2>1
  <2>3. Only(SubSeq(s, 1, n + 1), S) = IF s[n + 1] \in S THEN Append(o, s[n + 1]) ELSE o
    BY <1>1, <2>1, OnlyOfPrefix
  <2>4. Only(SubSeq(t, 1, n + 1), S) = IF t[n + 1] \in S THEN Append(o, t[n + 1]) ELSE o
    BY <1>1, <2>2, OnlyOfPrefix
  <2>5. s[n + 1] = t[n + 1] \/ (s[n + 1] \notin S /\ t[n + 1] \notin S)
    <3>1. n + 1 \in 1..Len(s)
      BY <1>1
    <3> QED
      BY <3>1
  <2> QED
    BY <2>3, <2>4, <2>5
<1>5. \A n \in Nat : n \in U
  BY <1>3, <1>4, Induction, Zenon
<1>6. Only(SubSeq(s, 1, k), S) = Only(SubSeq(t, 1, k), S)
  BY <1>2, <1>5
<1>7. SubSeq(s, 1, k) = s /\ SubSeq(t, 1, k) = t
  BY <1>1, SubSeqFull
<1> QED
  BY <1>6, <1>7

\* Nothing is left exactly when there is nothing to keep.
LEMMA OnlyNone ==
    ASSUME NEW C, NEW S
    PROVE  \A s \in Seq(C) : (Only(s, S) = <<>>) <=> (\A i \in 1..Len(s) : s[i] \notin S)
<1>1. PICK U : U = {s \in Seq(C) : (Only(s, S) = <<>>) <=> (\A i \in 1..Len(s) : s[i] \notin S)}
  OBVIOUS
<1>2. <<>> \in U
  <2>1. <<>> \in Seq(C) /\ \A i \in 1..Len(<<>>) : <<>>[i] \notin S
    BY EmptySeq
  <2> QED
    BY <1>1, <2>1, OnlyOfEmpty
<1>3. ASSUME NEW s \in Seq(C), NEW c \in C, s \in U PROVE Append(s, c) \in U
  <2>1. PICK t \in Seq(C) : t = Append(s, c)
    BY AppendProperties
  <2>2. PICK k \in Nat : k = Len(s)
    BY LenProperties
  <2>3. Len(t) = k + 1 /\ t[k + 1] = c /\ \A i \in 1..k : t[i] = s[i]
    BY <2>1, <2>2, AppendProperties
  <2>4. (Only(s, S) = <<>>) <=> (\A i \in 1..k : s[i] \notin S)
    BY <1>1, <1>3, <2>2
  <2>5. (\A i \in 1..Len(t) : t[i] \notin S) <=> (c \notin S /\ \A i \in 1..k : s[i] \notin S)
    BY <2>3
  <2>6. CASE c \in S
    <3>1. Only(t, S) = Append(Only(s, S), c)
      BY <2>1, <2>6, OnlyOfAppend
    <3>0. PICK D : D = S \cap C
      OBVIOUS
    <3>2. PICK o \in Seq(D) : o = Only(s, S)
      BY <3>0, OnlyType
    <3>3. Only(t, S) # <<>>
      <4>1. c \in D
        BY <2>6, <3>0
      <4>2. Append(o, c) # <<>>
        BY <4>1, AppendProperties
      <4> QED
        BY <3>1, <3>2, <4>2
    <3> QED
      BY <1>1, <2>1, <2>5, <2>6, <3>3
  <2>7. CASE c \notin S
    <3>1. Only(t, S) = Only(s, S)
      BY <2>1, <2>7, OnlyOfAppend
    <3> QED
      BY <1>1, <2>1, <2>4, <2>5, <2>7, <3>1
  <2> QED
    BY <2>6, <2>7
<1>4. \A s \in Seq(C) : s \in U
  BY <1>2, <1>3, SequenceInduction, Zenon
<1> QED
  BY <1>1, <1>4

\* The smaller of two nested filters decides.
LEMMA OnlyOfOnly ==
    ASSUME NEW C, NEW S, NEW R, S \subseteq R
    PROVE  \A s \in Seq(C) : Only(Only(s, R), S) = Only(s, S)
<1>1. PICK U : U = {s \in Seq(C) : Only(Only(s, R), S) = Only(s, S)}
  OBVIOUS
<1>2. <<>> \in U
  <2>1. Only(Only(<<>>, R), S) = Only(<<>>, S) /\ <<>> \in Seq(C)
    BY OnlyOfEmpty, EmptySeq
  <2> QED
    BY <1>1, <2>1
<1>3. ASSUME NEW s \in Seq(C), NEW c \in C, s \in U PROVE Append(s, c) \in U
  <2>1. PICK t \in Seq(C) : t = Append(s, c)
    BY AppendProperties
  <2>2. PICK o \in Seq(R \cap C) : o = Only(s, R)
    BY OnlyType
  <2>3. Only(o, S) = Only(s, S)
    BY <1>1, <1>3, <2>2
  <2>4. Only(t, S) = IF c \in S THEN Append(Only(s, S), c) ELSE Only(s, S)
    BY <2>1, OnlyOfAppend
  <2>5. Only(t, R) = IF c \in R THEN Append(o, c) ELSE o
    BY <2>1, <2>2, OnlyOfAppend
  <2>6. c \in R => Only(Append(o, c), S) = IF c \in S THEN Append(Only(o, S), c) ELSE Only(o, S)
    BY OnlyOfAppend
  <2>7. Only(Only(t, R), S) = Only(t, S)
    BY <2>3, <2>4, <2>5, <2>6
  <2> QED
    BY <1>1, <2>1, <2>7
<1>4. \A s \in Seq(C) : s \in U
  BY <1>2, <1>3, SequenceInduction, Zenon
<1> QED
  BY <1>1, <1>4

\* A part of a sequence.
LEMMA Parts ==
    ASSUME NEW C, NEW s \in Seq(C), NEW i \in Nat, NEW j \in Nat, i >= 1, j <= Len(s)
    PROVE  /\ SubSeq(s, i, j) \in Seq(C)
           /\ Len(SubSeq(s, i, j)) = IF i <= j THEN j - i + 1 ELSE 0
           /\ \A k \in 1..(j - i + 1) : SubSeq(s, i, j)[k] = s[i + k - 1]
<1>1. Len(s) \in Nat
  BY LenProperties
<1>2. \A k \in 1..Len(s) : s[k] \in C
  BY ElementOfSeq
<1>3. \A k \in i..j : s[k] \in C
  BY <1>1, <1>2
<1>4. i \in Int /\ j \in Int
  OBVIOUS
<1> QED
  BY <1>3, <1>4, SubSeqProperties

\* Two sequences with the same members in the same places are the same.
LEMMA SamePart ==
    ASSUME NEW C, NEW s \in Seq(C), NEW t \in Seq(C), NEW i \in Nat, NEW j \in Nat,
           i >= 1, i <= j, j <= Len(s), Len(t) = j - i + 1,
           \A k \in 1..(j - i + 1) : t[k] = s[i + k - 1]
    PROVE  t = SubSeq(s, i, j)
<1>1. PICK u \in Seq(C) : u = SubSeq(s, i, j)
  BY Parts
<1>2. Len(u) = j - i + 1 /\ \A k \in 1..(j - i + 1) : u[k] = s[i + k - 1]
  BY <1>1, Parts
<1>3. \A k \in 1..Len(t) : t[k] = u[k]
  BY <1>2
<1> QED
  BY <1>1, <1>2, <1>3, SeqEqual

LEMMA PartOfPart ==
    ASSUME NEW C, NEW s \in Seq(C), NEW i \in Nat, NEW j \in Nat, NEW a \in Nat, NEW b \in Nat,
           i >= 1, i <= j, j <= Len(s), a >= 1, a <= b, b <= j - i + 1
    PROVE  SubSeq(SubSeq(s, i, j), a, b) = SubSeq(s, i + a - 1, i + b - 1)
<1>1. PICK u \in Seq(C) : u = SubSeq(s, i, j)
  BY Parts
<1>2. Len(u) = j - i + 1 /\ \A k \in 1..(j - i + 1) : u[k] = s[i + k - 1]
  BY <1>1, Parts
<1>3. PICK v \in Seq(C) : v = SubSeq(u, a, b)
  <2>1. b <= Len(u)
    BY <1>2
  <2>2. SubSeq(u, a, b) \in Seq(C)
    BY ONLY a \in Nat, b \in Nat, a >= 1, <2>1, u \in Seq(C), Parts
  <2> QED
    BY <2>2
<1>4. Len(v) = b - a + 1 /\ \A k \in 1..(b - a + 1) : v[k] = u[a + k - 1]
  BY <1>2, <1>3, Parts
<1>5. PICK p \in Nat, q \in Nat : p = i + a - 1 /\ q = i + b - 1
  OBVIOUS
<1>6. \A k \in 1..(b - a + 1) : v[k] = s[p + k - 1]
  <2> TAKE k \in 1..(b - a + 1)
  <2>1. PICK l \in 1..(j - i + 1) : l = a + k - 1
    OBVIOUS
  <2>2. v[k] = s[i + l - 1]
    BY <1>2, <1>4, <2>1
  <2>3. i + l - 1 = p + k - 1
    BY <1>5, <2>1
  <2> QED
    BY <2>2, <2>3
<1>7. /\ p >= 1 /\ p <= q /\ q <= Len(s) /\ b - a + 1 = q - p + 1
  BY <1>5, LenProperties
<1>8. Len(v) = q - p + 1 /\ \A k \in 1..(q - p + 1) : v[k] = s[p + k - 1]
  BY <1>4, <1>6, <1>7
<1>9. v = SubSeq(s, p, q)
  BY <1>7, <1>8, SamePart
<1> QED
  BY <1>1, <1>3, <1>5, <1>9

LEMMA Beginning ==
    ASSUME NEW C, NEW s \in Seq(C), NEW n \in Nat, n <= Len(s)
    PROVE  /\ SubSeq(s, 1, n) \in Seq(C)
           /\ Len(SubSeq(s, 1, n)) = n
           /\ \A k \in 1..n : SubSeq(s, 1, n)[k] = s[k]
<1>1. PICK i \in Nat : i = 1
  OBVIOUS
<1>2. /\ SubSeq(s, i, n) \in Seq(C)
      /\ Len(SubSeq(s, i, n)) = IF i <= n THEN n - i + 1 ELSE 0
      /\ \A k \in 1..(n - i + 1) : SubSeq(s, i, n)[k] = s[i + k - 1]
  BY <1>1, Parts
<1>3. \A k \in 1..n : k \in 1..(n - i + 1) /\ i + k - 1 = k
  BY <1>1
<1> QED
  BY <1>1, <1>2, <1>3

LEMMA Ending ==
    ASSUME NEW C, NEW s \in Seq(C), NEW n \in Nat, n <= Len(s)
    PROVE  /\ SubSeq(s, n + 1, Len(s)) \in Seq(C)
           /\ Len(SubSeq(s, n + 1, Len(s))) = Len(s) - n
           /\ \A k \in 1..(Len(s) - n) : SubSeq(s, n + 1, Len(s))[k] = s[n + k]
<1>1. PICK i \in Nat : i = n + 1
  OBVIOUS
<1>2. PICK l \in Nat : l = Len(s)
  BY LenProperties
<1>3. /\ SubSeq(s, i, l) \in Seq(C)
      /\ Len(SubSeq(s, i, l)) = IF i <= l THEN l - i + 1 ELSE 0
      /\ \A k \in 1..(l - i + 1) : SubSeq(s, i, l)[k] = s[i + k - 1]
  <2>1. i >= 1 /\ l <= Len(s)
    BY <1>1, <1>2
  <2> QED
    BY ONLY i \in Nat, l \in Nat, <2>1, s \in Seq(C), Parts
<1>4. \A k \in 1..(l - n) : k \in 1..(l - i + 1) /\ i + k - 1 = n + k
  BY <1>1
<1>5. Len(SubSeq(s, i, l)) = l - n
  BY <1>1, <1>2, <1>3
<1>6. \A k \in 1..(l - n) : SubSeq(s, i, l)[k] = s[n + k]
  BY <1>3, <1>4
<1> QED
  BY <1>1, <1>2, <1>3, <1>5, <1>6

LEMMA Splits ==
    ASSUME NEW C, NEW s \in Seq(C), NEW n \in Nat, n <= Len(s)
    PROVE  SubSeq(s, 1, n) \o SubSeq(s, n + 1, Len(s)) = s
<1>1. PICK l \in Nat : l = Len(s)
  BY LenProperties
<1>2. 1 \in 1..(Len(s) + 1) /\ n \in (1 - 1)..Len(s) /\ l \in n..Len(s)
  BY <1>1
<1>3. SubSeq(s, 1, n) \o SubSeq(s, n + 1, l) = SubSeq(s, 1, l)
  BY <1>2, ConcatAdjacentSubSeq
<1> QED
  BY <1>1, <1>3, SubSeqFull

\* A part outside of which nothing is kept is filtered like the whole.
LEMMA OnlyOfPart ==
    ASSUME NEW C, NEW S, NEW s \in Seq(C), NEW i \in Nat, NEW j \in Nat,
           i >= 1, i <= j + 1, j <= Len(s),
           \A k \in 1..Len(s) : k < i \/ k > j => s[k] \notin S
    PROVE  Only(SubSeq(s, i, j), S) = Only(s, S)
<1>1. PICK l \in Nat : l = Len(s)
  BY LenProperties
<1>2. PICK h \in Nat : h = i - 1
  OBVIOUS
<1>3. PICK a \in Seq(C) : a = SubSeq(s, 1, h)
  <2>1. h <= Len(s)
    BY <1>1, <1>2
  <2>2. SubSeq(s, 1, h) \in Seq(C)
    BY <2>1, Beginning
  <2> QED
    BY <2>2
<1>4. PICK b \in Seq(C) : b = SubSeq(s, i, j)
  BY Parts
<1>5. PICK c \in Seq(C) : c = SubSeq(s, j + 1, Len(s))
  BY Ending
<1>6. s = (a \o b) \o c
  <2>1. a \o b = SubSeq(s, 1, j)
    <3>1. 1 \in 1..(Len(s) + 1) /\ h \in (1 - 1)..Len(s) /\ j \in h..Len(s)
      BY <1>1, <1>2
    <3>2. SubSeq(s, 1, h) \o SubSeq(s, h + 1, j) = SubSeq(s, 1, j)
      BY <3>1, ConcatAdjacentSubSeq
    <3>3. h + 1 = i
      BY <1>2
    <3> QED
      BY <1>3, <1>4, <3>2, <3>3, Zenon
  <2> QED
    BY <1>5, <2>1, Splits
<1>7. Only(a, S) = <<>>
  <2>1. Len(a) = h /\ \A k \in 1..h : a[k] = s[k]
    BY <1>1, <1>2, <1>3, Beginning
  <2>2. \A k \in 1..Len(a) : a[k] \notin S
    BY <1>1, <1>2, <2>1
  <2> QED
    BY <2>2, OnlyNone
<1>8. Only(c, S) = <<>>
  <2>1. Len(c) = l - j /\ \A k \in 1..(l - j) : c[k] = s[j + k]
    BY <1>1, <1>5, Ending
  <2>2. \A k \in 1..(l - j) : j + k \in 1..l /\ j + k > j
    BY <1>1
  <2>3. \A k \in 1..Len(c) : c[k] \notin S
    BY <1>1, <2>1, <2>2
  <2> QED
    BY <2>3, OnlyNone
<1>9. Only(s, S) = (<<>> \o Only(b, S)) \o <<>>
  <2>1. PICK x \in Seq(C) : x = a \o b
    BY ConcatProperties
  <2>2. Only(s, S) = Only(x, S) \o Only(c, S)
    BY <1>6, <2>1, OnlyOfConcat
  <2>3. Only(x, S) = Only(a, S) \o Only(b, S)
    <3>1. Only(a \o b, S) = Only(a, S) \o Only(b, S)
      BY OnlyOfConcat, Zenon
    <3> QED
      BY <2>1, <3>1
  <2> QED
    BY <1>7, <1>8, <2>2, <2>3
<1>10. Only(b, S) \in Seq(S \cap C)
  BY OnlyType
<1> QED
  BY <1>4, <1>9, <1>10, ConcatEmptySeq

\* What is kept of the beginning is the beginning of what is kept.
LEMMA OnlyOfBeginning ==
    ASSUME NEW C, NEW S, NEW s \in Seq(C), NEW n \in Nat, n <= Len(s)
    PROVE  IsPrefix(Only(SubSeq(s, 1, n), S), Only(s, S))
<1>1. PICK a \in Seq(C) : a = SubSeq(s, 1, n)
  BY Beginning
<1>2. PICK b \in Seq(C) : b = SubSeq(s, n + 1, Len(s))
  BY Ending
<1>4. s = a \o b
  BY <1>1, <1>2, Splits
<1>5. PICK D : D = S \cap C
  OBVIOUS
<1>6. PICK x \in Seq(D), y \in Seq(D) : x = Only(a, S) /\ y = Only(b, S)
  BY <1>5, OnlyType
<1>7. Only(s, S) = x \o y
  BY <1>4, <1>6, OnlyOfConcat
<1>8. PICK m \in Nat, k \in Nat : m = Len(x) /\ k = Len(y)
  BY LenProperties
<1>9. PICK z \in Seq(D) : z = x \o y
  BY ConcatProperties
<1>10. Len(z) = m + k /\ \A i \in 1..m : z[i] = x[i]
  BY <1>8, <1>9, ConcatProperties
<1>11. SubSeq(x, 1, m) = x
  BY <1>8, SubSeqFull
<1>12. SubSeq(z, 1, m) = x
  <2>1. CASE m = 0
    <3>1. SubSeq(z, 1, m) = <<>>
      BY <2>1, SubSeqEmpty
    <3>2. x = <<>>
      BY <1>8, <2>1, EmptySeq
    <3> QED
      BY <3>1, <3>2
  <2>2. CASE m > 0
    <3>1. \A i \in 1..(m - 1 + 1) : x[i] = z[1 + i - 1]
      <4> TAKE i \in 1..(m - 1 + 1)
      <4>1. i \in 1..m /\ 1 + i - 1 = i
        OBVIOUS
      <4> QED
        BY <1>10, <4>1
    <3>2. 1 \in Nat /\ 1 >= 1 /\ 1 <= m /\ m <= Len(z) /\ Len(x) = m - 1 + 1
      BY <1>8, <1>10, <2>2
    <3> QED
      BY <3>1, <3>2, SamePart
  <2> QED
    BY <2>1, <2>2
<1> QED
  BY <1>1, <1>6, <1>7, <1>8, <1>9, <1>10, <1>11, <1>12 DEF IsPrefix

-----------------------------------------------------------------------------
(* Stripping.                                                              *)

\* What is left after the characters at the beginning are gone.
LEMMA LStrips ==
    ASSUME NEW C, NEW chars, NEW s \in Seq(C)
    PROVE  \/ LStrip(s, chars) = <<>> /\ \A k \in 1..Len(s) : s[k] \in chars
           \/ \E i \in 1..Len(s) :
                 /\ LStrip(s, chars) = SubSeq(s, i, Len(s))
                 /\ s[i] \notin chars
                 /\ \A k \in 1..Len(s) : k < i => s[k] \in chars
<1>1. PICK l \in Nat : l = Len(s) /\ DOMAIN s = 1..l
  BY LenProperties
<1>2. PICK T : T = {i \in DOMAIN s : s[i] \notin chars}
  OBVIOUS
<1>3. LStrip(s, chars) = IF T = {} THEN <<>> ELSE SubSeq(s, Min(T), Len(s))
  BY <1>2 DEF LStrip
<1>4. CASE T = {}
  BY <1>1, <1>2, <1>3, <1>4
<1>5. CASE T # {}
  <2>1. T \in SUBSET (0..l)
    BY <1>1, <1>2
  <2>2. PICK i : i = Min(T)
    OBVIOUS
  <2>3. i \in T /\ \A y \in T : i <= y
    BY <1>5, <2>1, <2>2, Bounds
  <2>4. i \in 1..l /\ s[i] \notin chars
    BY <1>1, <1>2, <2>3
  <2>5. \A k \in 1..l : k < i => s[k] \in chars
    BY <1>1, <1>2, <2>3, <2>4
  <2>6. LStrip(s, chars) = SubSeq(s, i, Len(s))
    BY <1>3, <1>5, <2>2
  <2> QED
    BY <1>1, <2>4, <2>5, <2>6
<1> QED
  BY <1>4, <1>5

LEMMA Reverses ==
    ASSUME NEW C, NEW s \in Seq(C)
    PROVE  /\ Reverse(s) \in Seq(C) /\ Len(Reverse(s)) = Len(s)
           /\ \A i \in 1..Len(s) : Reverse(s)[i] = s[Len(s) - i + 1]
<1>1. PICK l \in Nat : l = Len(s)
  BY LenProperties
<1>2. \A i \in 1..l : s[i] \in C
  BY <1>1, ElementOfSeq
<1>3. \A i \in 1..l : l - i + 1 \in 1..l
  OBVIOUS
<1>4. Reverse(s) = [i \in 1..l |-> s[(l - i) + 1]]
  BY <1>1 DEF Reverse
<1>5. Reverse(s) \in [1..l -> C]
  BY <1>2, <1>3, <1>4
<1> QED
  BY <1>1, <1>4, <1>5

\* strip leaves the part from the first to the last character that stays.
LEMMA Strips ==
    ASSUME NEW C, NEW chars, NEW s \in Seq(C)
    PROVE  \/ Strip(s, chars) = <<>> /\ \A k \in 1..Len(s) : s[k] \in chars
           \/ \E i, j \in 1..Len(s) :
                 /\ i <= j
                 /\ Strip(s, chars) = SubSeq(s, i, j)
                 /\ s[i] \notin chars /\ s[j] \notin chars
                 /\ \A k \in 1..Len(s) : k < i \/ k > j => s[k] \in chars
<1>1. PICK l \in Nat : l = Len(s)
  BY LenProperties
<1>2. PICK t : t = LStrip(s, chars)
  OBVIOUS
<1>3. Strip(s, chars) = Reverse(LStrip(Reverse(t), chars))
  BY <1>2 DEF Strip
<1>4. ASSUME \A k \in 1..l : s[k] \in chars, t = <<>>
      PROVE  Strip(s, chars) = <<>>
  <2>1. t \in Seq(C) /\ Len(t) = 0
    BY <1>4, EmptySeq
  <2>2. PICK r \in Seq(C) : r = Reverse(t) /\ Len(r) = 0
    BY <2>1, Reverses
  <2>3. PICK q \in Seq(C) : q = LStrip(r, chars) /\ Len(q) = 0
    <3>1. 1..Len(r) = {}
      BY <2>2
    <3>2. LStrip(r, chars) = <<>>
      BY <3>1, LStrips
    <3> QED
      BY <3>2, EmptySeq
  <2>4. Reverse(q) \in Seq(C) /\ Len(Reverse(q)) = 0
    BY <2>3, Reverses
  <2> QED
    BY <1>3, <2>2, <2>3, <2>4, EmptySeq
<1>5. ASSUME NEW i \in 1..l, t = SubSeq(s, i, l), s[i] \notin chars,
             \A k \in 1..l : k < i => s[k] \in chars
      PROVE  \E j \in 1..l :
                 /\ i <= j
                 /\ Strip(s, chars) = SubSeq(s, i, j)
                 /\ s[j] \notin chars
                 /\ \A k \in 1..l : k < i \/ k > j => s[k] \in chars
  <2>1. t \in Seq(C) /\ Len(t) = l - i + 1 /\ \A k \in 1..(l - i + 1) : t[k] = s[i + k - 1]
    BY <1>1, <1>5, Parts
  <2>2. PICK m \in Nat : m = l - i + 1 /\ m >= 1
    OBVIOUS
  <2>3. PICK r \in Seq(C) : r = Reverse(t)
    BY <2>1, Reverses
  <2>4. Len(r) = m /\ \A k \in 1..m : r[k] = t[m - k + 1]
    <3>1. Len(r) = Len(t) /\ \A k \in 1..Len(t) : r[k] = t[Len(t) - k + 1]
      BY <2>1, <2>3, Reverses
    <3>2. Len(t) = m
      BY <2>1, <2>2
    <3> QED
      BY <3>1, <3>2
  <2>5. \A k \in 1..m : r[k] = s[l - k + 1]
    <3> TAKE k \in 1..m
    <3>1. PICK a \in 1..(l - i + 1) : a = m - k + 1 /\ i + a - 1 = l - k + 1
      BY <2>2
    <3> QED
      BY <2>1, <2>4, <3>1
  <2>6. r[m] \notin chars
    <3>1. m \in 1..m /\ l - m + 1 = i
      BY <2>2
    <3> QED
      BY <1>5, <2>5, <3>1
  <2>7. PICK a \in 1..m : /\ LStrip(r, chars) = SubSeq(r, a, m)
                          /\ r[a] \notin chars
                          /\ \A k \in 1..m : k < a => r[k] \in chars
    <3>1. ~(\A k \in 1..Len(r) : r[k] \in chars)
      BY <2>2, <2>4, <2>6
    <3> QED
      BY <2>4, <3>1, LStrips
  <2>8. PICK q \in Seq(C) : q = SubSeq(r, a, m)
    <3>1. a \in Nat /\ a >= 1 /\ m <= Len(r)
      BY <2>4
    <3> QED
      BY <3>1, Parts
  <2>9. Len(q) = m - a + 1 /\ \A k \in 1..(m - a + 1) : q[k] = r[a + k - 1]
    BY <2>4, <2>8, Parts
  <2>10. PICK j \in 1..l : j = l - a + 1 /\ i <= j
    BY <2>2
  <2>11. PICK n \in Nat : n = m - a + 1 /\ n = j - i + 1
    BY <2>2, <2>10
  <2>12. PICK p \in Seq(C) : p = Reverse(q)
    BY Reverses
  <2>13. Len(p) = n /\ \A k \in 1..n : p[k] = q[n - k + 1]
    <3>1. Len(p) = Len(q) /\ \A k \in 1..Len(q) : p[k] = q[Len(q) - k + 1]
      BY <2>12, Reverses
    <3>2. Len(q) = n
      BY <2>9, <2>11
    <3> QED
      BY <3>1, <3>2
  <2>14. \A k \in 1..(j - i + 1) : p[k] = s[i + k - 1]
    <3> TAKE k \in 1..(j - i + 1)
    <3>1. PICK b \in 1..(m - a + 1) : b = n - k + 1
      BY <2>11
    <3>2. PICK c \in 1..m : c = a + b - 1
      OBVIOUS
    <3>3. l - c + 1 = i + k - 1
      BY <2>10, <2>11, <3>1, <3>2
    <3>4. k \in 1..n
      BY <2>11
    <3>5. p[k] = q[b]
      BY <2>13, <3>1, <3>4
    <3>6. q[b] = r[c]
      BY <2>9, <3>1, <3>2
    <3>7. r[c] = s[l - c + 1]
      BY <2>5
    <3> QED
      BY <3>3, <3>5, <3>6, <3>7
  <2>15. p = SubSeq(s, i, j)
    <3>1. i \in Nat /\ j \in Nat /\ i >= 1 /\ i <= j /\ j <= Len(s) /\ Len(p) = j - i + 1
      BY <1>1, <2>10, <2>11, <2>13
    <3> QED
      BY <2>14, <3>1, SamePart
  <2>16. s[j] \notin chars
    BY <2>5, <2>7, <2>10
  <2>17. ASSUME NEW k \in 1..l, k < i \/ k > j PROVE s[k] \in chars
    <3>1. CASE k < i
      BY <1>5, <3>1
    <3>2. CASE k > j
      <4>1. PICK b \in 1..m : b = l - k + 1 /\ l - b + 1 = k /\ b < a
        BY <2>2, <2>10, <3>2
      <4> QED
        BY <2>5, <2>7, <4>1
    <3> QED
      BY <2>17, <3>1, <3>2
  <2>18. Strip(s, chars) = SubSeq(s, i, j)
    BY <1>3, <2>3, <2>7, <2>8, <2>12, <2>15
  <2> QED
    BY <2>10, <2>16, <2>17, <2>18
<1>6. \/ t = <<>> /\ \A k \in 1..l : s[k] \in chars
      \/ \E i \in 1..l : t = SubSeq(s, i, l) /\ s[i] \notin chars /\ \A k \in 1..l : k < i => s[k] \in chars
  BY <1>1, <1>2, LStrips
<1>7. CASE t = <<>> /\ \A k \in 1..l : s[k] \in chars
  BY <1>1, <1>4, <1>7
<1>8. CASE \E i \in 1..l : t = SubSeq(s, i, l) /\ s[i] \notin chars /\ \A k \in 1..l : k < i => s[k] \in chars
  <2>1. PICK i \in 1..l : t = SubSeq(s, i, l) /\ s[i] \notin chars /\ \A k \in 1..l : k < i => s[k] \in chars
    BY <1>8
  <2>2. PICK j \in 1..l :
                 /\ i <= j
                 /\ Strip(s, chars) = SubSeq(s, i, j)
                 /\ s[j] \notin chars
                 /\ \A k \in 1..l : k < i \/ k > j => s[k] \in chars
    BY <1>5, <2>1
  <2> QED
    BY <1>1, <2>1, <2>2
<1> QED
  BY <1>6, <1>7, <1>8

-----------------------------------------------------------------------------
(* Safe characters.                                                        *)

LEMMA Replaces ==
    ASSUME NEW C, NEW s \in Seq(C)
    PROVE  /\ Replaced(s) \in Seq(Safe) /\ Len(Replaced(s)) = Len(s)
           /\ LettersOf(Replaced(s)) = LettersOf(s)
<1>1. PICK l \in Nat : l = Len(s) /\ DOMAIN s = 1..l
  BY LenProperties
<1>2. PICK r : r = Replaced(s)
  OBVIOUS
<1>3. r = [i \in 1..l |-> IF s[i] \in Safe THEN s[i] ELSE "_"]
  BY <1>1, <1>2 DEF Replaced
<1>4. "_" \in Safe /\ "_" \notin Letters /\ Letters \subseteq Safe
  BY DEF Safe, Separators, Letters
<1>5. r \in [1..l -> Safe]
  BY <1>3, <1>4
<1>6. r \in Seq(Safe) /\ Len(r) = l
  BY <1>5
<1>7. \A i \in 1..Len(r) : r[i] = s[i] \/ (r[i] \notin Letters /\ s[i] \notin Letters)
  BY <1>3, <1>4, <1>6
<1>8. Only(r, Letters) = Only(s, Letters)
  BY <1>1, <1>6, <1>7, OnlyAgrees
<1> QED
  BY <1>1, <1>2, <1>6, <1>8 DEF LettersOf

\* No two separators in a row.
Apart(s) == \A i \in 1..(Len(s) - 1) : s[i] \in Letters \/ s[i + 1] \in Letters

LEMMA ApartGrows ==
    ASSUME NEW s \in Seq(Safe), NEW c \in Safe, Apart(s),
           s # <<>> => s[Len(s)] \in Letters \/ c \in Letters
    PROVE  Apart(Append(s, c))
<1>1. PICK l \in Nat : l = Len(s)
  BY LenProperties
<1>2. PICK t : t = Append(s, c)
  OBVIOUS
<1>3. Len(t) = l + 1 /\ t[l + 1] = c /\ \A i \in 1..l : t[i] = s[i]
  BY <1>1, <1>2, AppendProperties
<1>4. ASSUME NEW i \in 1..l PROVE t[i] \in Letters \/ t[i + 1] \in Letters
  <2>1. CASE i = l
    <3>1. s # <<>>
      BY <1>1, <2>1, EmptySeq
    <3> QED
      BY <1>1, <1>3, <2>1, <3>1
  <2>2. CASE i # l
    <3>1. i \in 1..(l - 1) /\ i + 1 \in 1..l
      BY <2>2
    <3>2. s[i] \in Letters \/ s[i + 1] \in Letters
      BY <1>1, <3>1 DEF Apart
    <3> QED
      BY <1>3, <3>1, <3>2
  <2> QED
    BY <2>1, <2>2
<1>5. Len(t) - 1 = l
  BY <1>3
<1> QED
  BY <1>2, <1>4, <1>5 DEF Apart

\* A run of separators becomes one, and the letters stay.
LEMMA Collapses ==
    ASSUME NEW s \in Seq(Safe)
    PROVE  /\ Collapsed(s) \in Seq(Safe) /\ Len(Collapsed(s)) <= Len(s)
           /\ Apart(Collapsed(s))
           /\ LettersOf(Collapsed(s)) = LettersOf(s)
<1>1. PICK l \in Nat : l = Len(s) /\ DOMAIN s = 1..l
  BY LenProperties
<1>2. PICK h : h = [i \in 1..l |->
                      IF s[i] \in Separators /\ i - 1 \in 1..l /\ s[i - 1] \in Separators THEN "gone"
                      ELSE IF s[i] \in Separators /\ i + 1 \in 1..l /\ s[i + 1] \in Separators THEN "_"
                      ELSE s[i]]
  OBVIOUS
<1>3. Collapsed(s) = Only(h, Safe)
  BY <1>1, <1>2 DEF Collapsed
<1>4. \A i \in 1..l : s[i] \in Safe
  BY <1>1, ElementOfSeq
<1>5. PICK C : C = Safe \cup {"gone"}
  OBVIOUS
<1>6. "_" \in Separators /\ "gone" \notin Safe /\ Letters \cap Separators = {} /\ Safe = Letters \cup Separators
  BY DEF Safe, Separators, Letters
<1>7. h \in Seq(C) /\ Len(h) = l
  <2>1. h \in [1..l -> C]
    BY <1>2, <1>4, <1>5, <1>6
  <2> QED
    BY <2>1
<1>8. \A i \in 1..l :
         /\ h[i] \in Safe => (h[i] \in Letters <=> s[i] \in Letters)
         /\ h[i] \notin Safe => s[i] \in Separators
         /\ h[i] \in Letters => h[i] = s[i]
         /\ s[i] \in Letters => h[i] = s[i]
         /\ (h[i] \in Separators /\ i - 1 \in 1..l) => s[i - 1] \in Letters
  <2> TAKE i \in 1..l
  <2>1. h[i] = IF s[i] \in Separators /\ i - 1 \in 1..l /\ s[i - 1] \in Separators THEN "gone"
               ELSE IF s[i] \in Separators /\ i + 1 \in 1..l /\ s[i + 1] \in Separators THEN "_"
               ELSE s[i]
    BY <1>2
  <2> QED
    BY <1>4, <1>6, <2>1
<1>9. PICK k : k = Only(h, Safe)
  OBVIOUS
<1>10. k \in Seq(Safe) /\ Len(k) <= l
  <2>1. Safe \cap C = Safe
    BY <1>5
  <2> QED
    BY <1>7, <1>9, <2>1, OnlyType
<1>11. Only(k, Letters) = Only(s, Letters)
  <2>1. Only(k, Letters) = Only(h, Letters)
    <3>1. Letters \subseteq Safe
      BY <1>6
    <3> QED
      BY <1>7, <1>9, <3>1, OnlyOfOnly
  <2>2. \A i \in 1..Len(h) : h[i] = s[i] \/ (h[i] \notin Letters /\ s[i] \notin Letters)
    BY <1>7, <1>8
  <2>3. Only(h, Letters) = Only(s, Letters)
    BY <1>1, <1>7, <2>2, OnlyAgrees
  <2> QED
    BY <2>1, <2>3
<1>12. Apart(k)
  <2>1. PICK U : U = {n \in Nat : n <= l =>
                        LET o == Only(SubSeq(h, 1, n), Safe) IN
                        /\ o \in Seq(Safe) /\ Apart(o)
                        /\ o # <<>> => n >= 1 /\ (o[Len(o)] \in Letters \/ s[n] \in Separators)}
    OBVIOUS
  <2>2. 0 \in U
    <3>1. Only(SubSeq(h, 1, 0), Safe) = <<>>
      BY NoPrefix
    <3>2. <<>> \in Seq(Safe) /\ Apart(<<>>)
      BY EmptySeq DEF Apart
    <3> QED
      BY <2>1, <3>1, <3>2
  <2>3. ASSUME NEW n \in Nat, n \in U PROVE n + 1 \in U
    <3> SUFFICES ASSUME n + 1 <= l
                 PROVE  LET o == Only(SubSeq(h, 1, n + 1), Safe) IN
                        /\ o \in Seq(Safe) /\ Apart(o)
                        /\ o # <<>> => n + 1 >= 1 /\ (o[Len(o)] \in Letters \/ s[n + 1] \in Separators)
      BY <2>1
    <3>1. PICK o : o = Only(SubSeq(h, 1, n), Safe)
      OBVIOUS
    <3>2. /\ o \in Seq(Safe) /\ Apart(o)
          /\ o # <<>> => n >= 1 /\ (o[Len(o)] \in Letters \/ s[n] \in Separators)
      BY <2>1, <2>3, <3>1
    <3>3. PICK j \in 1..l : j = n + 1 /\ j - 1 = n
      OBVIOUS
    <3>4. PICK p : p = Only(SubSeq(h, 1, n + 1), Safe)
      OBVIOUS
    <3>5. p = IF h[j] \in Safe THEN Append(o, h[j]) ELSE o
      BY <1>7, <3>1, <3>3, <3>4, OnlyOfPrefix
    <3>6. CASE h[j] \notin Safe
      <4>1. s[j] \in Separators /\ p = o
        BY <1>8, <3>5, <3>6
      <4> QED
        BY <3>2, <3>3, <3>4, <4>1
    <3>7. CASE h[j] \in Safe
      <4>1. p = Append(o, h[j])
        BY <3>5, <3>7
      <4>2. o # <<>> => o[Len(o)] \in Letters \/ h[j] \in Letters
        <5> SUFFICES ASSUME o # <<>>, h[j] \notin Letters, o[Len(o)] \notin Letters PROVE FALSE
          OBVIOUS
        <5>1. n \in 1..l /\ s[n] \in Separators
          BY <3>2
        <5>2. h[j] \in Separators /\ j - 1 \in 1..l
          BY <1>6, <3>3, <3>7, <5>1
        <5>3. s[j - 1] \in Letters
          BY <1>8, <5>2
        <5> QED
          BY <1>6, <3>3, <5>1, <5>3
      <4>3. Apart(p)
        BY <3>2, <3>7, <4>1, <4>2, ApartGrows
      <4>4. p \in Seq(Safe) /\ Len(p) = Len(o) + 1 /\ p[Len(o) + 1] = h[j]
        BY <3>2, <3>7, <4>1, AppendProperties
      <4>5. h[j] \in Letters \/ s[j] \in Separators
        BY <1>4, <1>6, <1>8, <3>7
      <4> QED
        BY <3>3, <3>4, <4>3, <4>4, <4>5
    <3> QED
      BY <3>6, <3>7
  <2>4. \A n \in Nat : n \in U
    BY <2>2, <2>3, Induction, Zenon
  <2>5. Apart(Only(SubSeq(h, 1, l), Safe))
    BY <2>1, <2>4
  <2>6. SubSeq(h, 1, l) = h
    BY <1>7, SubSeqFull
  <2> QED
    BY <1>9, <2>5, <2>6
<1> QED
  BY <1>1, <1>3, <1>9, <1>10, <1>11, <1>12 DEF LettersOf

\* What becomes of the last component of a path.
Cleaned(s) == OrUnnamed(Truncated(Strip(Collapsed(Replaced(LStrip(s, {"."}))), Separators)))

\* A name that is safe to store.
WellNamed(n) ==
    /\ n \in Seq(Safe) /\ Len(n) \in 1..MaxFilenameLength
    /\ n[1] \in Letters /\ Apart(n)
    /\ n[Len(n)] \in Letters \/ Len(n) = MaxFilenameLength

\* Letters that survive: those of s, in their order, and all of them unless n is cut off.
KeepsLetters(n, s) ==
    /\ IsPrefix(LettersOf(n), LettersOf(s))
    /\ LettersOf(n) = LettersOf(s) \/ Len(n) = MaxFilenameLength

LEMMA StripsDots ==
    ASSUME NEW C, NEW s \in Seq(C)
    PROVE  /\ LStrip(s, {"."}) \in Seq(C) /\ Len(LStrip(s, {"."})) <= Len(s)
           /\ LettersOf(LStrip(s, {"."})) = LettersOf(s)
<1>0. "." \notin Letters
  BY DEF Letters
<1>1. PICK l \in Nat : l = Len(s)
  BY LenProperties
<1>2. PICK t : t = LStrip(s, {"."})
  OBVIOUS
<1>3. CASE t = <<>> /\ \A k \in 1..l : s[k] \in {"."}
  <2>1. t \in Seq(C) /\ Len(t) = 0
    BY <1>3, EmptySeq
  <2>2. \A k \in 1..Len(s) : s[k] \notin Letters
    BY <1>0, <1>1, <1>3
  <2>3. Only(s, Letters) = <<>>
    BY <2>2, OnlyNone
  <2>4. Only(t, Letters) = <<>>
    BY <1>3, OnlyOfEmpty
  <2> QED
    BY <1>1, <1>2, <2>1, <2>3, <2>4 DEF LettersOf
<1>4. ASSUME NEW i \in 1..l, t = SubSeq(s, i, l), \A k \in 1..l : k < i => s[k] \in {"."}
      PROVE  t \in Seq(C) /\ Len(t) <= l /\ Only(t, Letters) = Only(s, Letters)
  <2>1. t \in Seq(C) /\ Len(t) = l - i + 1
    BY <1>1, <1>4, Parts
  <2>2. i \in Nat /\ i >= 1 /\ i <= l + 1 /\ l <= Len(s)
    BY <1>1
  <2>3. \A k \in 1..Len(s) : k < i \/ k > l => s[k] \notin Letters
    BY <1>0, <1>1, <1>4
  <2>4. Only(t, Letters) = Only(s, Letters)
    BY <1>4, <2>2, <2>3, OnlyOfPart
  <2> QED
    BY <2>1, <2>4
<1>5. \/ t = <<>> /\ \A k \in 1..l : s[k] \in {"."}
      \/ \E i \in 1..l : t = SubSeq(s, i, l) /\ \A k \in 1..l : k < i => s[k] \in {"."}
  BY <1>1, <1>2, LStrips
<1>6. CASE \E i \in 1..l : t = SubSeq(s, i, l) /\ \A k \in 1..l : k < i => s[k] \in {"."}
  BY <1>1, <1>2, <1>4, <1>6 DEF LettersOf
<1> QED
  BY <1>3, <1>5, <1>6

LEMMA ApartPart ==
    ASSUME NEW s \in Seq(Safe), Apart(s), NEW i \in Nat, NEW j \in Nat, i >= 1, i <= j, j <= Len(s)
    PROVE  Apart(SubSeq(s, i, j))
<1>1. PICK l \in Nat : l = Len(s)
  BY LenProperties
<1>2. PICK t : t = SubSeq(s, i, j)
  OBVIOUS
<1>3. Len(t) = j - i + 1 /\ \A k \in 1..(j - i + 1) : t[k] = s[i + k - 1]
  BY <1>2, Parts
<1>4. ASSUME NEW k \in 1..(Len(t) - 1) PROVE t[k] \in Letters \/ t[k + 1] \in Letters
  <2>1. PICK a \in 1..(l - 1) : a = i + k - 1 /\ a + 1 = i + (k + 1) - 1
    <3>1. k \in 1..(j - i)
      BY <1>3
    <3>2. j <= l
      BY <1>1
    <3> QED
      BY <3>1, <3>2
  <2>2. k \in 1..(j - i + 1) /\ k + 1 \in 1..(j - i + 1)
    BY <1>3
  <2>3. t[k] = s[a] /\ t[k + 1] = s[a + 1]
    BY <1>3, <2>1, <2>2
  <2>4. s[a] \in Letters \/ s[a + 1] \in Letters
    BY <1>1, <2>1 DEF Apart
  <2> QED
    BY <2>3, <2>4
<1> QED
  BY <1>2, <1>4 DEF Apart

LEMMA UnnamedIsWellNamed == WellNamed(Unnamed) /\ Unnamed \in Seq(Letters) /\ Len(Unnamed) = 1
  BY LengthAssumption DEF WellNamed, Unnamed, Safe, Letters, Separators, Apart

LEMMA Cleans ==
    ASSUME NEW C, NEW s \in Seq(C)
    PROVE  /\ WellNamed(Cleaned(s)) /\ Len(Cleaned(s)) <= AtLeastOne(Len(s))
           /\ LettersOf(s) = <<>> => Cleaned(s) = Unnamed
           /\ LettersOf(s) # <<>> => KeepsLetters(Cleaned(s), s)
<1>1. PICK l \in Nat : l = Len(s)
  BY LenProperties
<1>2. PICK d \in Seq(C) : d = LStrip(s, {"."})
  BY StripsDots
<1>3. Len(d) <= l /\ Len(d) \in Nat /\ LettersOf(d) = LettersOf(s)
  BY <1>1, <1>2, StripsDots, LenProperties
<1>4. PICK r \in Seq(Safe) : r = Replaced(d) /\ Len(r) = Len(d) /\ LettersOf(r) = LettersOf(d)
  BY Replaces
<1>5. PICK k \in Seq(Safe) : k = Collapsed(r) /\ Len(k) <= Len(r) /\ Apart(k) /\ LettersOf(k) = LettersOf(r)
  BY Collapses
<1>6. PICK m \in Nat : m = Len(k) /\ m <= l
  BY <1>1, <1>3, <1>4, <1>5, LenProperties
<1>7. LettersOf(k) = LettersOf(s)
  BY <1>3, <1>4, <1>5
<1>8. PICK t : t = Strip(k, Separators)
  OBVIOUS
<1>9. PICK n : n = Cleaned(s)
  OBVIOUS
<1>10. n = OrUnnamed(Truncated(t))
  BY <1>2, <1>4, <1>5, <1>8, <1>9 DEF Cleaned
<1>11. \A c \in Safe : c \in Letters <=> c \notin Separators
  BY DEF Safe, Letters, Separators
<1>12. \A i \in 1..m : k[i] \in Safe
  BY <1>6, ElementOfSeq
<1>13. MaxFilenameLength \in Nat /\ MaxFilenameLength >= 1
  BY LengthAssumption
<1>14. CASE t = <<>> /\ \A i \in 1..m : k[i] \in Separators
  <2>1. Truncated(t) = <<>>
    <3>1. Len(t) = 0
      BY <1>14, EmptySeq
    <3>2. Truncated(t) = SubSeq(t, 1, 0)
      BY <1>13, <3>1 DEF Truncated
    <3> QED
      BY <3>2, SubSeqEmpty
  <2>2. n = Unnamed
    BY <1>10, <2>1 DEF OrUnnamed
  <2>3. LettersOf(k) = <<>>
    <3>1. \A i \in 1..Len(k) : k[i] \notin Letters
      BY <1>6, <1>11, <1>12, <1>14
    <3> QED
      BY <3>1, OnlyNone DEF LettersOf
  <2>4. WellNamed(n) /\ Len(n) <= AtLeastOne(Len(s))
    BY <1>1, <2>2, UnnamedIsWellNamed DEF AtLeastOne
  <2> QED
    BY <1>7, <1>9, <2>2, <2>3, <2>4
<1>15. ASSUME NEW i \in 1..m, NEW j \in 1..m, i <= j, t = SubSeq(k, i, j),
              k[i] \notin Separators, k[j] \notin Separators,
              \A h \in 1..m : h < i \/ h > j => k[h] \in Separators
       PROVE  WellNamed(n) /\ Len(n) <= AtLeastOne(Len(s)) /\ LettersOf(s) # <<>> /\ KeepsLetters(n, s)
  <2>1. i \in Nat /\ j \in Nat /\ i >= 1 /\ j <= Len(k) /\ i <= j + 1
    BY <1>6, <1>15
  <2>2. /\ t \in Seq(Safe) /\ Len(t) = j - i + 1
        /\ \A h \in 1..(j - i + 1) : t[h] = k[i + h - 1]
    <3>1. t \in Seq(Safe) /\ (Len(t) = IF i <= j THEN j - i + 1 ELSE 0)
      BY ONLY <1>15, <2>1, k \in Seq(Safe), Parts
    <3>2. \A h \in 1..(j - i + 1) : t[h] = k[i + h - 1]
      BY ONLY <1>15, <2>1, k \in Seq(Safe), Parts
    <3> QED
      BY <1>15, <3>1, <3>2
  <2>3. PICK q \in Nat : q = Len(t) /\ q = j - i + 1 /\ q >= 1 /\ q <= l
    BY <1>6, <1>15, <2>2
  <2>4. t[1] \in Letters /\ t[q] \in Letters
    <3>1. 1 \in 1..(j - i + 1) /\ q \in 1..(j - i + 1) /\ i + 1 - 1 = i /\ i + q - 1 = j
      BY <1>15, <2>3
    <3>2. t[1] = k[i] /\ t[q] = k[j]
      BY <2>2, <3>1
    <3> QED
      BY <1>11, <1>12, <1>15, <3>2
  <2>5. Apart(t)
    BY <1>5, <1>15, <2>1, ApartPart
  <2>6. LettersOf(t) = LettersOf(k)
    <3>1. \A h \in 1..Len(k) : h < i \/ h > j => k[h] \notin Letters
      BY <1>6, <1>11, <1>12, <1>15
    <3> QED
      BY <1>15, <2>1, <3>1, OnlyOfPart DEF LettersOf
  <2>7. LettersOf(t) # <<>>
    <3>1. ~(\A h \in 1..Len(t) : t[h] \notin Letters)
      BY <2>3, <2>4
    <3> QED
      BY <2>2, <3>1, OnlyNone DEF LettersOf
  <2>8. PICK e \in Nat : e = IF q > MaxFilenameLength THEN MaxFilenameLength ELSE q
    BY <1>13
  <2>9. e >= 1 /\ e <= q /\ e <= MaxFilenameLength /\ (e = q \/ e = MaxFilenameLength)
    BY <1>13, <2>3, <2>8
  <2>10. PICK u : u = Truncated(t)
    OBVIOUS
  <2>11. u = SubSeq(t, 1, e)
    BY <2>3, <2>8, <2>10 DEF Truncated
  <2>12. u \in Seq(Safe) /\ Len(u) = e /\ \A h \in 1..e : u[h] = t[h]
    BY <2>2, <2>3, <2>9, <2>11, Beginning
  <2>13. n = u
    <3>1. u # <<>>
      BY <2>9, <2>12, EmptySeq
    <3> QED
      BY <1>10, <2>10, <3>1 DEF OrUnnamed
  <2>14. Apart(u)
    <3>1. 1 \in Nat /\ 1 >= 1 /\ 1 <= e /\ e <= Len(t)
      BY <2>3, <2>9
    <3> QED
      BY <2>2, <2>5, <2>11, <3>1, ApartPart
  <2>15. u[1] \in Letters /\ (u[e] \in Letters \/ e = MaxFilenameLength)
    <3>0. 1 \in 1..e /\ e \in 1..e
      BY <2>9
    <3>1. u[1] = t[1] /\ u[e] = t[e]
      BY <2>12, <3>0
    <3> QED
      BY <2>4, <2>9, <3>1
  <2>16. WellNamed(n)
    BY <1>13, <2>9, <2>12, <2>13, <2>14, <2>15 DEF WellNamed
  <2>17. IsPrefix(LettersOf(u), LettersOf(t))
    <3>1. e <= Len(t)
      BY <2>3, <2>9
    <3> QED
      BY <2>2, <2>11, <3>1, OnlyOfBeginning DEF LettersOf
  <2>18. LettersOf(u) = LettersOf(t) \/ Len(u) = MaxFilenameLength
    <3>1. CASE e = q
      BY <2>2, <2>3, <2>11, <3>1, SubSeqFull
    <3>2. CASE e = MaxFilenameLength
      BY <2>12, <3>2
    <3> QED
      BY <2>9, <3>1, <3>2
  <2>19. KeepsLetters(n, s)
    BY <1>7, <2>6, <2>13, <2>17, <2>18 DEF KeepsLetters
  <2>20. Len(n) <= AtLeastOne(Len(s))
    BY <1>1, <2>3, <2>9, <2>12, <2>13 DEF AtLeastOne
  <2> QED
    BY <1>7, <2>6, <2>7, <2>16, <2>19, <2>20
<1>16. \/ t = <<>> /\ \A i \in 1..m : k[i] \in Separators
       \/ \E i, j \in 1..m : /\ i <= j /\ t = SubSeq(k, i, j)
                             /\ k[i] \notin Separators /\ k[j] \notin Separators
                             /\ \A h \in 1..m : h < i \/ h > j => k[h] \in Separators
  BY <1>6, <1>8, Strips
<1> QED
  BY <1>9, <1>14, <1>15, <1>16

-----------------------------------------------------------------------------
(* Paths.                                                                  *)

Slashes == {"/", "backslash"}
Plain == Safe \cup Slashes \cup {"blank"}

Flattens(f, q, m) == f = [i \in 1..m |-> IF i = 1 THEN q[i] ELSE f[i - 1] \o q[i]]

LEMMA FlattenExists ==
    ASSUME NEW q
    PROVE  \A m \in Nat : \E f : Flattens(f, q, m)
<1>1. PICK U : U = {m \in Nat : \E f : Flattens(f, q, m)}
  OBVIOUS
<1>2. 0 \in U
  <2>1. PICK f : f = [i \in 1..0 |-> <<>>]
    OBVIOUS
  <2>2. Flattens(f, q, 0)
    BY <2>1 DEF Flattens
  <2> QED
    BY <1>1, <2>2
<1>3. ASSUME NEW m \in Nat, m \in U PROVE m + 1 \in U
  <2>1. PICK f : Flattens(f, q, m)
    BY <1>1, <1>3
  <2>2. PICK l : l = IF m = 0 THEN q[m + 1] ELSE f[m] \o q[m + 1]
    OBVIOUS
  <2>3. PICK g : g = [i \in 1..(m + 1) |-> IF i = m + 1 THEN l ELSE f[i]]
    OBVIOUS
  <2>4. \A i \in 1..(m + 1) : g[i] = IF i = 1 THEN q[i] ELSE g[i - 1] \o q[i]
    <3> TAKE i \in 1..(m + 1)
    <3>1. CASE i = m + 1 /\ m = 0
      BY <2>2, <2>3, <3>1
    <3>2. CASE i = m + 1 /\ m # 0
      <4>1. i # 1 /\ i - 1 = m /\ m \in 1..(m + 1) /\ m # m + 1
        BY <3>2
      <4>2. l = f[m] \o q[i]
        BY <2>2, <3>2, Zenon
      <4>3. g[i] = l /\ g[m] = f[m]
        BY <2>3, <3>2, <4>1
      <4> QED
        BY <4>1, <4>2, <4>3
    <3>3. CASE i \in 1..m
      <4>1. g[i] = f[i] /\ (i # 1 => g[i - 1] = f[i - 1])
        BY <2>3, <3>3
      <4>2. f[i] = IF i = 1 THEN q[i] ELSE f[i - 1] \o q[i]
        BY <2>1, <3>3 DEF Flattens
      <4> QED
        BY <4>1, <4>2
    <3> QED
      BY <3>1, <3>2, <3>3
  <2>5. Flattens(g, q, m + 1)
    BY <2>3, <2>4 DEF Flattens
  <2> QED
    BY <1>1, <2>5
<1>4. \A m \in Nat : m \in U
  BY <1>2, <1>3, Induction, Zenon
<1> QED
  BY <1>1, <1>4

LEMMA FlattenSeqFlattens ==
    ASSUME NEW q, Len(q) \in Nat \ {0}
    PROVE  \E f : Flattens(f, q, Len(q)) /\ FlattenSeq(q) = f[Len(q)]
<1>1. PICK f : f = CHOOSE g : Flattens(g, q, Len(q))
  OBVIOUS
<1>2. Flattens(f, q, Len(q))
  BY <1>1, FlattenExists, Zenon
<1>3. FlattenSeq(q) = f[Len(q)]
  BY <1>1 DEF FlattenSeq, Flattens
<1> QED
  BY <1>2, <1>3

LEMMA FlattenSeqType ==
    ASSUME NEW C, NEW q \in Seq(Seq(C)), q # <<>>
    PROVE  FlattenSeq(q) \in Seq(C)
<1>1. PICK l \in Nat \ {0} : l = Len(q)
  BY EmptySeq
<1>2. PICK f : Flattens(f, q, l) /\ FlattenSeq(q) = f[l]
  BY <1>1, FlattenSeqFlattens
<1>3. \A i \in 1..l : q[i] \in Seq(C)
  BY <1>1, ElementOfSeq
<1>4. \A i \in 1..l : f[i] = IF i = 1 THEN q[i] ELSE f[i - 1] \o q[i]
  BY <1>2 DEF Flattens
<1>5. PICK U : U = {n \in Nat : n \in 1..l => f[n] \in Seq(C)}
  OBVIOUS
<1>6. 0 \in U
  BY <1>5
<1>7. ASSUME NEW n \in Nat, n \in U PROVE n + 1 \in U
  <2> SUFFICES ASSUME n + 1 \in 1..l PROVE f[n + 1] \in Seq(C)
    BY <1>5
  <2>1. CASE n = 0
    <3>1. 1 \in 1..l
      BY <2>1
    <3>2. f[1] = q[1]
      BY <1>4, <3>1
    <3> QED
      BY <1>3, <2>1, <3>1, <3>2
  <2>2. CASE n # 0
    <3>1. PICK i \in 1..l : i = n + 1 /\ i # 1 /\ i - 1 = n
      BY <2>2
    <3>2. f[i] = f[n] \o q[i]
      BY <1>4, <3>1
    <3>3. f[n] \in Seq(C) /\ q[i] \in Seq(C)
      BY <1>3, <1>5, <1>7, <2>2
    <3>4. f[n] \o q[i] \in Seq(C)
      BY <3>3, ConcatProperties
    <3> QED
      BY <3>1, <3>2, <3>4
  <2> QED
    BY <2>1, <2>2
<1>8. \A n \in Nat : n \in U
  BY <1>6, <1>7, Induction, Zenon
<1> QED
  BY <1>1, <1>2, <1>5, <1>8

LEMMA NormalisesType ==
    ASSUME NEW s \in Seq(Characters)
    PROVE  Normalised(s) \in Seq(Plain)
<1>1. PICK l \in Nat : l = Len(s) /\ DOMAIN s = 1..l
  BY LenProperties
<1>2. PICK q : q = [i \in 1..l |-> Ascii(s[i])]
  OBVIOUS
<1>3. Normalised(s) = FlattenSeq(q)
  BY <1>1, <1>2 DEF Normalised
<1>4. \A c \in Characters : Ascii(c) \in Seq(Plain)
  <2> TAKE c \in Characters
  <2>1. CASE c \in {"null", "han"}
    <3>1. Ascii(c) = <<>>
      BY <2>1 DEF Ascii
    <3> QED
      BY <3>1, EmptySeq
  <2>2. CASE c = "accented"
    <3>1. Ascii(c) = <<"w">>
      BY <2>2 DEF Ascii
    <3> QED
      BY <3>1 DEF Plain, Safe, Letters
  <2>3. CASE c = "wideslash"
    <3>1. Ascii(c) = <<"/">>
      BY <2>3 DEF Ascii
    <3> QED
      BY <3>1 DEF Plain, Slashes
  <2>4. CASE c = "ellipsis"
    <3>1. Ascii(c) = <<".", ".", ".">>
      BY <2>4 DEF Ascii
    <3> QED
      BY <3>1 DEF Plain, Safe, Separators
  <2>5. CASE c \notin {"null", "han", "accented", "wideslash", "ellipsis"}
    <3>1. Ascii(c) = <<c>>
      BY <2>5 DEF Ascii
    <3>2. c \in Plain
      BY <2>5 DEF Characters, Plain, Slashes
    <3> QED
      BY <3>1, <3>2
  <2> QED
    BY <2>1, <2>2, <2>3, <2>4, <2>5
<1>5. \A i \in 1..l : s[i] \in Characters
  BY <1>1, ElementOfSeq
<1>6. q \in [1..l -> Seq(Plain)]
  BY <1>2, <1>4, <1>5
<1>7. q \in Seq(Seq(Plain)) /\ Len(q) = l
  BY <1>6
<1>8. CASE l = 0
  <2>1. q = <<>> /\ Len(q) = 0
    BY <1>7, <1>8, EmptySeq
  <2>2. FlattenSeq(q) = <<>>
    BY <2>1 DEF FlattenSeq
  <2> QED
    BY <1>3, <2>2, EmptySeq
<1>9. CASE l # 0
  <2>1. q # <<>>
    BY <1>7, <1>9, EmptySeq
  <2> QED
    BY <1>3, <1>7, <2>1, FlattenSeqType
<1> QED
  BY <1>8, <1>9

LEMMA NormalisesEmpty == Normalised(<<>>) = <<>>
<1>1. PICK q : q = [i \in DOMAIN <<>> |-> Ascii(<<>>[i])]
  OBVIOUS
<1>2. DOMAIN <<>> = 1..0
  BY EmptySeq, LenProperties
<1>3. q \in Seq({}) /\ Len(q) = 0
  BY <1>1, <1>2
<1>4. q = <<>>
  BY <1>3, EmptySeq
<1> QED
  BY <1>1, <1>3, <1>4 DEF Normalised, FlattenSeq

LEMMA NormalisesUnnamed == Normalised(Unnamed) = Unnamed
<1>1. PICK q : q = [i \in 1..1 |-> Ascii(Unnamed[i])]
  OBVIOUS
<1>2. DOMAIN Unnamed = 1..1 /\ Unnamed[1] = "w"
  BY DEF Unnamed
<1>3. q[1] = Unnamed
  BY <1>1, <1>2 DEF Ascii, Unnamed
<1>4. q \in [1..1 -> {Unnamed}]
  BY <1>1, <1>3
<1>5. Len(q) = 1
  BY <1>4
<1>6. PICK f : Flattens(f, q, 1) /\ FlattenSeq(q) = f[1]
  <2>1. Len(q) \in Nat \ {0}
    BY <1>5
  <2>2. \E f : Flattens(f, q, Len(q)) /\ FlattenSeq(q) = f[Len(q)]
    BY <2>1, FlattenSeqFlattens
  <2> QED
    BY <1>5, <2>2
<1>7. f[1] = q[1]
  BY <1>6 DEF Flattens
<1> QED
  BY <1>1, <1>2, <1>3, <1>6, <1>7 DEF Normalised

\* The parts between slashes, as PurePosixPath sees them.
Component(s, r) ==
    /\ \A k \in r[1]..r[2] : s[k] # "/"
    /\ r[1] > 1 => s[r[1] - 1] = "/"
    /\ r[2] < Len(s) => s[r[2] + 1] = "/"

Components(s) ==
    {r \in (DOMAIN s) \X (DOMAIN s) :
        r[1] <= r[2] /\ Component(s, r) /\ SubSeq(s, r[1], r[2]) # <<".">>}

\* A letter lies in one of them.
LEMMA HasComponent ==
    ASSUME NEW C, NEW s \in Seq(C), NEW k \in 1..Len(s), s[k] \in Letters
    PROVE  \E r \in Components(s) : k \in r[1]..r[2]
<1>1. PICK l \in Nat : l = Len(s) /\ DOMAIN s = 1..l
  BY LenProperties
<1>2. "/" \notin Letters /\ "." \notin Letters
  BY DEF Letters
<1>3. PICK A : A = {0} \cup {i \in 1..l : i < k /\ s[i] = "/"}
  OBVIOUS
<1>4. PICK B : B = {l + 1} \cup {i \in 1..l : i > k /\ s[i] = "/"}
  OBVIOUS
<1>5. PICK x : x = Max(A)
  OBVIOUS
<1>6. x \in A /\ \A y \in A : y <= x
  <2>1. A \in SUBSET (0..l) /\ A # {}
    BY <1>3
  <2> QED
    BY <1>5, <2>1, Bounds
<1>7. PICK z : z = Min(B)
  OBVIOUS
<1>8. z \in B /\ \A y \in B : z <= y
  <2>1. B \in SUBSET (0..(l + 1)) /\ B # {} /\ l + 1 \in Nat
    BY <1>4
  <2> QED
    BY <1>7, <2>1, Bounds
<1>9. x \in 0..(k - 1) /\ (x > 0 => s[x] = "/")
  BY <1>1, <1>3, <1>6
<1>10. z \in (k + 1)..(l + 1) /\ (z <= l => s[z] = "/")
  BY <1>1, <1>4, <1>8
<1>11. PICK a \in 1..l, b \in 1..l : a = x + 1 /\ b = z - 1 /\ a <= k /\ k <= b
  BY <1>1, <1>9, <1>10
<1>12. ASSUME NEW i \in a..b PROVE s[i] # "/"
  <2> SUFFICES ASSUME s[i] = "/" PROVE FALSE
    OBVIOUS
  <2>1. i \in 1..l /\ i > x /\ i < z
    BY <1>9, <1>10, <1>11
  <2>2. i # k
    BY <1>2
  <2>3. i < k \/ i > k
    BY <1>1, <2>1, <2>2
  <2>4. i \in A \/ i \in B
    BY <1>3, <1>4, <2>1, <2>3
  <2>5. i <= x \/ z <= i
    BY <1>6, <1>8, <2>4
  <2> QED
    BY <1>9, <1>10, <2>1, <2>5
<1>13. a > 1 => s[a - 1] = "/"
  <2>1. a - 1 = x
    BY <1>9, <1>11
  <2> QED
    BY <1>9, <1>11, <2>1
<1>14. b < l => s[b + 1] = "/"
  <2>1. b + 1 = z
    BY <1>10, <1>11
  <2> QED
    BY <1>10, <1>11, <2>1
<1>15. SubSeq(s, a, b) # <<".">>
  <2> SUFFICES ASSUME SubSeq(s, a, b) = <<".">> PROVE FALSE
    OBVIOUS
  <2>1. PICK u : u = SubSeq(s, a, b) /\ Len(u) = b - a + 1 /\ u[1] = s[a]
    <3>1. a \in Nat /\ b \in Nat /\ a >= 1 /\ a <= b /\ b <= Len(s)
      BY <1>1, <1>11
    <3>2. PICK u \in Seq(C) : u = SubSeq(s, a, b)
      BY <3>1, Parts
    <3>3. Len(u) = b - a + 1 /\ \A i \in 1..(b - a + 1) : u[i] = s[a + i - 1]
      <4>1. Len(u) = IF a <= b THEN b - a + 1 ELSE 0
        BY <3>1, <3>2, Parts
      <4>2. \A i \in 1..(b - a + 1) : SubSeq(s, a, b)[i] = s[a + i - 1]
        BY ONLY <3>1, s \in Seq(C), Parts
      <4> QED
        BY <3>1, <3>2, <4>1, <4>2
    <3>4. 1 \in 1..(b - a + 1) /\ a + 1 - 1 = a
      BY <3>1
    <3>5. u[1] = s[a]
      BY <3>3, <3>4
    <3> QED
      BY <3>2, <3>3, <3>5
  <2>2. Len(<<".">>) = 1 /\ <<".">>[1] = "."
    OBVIOUS
  <2>3. b - a + 1 = 1
    BY <2>1, <2>2
  <2>4. a = k
    <3>1. k \in 1..l
      BY <1>1
    <3>2. a <= k /\ k <= b /\ a = b
      BY <1>11, <2>3
    <3> QED
      BY <3>1, <3>2
  <2>5. s[k] = "."
    BY <2>1, <2>2, <2>4
  <2> QED
    BY <1>2, <2>5
<1>16. PICK r : r = <<a, b>>
  OBVIOUS
<1>17. r \in (DOMAIN s) \X (DOMAIN s) /\ r[1] = a /\ r[2] = b
  BY <1>1, <1>16
<1>18. Component(s, r)
  BY <1>1, <1>12, <1>13, <1>14, <1>17 DEF Component
<1>19. r \in Components(s)
  BY <1>11, <1>15, <1>17, <1>18 DEF Components
<1> QED
  BY <1>1, <1>11, <1>17, <1>19

\* The name of a path: no slash in it, one before it, and no letter behind it.
LEMMA PosixNames ==
    ASSUME NEW C, NEW s \in Seq(C)
    PROVE  \/ PosixName(s) = <<>> /\ \A k \in 1..Len(s) : s[k] \notin Letters
           \/ \E p, q \in 1..Len(s) :
                 /\ p <= q /\ PosixName(s) = SubSeq(s, p, q)
                 /\ \A k \in p..q : s[k] # "/"
                 /\ p > 1 => s[p - 1] = "/"
                 /\ \A k \in 1..Len(s) : s[k] \in Letters => k <= q
<1>1. PICK l \in Nat : l = Len(s) /\ DOMAIN s = 1..l
  BY LenProperties
<1>2. PICK D : D = Components(s)
  OBVIOUS
<1>3. PosixName(s) = IF D = {} THEN <<>>
                     ELSE LET last == CHOOSE r \in D : \A q \in D : q[1] <= r[1]
                          IN  SubSeq(s, last[1], last[2])
  BY <1>2 DEF PosixName, Components, Component
<1>4. CASE D = {}
  BY <1>2, <1>3, <1>4, HasComponent
<1>5. CASE D # {}
  <2>1. PICK T : T = {r[1] : r \in D}
    OBVIOUS
  <2>2. T \in SUBSET (0..l) /\ T # {}
    <3>1. \A r \in D : r[1] \in 1..l
      BY <1>1, <1>2 DEF Components
    <3>2. \A r \in D : r[1] \in 0..l
      BY <3>1
    <3>3. T # {}
      BY <1>5, <2>1
    <3> QED
      BY <2>1, <3>2, <3>3
  <2>3. PICK t \in T : \A y \in T : y <= t
    BY <2>2, Bounds
  <2>4. PICK r0 \in D : r0[1] = t
    BY <2>1
  <2>5. \A q \in D : q[1] <= r0[1]
    BY <2>1, <2>3, <2>4
  <2>6. PICK r : r = CHOOSE d \in D : \A q \in D : q[1] <= d[1]
    OBVIOUS
  <2>7. r \in D /\ \A q \in D : q[1] <= r[1]
    BY <2>5, <2>6, Zenon
  <2>8. PICK p \in 1..l, q \in 1..l : r[1] = p /\ r[2] = q
    BY <1>1, <1>2, <2>7 DEF Components
  <2>9. /\ p <= q /\ \A k \in p..q : s[k] # "/"
        /\ p > 1 => s[p - 1] = "/"
        /\ q < l => s[q + 1] = "/"
    BY <1>1, <1>2, <2>7, <2>8 DEF Components, Component
  <2>10. PosixName(s) = SubSeq(s, p, q)
    BY <1>3, <1>5, <2>6, <2>8
  <2>11. ASSUME NEW k \in 1..l, s[k] \in Letters, k > q PROVE FALSE
    <3>1. PICK c \in D : k \in c[1]..c[2]
      BY <1>1, <1>2, <2>11, HasComponent
    <3>2. PICK a \in 1..l, b \in 1..l : c[1] = a /\ c[2] = b
      BY <1>1, <1>2 DEF Components
    <3>3. \A i \in a..b : s[i] # "/"
      BY <1>2, <3>2 DEF Components, Component
    <3>4. a <= p
      BY <2>7, <2>8, <3>2
    <3>5. q + 1 \in a..b /\ q < l
      BY <2>9, <2>11, <3>1, <3>2, <3>4
    <3> QED
      BY <2>9, <3>3, <3>5
  <2>12. \A k \in 1..l : s[k] \in Letters => k <= q
    BY <2>11
  <2> QED
    BY <1>1, <2>9, <2>10, <2>12
<1> QED
  BY <1>4, <1>5

\* The part of s from a to q is its last component: behind a slash, without one, and
\* in front of no letter.
LastPart(s, a, q) ==
    /\ a >= 1 /\ a <= q + 1 /\ q <= Len(s)
    /\ \A k \in a..q : s[k] \notin Slashes
    /\ a > 1 => s[a - 1] \in Slashes
    /\ \A k \in 1..Len(s) : s[k] \in Letters => k <= q

LEMMA LastParts ==
    ASSUME NEW C, NEW s \in Seq(C)
    PROVE  \/ WindowsName(PosixName(s)) = <<>> /\ \A k \in 1..Len(s) : s[k] \notin Letters
           \/ \E a, q \in Nat : WindowsName(PosixName(s)) = SubSeq(s, a, q) /\ LastPart(s, a, q)
<1>1. PICK l \in Nat : l = Len(s)
  BY LenProperties
<1>2. PICK u : u = PosixName(s)
  OBVIOUS
<1>3. CASE u = <<>> /\ \A k \in 1..l : s[k] \notin Letters
  <2>1. DOMAIN u = {}
    BY <1>3
  <2>2. {i \in DOMAIN u : u[i] = "backslash"} = {}
    BY <2>1
  <2>3. WindowsName(u) = u
    BY <2>2 DEF WindowsName
  <2> QED
    BY <1>1, <1>2, <1>3, <2>3
<1>4. ASSUME NEW p \in 1..l, NEW q \in 1..l, p <= q, u = SubSeq(s, p, q),
             \A k \in p..q : s[k] # "/",
             p > 1 => s[p - 1] = "/",
             \A k \in 1..l : s[k] \in Letters => k <= q
      PROVE  \E a \in Nat : WindowsName(u) = SubSeq(s, a, q) /\ LastPart(s, a, q)
  <2>1. p \in Nat /\ q \in Nat /\ p >= 1 /\ q <= Len(s)
    BY <1>1
  <2>2. u \in Seq(C) /\ Len(u) = q - p + 1 /\ \A k \in 1..(q - p + 1) : u[k] = s[p + k - 1]
    BY <1>4, <2>1, Parts
  <2>3. PICK m \in Nat : m = q - p + 1 /\ m = Len(u) /\ DOMAIN u = 1..m
    BY <1>4, <2>2, LenProperties
  <2>4. PICK T : T = {i \in DOMAIN u : u[i] = "backslash"}
    OBVIOUS
  <2>5. WindowsName(u) = IF T = {} THEN u ELSE SubSeq(u, Max(T) + 1, Len(u))
    BY <2>4 DEF WindowsName
  <2>6. \A k \in p..q : k - p + 1 \in 1..m /\ u[k - p + 1] = s[k]
    <3> TAKE k \in p..q
    <3>1. PICK i \in 1..m : i = k - p + 1 /\ p + i - 1 = k
      BY <2>3
    <3> QED
      BY <2>2, <2>3, <3>1
  <2>7. CASE T = {}
    <3>1. \A k \in p..q : s[k] \notin Slashes
      BY <1>4, <2>3, <2>4, <2>6, <2>7 DEF Slashes
    <3>2. LastPart(s, p, q)
      BY <1>1, <1>4, <3>1 DEF LastPart, Slashes
    <3> QED
      BY <1>4, <2>1, <2>5, <2>7, <3>2
  <2>8. CASE T # {}
    <3>1. T \in SUBSET (0..m)
      BY <2>3, <2>4
    <3>2. PICK c : c = Max(T)
      OBVIOUS
    <3>3. c \in T /\ \A y \in T : y <= c
      BY <2>8, <3>1, <3>2, Bounds
    <3>4. c \in 1..m /\ u[c] = "backslash"
      BY <2>3, <2>4, <3>3
    <3>5. PICK a \in Nat : a = p + c /\ a > 1 /\ a - 1 = p + c - 1 /\ a <= q + 1
      BY <2>3, <3>4
    <3>6. s[a - 1] = "backslash"
      BY <2>2, <2>3, <3>4, <3>5
    <3>7. ASSUME NEW k \in a..q PROVE s[k] \notin Slashes
      <4>1. PICK i \in 1..m : i = k - p + 1 /\ i > c
        BY <2>3, <3>4, <3>5
      <4>2. k \in p..q
        BY <3>4, <3>5
      <4>3. u[i] = s[k]
        BY <2>6, <4>1, <4>2
      <4>4. i \notin T
        BY <3>3, <3>4, <4>1
      <4>5. s[k] # "backslash"
        BY <2>3, <2>4, <4>3, <4>4
      <4> QED
        BY <1>4, <4>2, <4>5 DEF Slashes
    <3>8. LastPart(s, a, q)
      BY <1>1, <1>4, <3>5, <3>6, <3>7 DEF LastPart, Slashes
    <3>9. WindowsName(u) = SubSeq(s, a, q)
      <4>1. WindowsName(u) = SubSeq(u, c + 1, m)
        BY <2>3, <2>5, <2>8, <3>2
      <4>2. CASE c = m
        <5>1. m < c + 1 /\ q < a /\ c + 1 \in Int /\ m \in Int /\ a \in Int /\ q \in Int
          BY <2>3, <3>5, <4>2
        <5>2. SubSeq(u, c + 1, m) = <<>>
          BY <5>1, SubSeqEmpty
        <5>3. SubSeq(s, a, q) = <<>>
          BY <5>1, SubSeqEmpty
        <5> QED
          BY <4>1, <5>2, <5>3
      <4>3. CASE c < m
        <5>1. PICK b \in Nat : b = c + 1 /\ b >= 1 /\ b <= m
          BY <3>4, <4>3
        <5>2. SubSeq(SubSeq(s, p, q), b, m) = SubSeq(s, p + b - 1, p + m - 1)
          <6>1. /\ p \in Nat /\ q \in Nat /\ b \in Nat /\ m \in Nat
                /\ p >= 1 /\ p <= q /\ q <= Len(s) /\ b >= 1 /\ b <= m /\ m <= q - p + 1
            BY <1>4, <2>1, <2>3, <5>1
          <6> QED
            BY ONLY <6>1, s \in Seq(C), PartOfPart
        <5>3. p + b - 1 = a /\ p + m - 1 = q
          BY <2>1, <2>3, <3>4, <3>5, <5>1
        <5> QED
          BY <1>4, <4>1, <5>1, <5>2, <5>3
      <4> QED
        BY <3>4, <4>2, <4>3
    <3> QED
      BY <3>8, <3>9
  <2> QED
    BY <2>7, <2>8
<1>5. \/ u = <<>> /\ \A k \in 1..l : s[k] \notin Letters
      \/ \E p, q \in 1..l :
            /\ p <= q /\ u = SubSeq(s, p, q)
            /\ \A k \in p..q : s[k] # "/"
            /\ p > 1 => s[p - 1] = "/"
            /\ \A k \in 1..l : s[k] \in Letters => k <= q
  BY <1>1, <1>2, PosixNames
<1>6. CASE \E p, q \in 1..l :
            /\ p <= q /\ u = SubSeq(s, p, q)
            /\ \A k \in p..q : s[k] # "/"
            /\ p > 1 => s[p - 1] = "/"
            /\ \A k \in 1..l : s[k] \in Letters => k <= q
  <2>1. PICK p \in 1..l, q \in 1..l :
            /\ p <= q /\ u = SubSeq(s, p, q)
            /\ \A k \in p..q : s[k] # "/"
            /\ p > 1 => s[p - 1] = "/"
            /\ \A k \in 1..l : s[k] \in Letters => k <= q
    BY <1>6
  <2>2. PICK a \in Nat : WindowsName(u) = SubSeq(s, a, q) /\ LastPart(s, a, q)
    BY <1>4, <2>1
  <2>3. q \in Nat
    OBVIOUS
  <2> QED
    BY <1>2, <2>2, <2>3
<1> QED
  BY <1>3, <1>5, <1>6

LettersAt(s) == {i \in DOMAIN s : s[i] \in Letters}
SlashesAt(s) == {i \in DOMAIN s : s[i] \in Slashes}
SlashesBefore(s) == {0} \cup {i \in SlashesAt(s) : \E j \in LettersAt(s) : i < j}

\* What LettersKept asks for is the letters of the last component, or there are none.
LEMMA OwnLetters ==
    ASSUME NEW C, NEW s \in Seq(C), NEW c, c = WindowsName(PosixName(s))
    PROVE  /\ c \in Seq(C) /\ Len(c) <= Len(s)
           /\ LettersOf(c) = <<>> /\ LettersAt(s) # {} =>
                  \E i \in SlashesAt(s) : \A j \in LettersAt(s) : j < i
           /\ LettersOf(c) # <<>> =>
                  LettersOf(SubSeq(s, Max(SlashesBefore(s)) + 1, Len(s))) = LettersOf(c)
<1>1. PICK l \in Nat : l = Len(s) /\ DOMAIN s = 1..l
  BY LenProperties
<1>2. CASE c = <<>> /\ \A k \in 1..l : s[k] \notin Letters
  <2>1. c \in Seq(C) /\ Len(c) = 0
    BY <1>2, EmptySeq
  <2>2. LettersAt(s) = {}
    BY <1>1, <1>2 DEF LettersAt
  <2>3. LettersOf(c) = <<>>
    BY <1>2, OnlyOfEmpty DEF LettersOf
  <2> QED
    BY <1>1, <2>1, <2>2, <2>3
<1>3. ASSUME NEW a \in Nat, NEW q \in Nat, c = SubSeq(s, a, q), LastPart(s, a, q)
      PROVE  /\ c \in Seq(C) /\ Len(c) <= l
             /\ LettersOf(c) = <<>> /\ LettersAt(s) # {} =>
                    \E i \in SlashesAt(s) : \A j \in LettersAt(s) : j < i
             /\ LettersOf(c) # <<>> =>
                    LettersOf(SubSeq(s, Max(SlashesBefore(s)) + 1, l)) = LettersOf(c)
  <2>1. /\ a >= 1 /\ a <= q + 1 /\ q <= l
        /\ \A k \in a..q : s[k] \notin Slashes
        /\ a > 1 => s[a - 1] \in Slashes
        /\ \A k \in 1..l : s[k] \in Letters => k <= q
    BY <1>1, <1>3 DEF LastPart
  <2>2. c \in Seq(C) /\ (Len(c) = IF a <= q THEN q - a + 1 ELSE 0)
    BY <1>1, <1>3, <2>1, Parts
  <2>3. \A k \in 1..(q - a + 1) : c[k] = s[a + k - 1]
    BY ONLY a \in Nat, q \in Nat, <1>1, <1>3, <2>1, s \in Seq(C), Parts
  <2>4. Len(c) = q - a + 1
    BY <2>1, <2>2
  <2>5. (LettersOf(c) = <<>>) <=> (\A k \in a..q : s[k] \notin Letters)
    <3>1. (LettersOf(c) = <<>>) <=> (\A k \in 1..Len(c) : c[k] \notin Letters)
      BY <2>2, OnlyNone DEF LettersOf
    <3>2. ASSUME NEW k \in a..q PROVE k - a + 1 \in 1..Len(c) /\ c[k - a + 1] = s[k]
      <4>1. PICK i \in 1..(q - a + 1) : i = k - a + 1 /\ a + i - 1 = k
        OBVIOUS
      <4> QED
        BY <2>3, <2>4, <4>1
    <3>3. ASSUME NEW i \in 1..Len(c) PROVE \E k \in a..q : c[i] = s[k]
      <4>1. PICK k \in a..q : k = a + i - 1
        BY <2>4
      <4> QED
        BY <2>3, <2>4, <4>1
    <3>4. ASSUME \A k \in 1..Len(c) : c[k] \notin Letters, NEW k \in a..q PROVE s[k] \notin Letters
      BY <3>2, <3>4
    <3>5. ASSUME \A k \in a..q : s[k] \notin Letters, NEW i \in 1..Len(c) PROVE c[i] \notin Letters
      BY <3>3, <3>5
    <3> QED
      BY <3>1, <3>4, <3>5
  <2>6. Slashes \cap Letters = {}
    BY DEF Slashes, Letters
  <2>7. ASSUME LettersOf(c) = <<>>, LettersAt(s) # {}
        PROVE  \E i \in SlashesAt(s) : \A j \in LettersAt(s) : j < i
    <3>1. \A k \in a..q : s[k] \notin Letters
      BY <2>5, <2>7
    <3>2. ASSUME NEW j \in LettersAt(s) PROVE j \in 1..l /\ s[j] \in Letters /\ j < a
      <4>1. j \in 1..l /\ s[j] \in Letters
        BY <1>1 DEF LettersAt
      <4>2. j <= q
        BY <2>1, <4>1
      <4> QED
        BY <3>1, <4>1, <4>2
    <3>3. PICK j0 \in LettersAt(s) : TRUE
      BY <2>7
    <3>4. PICK i \in 1..l : i = a - 1 /\ s[i] \in Slashes
      <4>1. a > 1 /\ a - 1 \in 1..l
        BY <2>1, <3>2, <3>3
      <4> QED
        BY <2>1, <4>1
    <3>5. i \in SlashesAt(s)
      BY <1>1, <3>4 DEF SlashesAt
    <3>6. ASSUME NEW j \in LettersAt(s) PROVE j < i
      <4>1. j # i
        BY <2>6, <3>2, <3>4
      <4> QED
        BY <3>2, <3>4, <4>1
    <3> QED
      BY <3>5, <3>6
  <2>8. ASSUME LettersOf(c) # <<>>
        PROVE  LettersOf(SubSeq(s, Max(SlashesBefore(s)) + 1, l)) = LettersOf(c)
    <3>1. PICK x \in a..q : s[x] \in Letters
      BY <2>5, <2>8
    <3>2. x \in LettersAt(s) /\ a <= q
      BY <1>1, <2>1, <3>1 DEF LettersAt
    <3>3. PICK B : B = SlashesBefore(s)
      OBVIOUS
    <3>4. B \in SUBSET (0..l) /\ B # {}
      BY <1>1, <3>3 DEF SlashesBefore, SlashesAt
    <3>5. PICK m : m = Max(B)
      OBVIOUS
    <3>6. m \in B /\ \A y \in B : y <= m
      BY <3>4, <3>5, Bounds
    <3>7. a - 1 \in B
      <4>1. CASE a = 1
        BY <3>3, <4>1 DEF SlashesBefore
      <4>2. CASE a > 1
        <5>1. a - 1 \in 1..l /\ a - 1 < x
          BY <2>1, <3>1, <4>2
        <5>2. a - 1 \in SlashesAt(s)
          BY <1>1, <2>1, <4>2, <5>1 DEF SlashesAt
        <5> QED
          BY <3>2, <3>3, <5>1, <5>2 DEF SlashesBefore
      <4> QED
        BY <2>1, <4>1, <4>2
    <3>8. ASSUME NEW y \in B PROVE y <= a - 1
      <4> SUFFICES ASSUME y >= a PROVE FALSE
        BY <3>4
      <4>1. y \in SlashesAt(s) /\ \E j \in LettersAt(s) : y < j
        BY <2>1, <3>3 DEF SlashesBefore
      <4>2. PICK j \in 1..l : s[j] \in Letters /\ y < j
        BY <1>1, <4>1 DEF LettersAt
      <4>3. y \in 1..l /\ s[y] \in Slashes
        BY <1>1, <4>1 DEF SlashesAt
      <4>4. j <= q
        BY <2>1, <4>2
      <4>5. y \in a..q
        BY <4>2, <4>3, <4>4
      <4> QED
        BY <2>1, <4>3, <4>5
    <3>9. m + 1 = a
      <4>1. m \in 0..l /\ m <= a - 1 /\ a - 1 <= m
        BY <3>4, <3>6, <3>7, <3>8
      <4> QED
        BY <4>1
    <3>10. PICK w \in Seq(C) : w = SubSeq(s, a, l)
      <4>1. SubSeq(s, a, l) \in Seq(C)
        BY ONLY a \in Nat, l \in Nat, <1>1, <2>1, s \in Seq(C), Parts
      <4> QED
        BY <4>1
    <3>11. PICK e \in Nat : e = l - a + 1
      BY <2>1
    <3>12. Len(w) = e /\ \A k \in 1..e : w[k] = s[a + k - 1]
      BY <1>1, <2>1, <3>2, <3>10, <3>11, Parts
    <3>13. PICK n \in Nat : n = q - a + 1 /\ n >= 1 /\ n <= e
      BY <2>1, <3>2, <3>11
    <3>14. c = SubSeq(w, 1, n)
      <4>0. PICK i \in Nat : i = 1
        OBVIOUS
      <4>1. /\ a \in Nat /\ l \in Nat /\ i \in Nat /\ n \in Nat
            /\ a >= 1 /\ a <= l /\ l <= Len(s) /\ i >= 1 /\ i <= n /\ n <= l - a + 1
        BY <1>1, <2>1, <3>2, <3>11, <3>13, <4>0
      <4>2. SubSeq(SubSeq(s, a, l), i, n) = SubSeq(s, a + i - 1, a + n - 1)
        BY ONLY <4>1, s \in Seq(C), PartOfPart
      <4>3. a + i - 1 = a /\ a + n - 1 = q
        BY <3>13, <4>0
      <4> QED
        BY <1>3, <3>10, <4>0, <4>2, <4>3
    <3>15. ASSUME NEW k \in 1..Len(w), k > n PROVE w[k] \notin Letters
      <4>1. PICK i \in 1..l : i = a + k - 1 /\ i > q
        BY <2>1, <3>11, <3>12, <3>13, <3>15
      <4>2. w[k] = s[i]
        BY <3>12, <4>1
      <4> QED
        BY <2>1, <4>1, <4>2
    <3>16. Only(SubSeq(w, 1, n), Letters) = Only(w, Letters)
      <4>0. PICK i \in Nat : i = 1
        OBVIOUS
      <4>1. i >= 1 /\ i <= n + 1 /\ n <= Len(w)
        BY <3>12, <3>13, <4>0
      <4>2. \A k \in 1..Len(w) : k < i \/ k > n => w[k] \notin Letters
        BY <3>12, <3>15, <4>0
      <4>3. Only(SubSeq(w, i, n), Letters) = Only(w, Letters)
        BY <4>1, <4>2, OnlyOfPart
      <4> QED
        BY <4>0, <4>3
    <3> QED
      BY <3>3, <3>5, <3>9, <3>10, <3>14, <3>16 DEF LettersOf
  <2>9. Len(c) <= l
    BY <2>1, <2>4
  <2> QED
    BY <2>2, <2>7, <2>8, <2>9
<1>4. \/ c = <<>> /\ \A k \in 1..l : s[k] \notin Letters
      \/ \E a, q \in Nat : c = SubSeq(s, a, q) /\ LastPart(s, a, q)
  BY <1>1, LastParts
<1>5. CASE \E a, q \in Nat : c = SubSeq(s, a, q) /\ LastPart(s, a, q)
  <2>1. PICK a \in Nat, q \in Nat : c = SubSeq(s, a, q) /\ LastPart(s, a, q)
    BY <1>5
  <2> QED
    BY <1>1, <1>3, <2>1
<1> QED
  BY <1>2, <1>4, <1>5

LEMMA OneLetter ==
    ASSUME NEW c \in Letters
    PROVE  LettersOf(<<c>>) = <<c>>
<1>1. <<>> \in Seq(Letters) /\ Append(<<>>, c) = <<c>>
  BY EmptySeq
<1>2. Only(Append(<<>>, c), Letters) = Append(Only(<<>>, Letters), c)
  BY <1>1, OnlyOfAppend
<1> QED
  BY <1>1, <1>2, OnlyOfEmpty DEF LettersOf

\* What sanitize_filename promises of a name and its path.
LEMMA Sanitises ==
    ASSUME NEW s \in Seq(Characters)
    PROVE  LET n == sanitize_filename(s)
               c == LastComponent(s)
               path == Normalised(s)
           IN  /\ WellNamed(n) /\ Len(n) <= AtLeastOne(Len(c))
               /\ c \in Seq(Plain) /\ Len(c) <= Len(path)
               /\ \/ /\ n = Unnamed
                     /\ LettersAt(path) # {} =>
                           \E i \in SlashesAt(path) : \A j \in LettersAt(path) : j < i
                  \/ /\ IsPrefix(LettersOf(n), LettersOf(SubSeq(path, Max(SlashesBefore(path)) + 1, Len(path))))
                     /\ \/ LettersOf(n) = LettersOf(SubSeq(path, Max(SlashesBefore(path)) + 1, Len(path)))
                        \/ Len(n) = MaxFilenameLength
<1>1. PICK path \in Seq(Plain) : path = Normalised(s)
  BY NormalisesType
<1>2. PICK c : c = WindowsName(PosixName(path))
  OBVIOUS
<1>3. c = LastComponent(s)
  BY <1>1, <1>2 DEF LastComponent
<1>4. PICK o : o = LettersOf(SubSeq(path, Max(SlashesBefore(path)) + 1, Len(path)))
  OBVIOUS
<1>5. /\ c \in Seq(Plain) /\ Len(c) <= Len(path)
      /\ LettersOf(c) = <<>> /\ LettersAt(path) # {} =>
             \E i \in SlashesAt(path) : \A j \in LettersAt(path) : j < i
      /\ LettersOf(c) # <<>> => o = LettersOf(c)
  BY <1>2, <1>4, OwnLetters
<1>6. PICK n : n = sanitize_filename(s)
  OBVIOUS
<1>7. n = Cleaned(c)
  BY <1>3, <1>6 DEF sanitize_filename, Cleaned
<1>8. /\ WellNamed(n) /\ Len(n) <= AtLeastOne(Len(c))
      /\ LettersOf(c) = <<>> => n = Unnamed
      /\ LettersOf(c) # <<>> => KeepsLetters(n, c)
  BY <1>5, <1>7, Cleans
<1>9. CASE LettersOf(c) = <<>>
  BY <1>1, <1>3, <1>5, <1>6, <1>8, <1>9
<1>10. CASE LettersOf(c) # <<>>
  <2>1. IsPrefix(LettersOf(n), o) /\ (LettersOf(n) = o \/ Len(n) = MaxFilenameLength)
    BY <1>5, <1>8, <1>10 DEF KeepsLetters
  <2> QED
    BY <1>1, <1>3, <1>4, <1>5, <1>6, <1>8, <2>1
<1> QED
  BY <1>9, <1>10

\* The name that stands for none is left as it is.
LEMMA SanitisesUnnamed == sanitize_filename(Unnamed) = Unnamed
<1>1. PICK n : n = sanitize_filename(Unnamed)
  OBVIOUS
<1>2. PICK u \in Seq(Plain) : u = Unnamed /\ Len(u) = 1 /\ u[1] = "w" /\ u = <<"w">>
  <2>1. "w" \in Plain
    BY DEF Plain, Safe, Letters
  <2>2. <<"w">> \in Seq(Plain) /\ Len(<<"w">>) = 1 /\ <<"w">>[1] = "w"
    BY <2>1
  <2> QED
    BY <2>2 DEF Unnamed
<1>3. PICK x : x = LettersOf(SubSeq(u, Max(SlashesBefore(u)) + 1, Len(u)))
  OBVIOUS
<1>4. /\ WellNamed(n) /\ Len(n) <= 1
      /\ n = Unnamed \/ IsPrefix(LettersOf(n), x)
  <2>1. Unnamed \in Seq(Characters)
    BY DEF Unnamed, Characters, Safe, Letters
  <2>2. PICK c : c = LastComponent(Unnamed)
    OBVIOUS
  <2>3. /\ WellNamed(n) /\ Len(n) <= AtLeastOne(Len(c))
        /\ c \in Seq(Plain) /\ Len(c) <= Len(u)
        /\ n = Unnamed \/ IsPrefix(LettersOf(n), x)
    BY <1>1, <1>2, <1>3, <2>1, <2>2, Sanitises, NormalisesUnnamed
  <2>4. Len(c) \in Nat
    BY <2>3, LenProperties
  <2>5. AtLeastOne(Len(c)) = 1
    BY <1>2, <2>3, <2>4 DEF AtLeastOne
  <2> QED
    BY <2>3, <2>5
<1>5. x = Unnamed
  <2>1. SlashesAt(u) = {}
    BY <1>2 DEF SlashesAt, Slashes
  <2>2. SlashesBefore(u) = {0}
    BY <2>1 DEF SlashesBefore
  <2>3. Max({0}) = 0
    <3>1. \E z \in {0} : \A y \in {0} : z >= y
      OBVIOUS
    <3> QED
      BY <3>1, Zenon DEF Max
  <2>4. SubSeq(u, 1, Len(u)) = u
    BY SubSeqFull
  <2>5. SubSeq(u, Max(SlashesBefore(u)) + 1, Len(u)) = u
    BY <2>2, <2>3, <2>4
  <2>6. "w" \in Letters
    BY DEF Letters
  <2> QED
    BY <1>2, <1>3, <2>5, <2>6, OneLetter
<1>6. CASE n = Unnamed
  BY <1>1, <1>6
<1>7. CASE IsPrefix(LettersOf(n), x)
  <2>1. n \in Seq(Safe) /\ Len(n) = 1 /\ n[1] \in Letters
    <3>1. n \in Seq(Safe) /\ Len(n) \in 1..MaxFilenameLength /\ n[1] \in Letters
      BY <1>4 DEF WellNamed
    <3>2. Len(n) \in Nat /\ Len(n) >= 1
      BY <3>1, LengthAssumption
    <3>3. PICK m \in Nat : m = Len(n) /\ m >= 1
      BY <3>2
    <3>4. m <= 1
      BY <1>4, <3>3
    <3>5. m = 1
      BY <3>3, <3>4
    <3> QED
      BY <3>1, <3>3, <3>5
  <2>2. n = <<n[1]>>
    BY <2>1
  <2>3. LettersOf(n) = n
    BY <2>1, <2>2, OneLetter
  <2>4. SubSeq(n, 1, 1) = SubSeq(u, 1, 1)
    BY <1>2, <1>5, <1>7, <2>1, <2>3 DEF IsPrefix
  <2>5. SubSeq(n, 1, 1) = n /\ SubSeq(u, 1, 1) = u
    BY <1>2, <2>1, SubSeqFull
  <2> QED
    BY <1>1, <1>2, <2>4, <2>5
<1> QED
  BY <1>4, <1>6, <1>7

-----------------------------------------------------------------------------
(* Names that are safe already.                                            *)

LEMMA OnlyAll ==
    ASSUME NEW S
    PROVE  \A s \in Seq(S) : Only(s, S) = s
<1>1. PICK U : U = {s \in Seq(S) : Only(s, S) = s}
  OBVIOUS
<1>2. <<>> \in U
  BY <1>1, OnlyOfEmpty, EmptySeq
<1>3. ASSUME NEW s \in Seq(S), NEW c \in S, s \in U PROVE Append(s, c) \in U
  <2>1. Only(Append(s, c), S) = Append(Only(s, S), c)
    BY OnlyOfAppend
  <2>2. Only(s, S) = s
    BY <1>1, <1>3
  <2>3. Append(s, c) \in Seq(S)
    BY AppendProperties
  <2> QED
    BY <1>1, <2>1, <2>2, <2>3
<1>4. \A s \in Seq(S) : s \in U
  BY <1>2, <1>3, SequenceInduction, Zenon
<1> QED
  BY <1>1, <1>4

LEMMA FlattenSingles ==
    ASSUME NEW C, NEW s \in Seq(C), s # <<>>, NEW q, Len(q) = Len(s),
           \A i \in 1..Len(s) : q[i] = <<s[i]>>
    PROVE  FlattenSeq(q) = s
<1>1. PICK l \in Nat \ {0} : l = Len(s)
  BY EmptySeq
<1>2. PICK f : Flattens(f, q, l) /\ FlattenSeq(q) = f[l]
  BY <1>1, FlattenSeqFlattens
<1>3. \A i \in 1..l : f[i] = IF i = 1 THEN q[i] ELSE f[i - 1] \o q[i]
  BY <1>2 DEF Flattens
<1>4. PICK U : U = {n \in Nat : n \in 1..l => f[n] = SubSeq(s, 1, n)}
  OBVIOUS
<1>5. 0 \in U
  BY <1>4
<1>6. ASSUME NEW n \in Nat, n \in U PROVE n + 1 \in U
  <2> SUFFICES ASSUME n + 1 \in 1..l PROVE f[n + 1] = SubSeq(s, 1, n + 1)
    BY <1>4
  <2>1. PICK i \in 1..l : i = n + 1 /\ i - 1 = n
    OBVIOUS
  <2>2. n + 1 <= Len(s)
    BY <1>1
  <2>3. PICK r \in Seq(C), c \in C : r = SubSeq(s, 1, n) /\ c = s[i] /\ SubSeq(s, 1, n + 1) = Append(r, c)
    <3>1. /\ SubSeq(s, 1, n) \in Seq(C) /\ s[n + 1] \in C
          /\ SubSeq(s, 1, n + 1) = Append(SubSeq(s, 1, n), s[n + 1])
      BY <2>2, PrefixGrows, Zenon
    <3> QED
      BY <2>1, <3>1
  <2>4. Append(r, c) = r \o <<c>>
    BY AppendIsConcat
  <2>5. q[i] = <<c>>
    BY <1>1, <2>3
  <2>6. CASE n = 0
    <3>1. f[i] = <<c>>
      BY <1>3, <2>1, <2>5, <2>6
    <3>2. r = <<>>
      BY <2>3, <2>6, NoPrefix
    <3>3. Append(r, c) = <<c>>
      BY <3>2
    <3> QED
      BY <2>1, <2>3, <3>1, <3>3
  <2>7. CASE n # 0
    <3>1. f[i] = f[n] \o <<c>>
      <4>1. i # 1
        BY <2>1, <2>7
      <4>2. f[i] = f[i - 1] \o q[i]
        BY <1>3, <4>1
      <4> QED
        BY <2>1, <2>5, <4>2
    <3>2. n \in 1..l
      BY <2>1, <2>7
    <3>3. f[n] = r
      BY <1>4, <1>6, <2>3, <3>2
    <3> QED
      BY <2>1, <2>3, <2>4, <3>1, <3>3
  <2> QED
    BY <2>6, <2>7
<1>7. \A n \in Nat : n \in U
  BY <1>5, <1>6, Induction, Zenon
<1>8. f[l] = SubSeq(s, 1, l)
  BY <1>4, <1>7
<1> QED
  BY <1>1, <1>2, <1>8, SubSeqFull

LEMMA NormalisesNothing ==
    ASSUME NEW s \in Seq(Safe), s # <<>>
    PROVE  Normalised(s) = s
<1>1. PICK l \in Nat : l = Len(s) /\ DOMAIN s = 1..l
  BY LenProperties
<1>2. PICK q : q = [i \in 1..l |-> Ascii(s[i])]
  OBVIOUS
<1>3. Normalised(s) = FlattenSeq(q)
  BY <1>1, <1>2 DEF Normalised
<1>4. \A i \in 1..l : s[i] \in Safe
  BY <1>1, ElementOfSeq
<1>5. \A c \in Safe : Ascii(c) = <<c>>
  BY DEF Ascii, Safe, Letters, Separators
<1>6. \A i \in 1..l : q[i] = <<s[i]>>
  BY <1>2, <1>4, <1>5
<1>7. Len(q) = l
  BY <1>2
<1> QED
  BY <1>1, <1>3, <1>6, <1>7, FlattenSingles

\* A safe name that ends with a letter.
WellFormed(s) ==
    /\ s \in Seq(Safe) /\ Len(s) \in 1..MaxFilenameLength
    /\ s[1] \in Letters /\ Apart(s) /\ s[Len(s)] \in Letters

LEMMA KeepsComponent ==
    ASSUME NEW s, WellFormed(s)
    PROVE  LastComponent(s) = s
<1>1. PICK l \in Nat : l = Len(s) /\ l >= 1
  BY LengthAssumption DEF WellFormed
<1>2. s \in Seq(Safe) /\ s[1] \in Letters /\ s[l] \in Letters
  BY <1>1 DEF WellFormed
<1>3. Normalised(s) = s
  <2>1. s # <<>>
    BY <1>1, EmptySeq
  <2> QED
    BY <1>2, <2>1, NormalisesNothing
<1>4. PICK c : c = WindowsName(PosixName(s))
  OBVIOUS
<1>5. PICK a \in Nat, q \in Nat : c = SubSeq(s, a, q) /\ LastPart(s, a, q)
  <2>1. ~(\A k \in 1..Len(s) : s[k] \notin Letters)
    BY <1>1, <1>2
  <2>2. \E a, q \in Nat : c = SubSeq(s, a, q) /\ LastPart(s, a, q)
    BY <1>2, <1>4, <2>1, LastParts
  <2> QED
    BY <2>2
<1>6. /\ a >= 1 /\ a <= q + 1 /\ q <= l
      /\ a > 1 => s[a - 1] \in Slashes
      /\ \A k \in 1..l : s[k] \in Letters => k <= q
  BY <1>1, <1>5 DEF LastPart
<1>7. q = l
  BY <1>1, <1>2, <1>6
<1>8. a = 1
  <2> SUFFICES ASSUME a > 1 PROVE FALSE
    BY <1>6
  <2>1. a - 1 \in 1..Len(s)
    BY <1>1, <1>6, <1>7
  <2>2. s[a - 1] \in Safe
    BY <1>2, <2>1, ElementOfSeq
  <2>3. Safe \cap Slashes = {}
    BY DEF Safe, Letters, Separators, Slashes
  <2> QED
    BY <1>6, <2>2, <2>3
<1> QED
  BY <1>1, <1>2, <1>3, <1>4, <1>5, <1>7, <1>8, SubSeqFull DEF LastComponent

LEMMA CollapsesNothing ==
    ASSUME NEW s \in Seq(Safe), Apart(s)
    PROVE  Collapsed(s) = s
<1>1. PICK l \in Nat : l = Len(s) /\ DOMAIN s = 1..l
  BY LenProperties
<1>2. PICK h : h = [i \in 1..l |->
                      IF s[i] \in Separators /\ i - 1 \in 1..l /\ s[i - 1] \in Separators THEN "gone"
                      ELSE IF s[i] \in Separators /\ i + 1 \in 1..l /\ s[i + 1] \in Separators THEN "_"
                      ELSE s[i]]
  OBVIOUS
<1>3. Collapsed(s) = Only(h, Safe)
  BY <1>1, <1>2 DEF Collapsed
<1>4. Letters \cap Separators = {}
  BY DEF Letters, Separators
<1>5. ASSUME NEW i \in 1..l PROVE h[i] = s[i]
  <2>1. h[i] = IF s[i] \in Separators /\ i - 1 \in 1..l /\ s[i - 1] \in Separators THEN "gone"
               ELSE IF s[i] \in Separators /\ i + 1 \in 1..l /\ s[i + 1] \in Separators THEN "_"
               ELSE s[i]
    BY <1>2
  <2>2. ~(s[i] \in Separators /\ i - 1 \in 1..l /\ s[i - 1] \in Separators)
    <3> SUFFICES ASSUME i - 1 \in 1..l PROVE s[i] \in Letters \/ s[i - 1] \in Letters
      BY <1>4
    <3>1. PICK k \in 1..(l - 1) : k = i - 1 /\ k + 1 = i
      OBVIOUS
    <3> QED
      BY <1>1, <3>1 DEF Apart
  <2>3. ~(s[i] \in Separators /\ i + 1 \in 1..l /\ s[i + 1] \in Separators)
    <3> SUFFICES ASSUME i + 1 \in 1..l PROVE s[i] \in Letters \/ s[i + 1] \in Letters
      BY <1>4
    <3>1. i \in 1..(l - 1)
      OBVIOUS
    <3> QED
      BY <1>1, <3>1 DEF Apart
  <2> QED
    BY <2>1, <2>2, <2>3
<1>6. h = s
  <2>1. s \in [1..l -> Safe]
    BY <1>1, LenProperties
  <2> QED
    BY <1>2, <1>5, <2>1
<1> QED
  BY <1>3, <1>6, OnlyAll

LEMMA CleansNothing ==
    ASSUME NEW s, WellFormed(s)
    PROVE  Cleaned(s) = s
<1>1. PICK l \in Nat : l = Len(s) /\ l >= 1 /\ l <= MaxFilenameLength
  BY LengthAssumption DEF WellFormed
<1>2. s \in Seq(Safe) /\ s[1] \in Letters /\ s[l] \in Letters /\ Apart(s)
  BY <1>1 DEF WellFormed
<1>3. SubSeq(s, 1, l) = s /\ s # <<>>
  BY <1>1, <1>2, SubSeqFull, EmptySeq
<1>4. LStrip(s, {"."}) = s
  <2>1. s[1] \notin {"."}
    BY <1>2 DEF Letters
  <2>2. 1 \in 1..l
    BY <1>1
  <2>3. ~(\A k \in 1..l : s[k] \in {"."})
    BY <2>1, <2>2
  <2>4. PICK i \in 1..l : /\ LStrip(s, {"."}) = SubSeq(s, i, l)
                          /\ \A k \in 1..l : k < i => s[k] \in {"."}
    BY <1>1, <1>2, <2>3, LStrips
  <2>5. i = 1
    BY <2>1, <2>2, <2>4
  <2> QED
    BY <1>3, <2>4, <2>5
<1>5. Replaced(s) = s
  <2>1. DOMAIN s = 1..l /\ s \in [1..l -> Safe]
    BY <1>1, <1>2, LenProperties
  <2>2. Replaced(s) = [i \in 1..l |-> IF s[i] \in Safe THEN s[i] ELSE "_"]
    BY <2>1 DEF Replaced
  <2> QED
    BY <2>1, <2>2
<1>6. Collapsed(s) = s
  BY <1>2, CollapsesNothing
<1>7. Strip(s, Separators) = s
  <2>1. s[1] \notin Separators /\ s[l] \notin Separators
    BY <1>2 DEF Letters, Separators
  <2>2. 1 \in 1..l /\ l \in 1..l
    BY <1>1
  <2>3. ~(\A k \in 1..l : s[k] \in Separators)
    BY <2>1, <2>2
  <2>4. PICK i \in 1..l, j \in 1..l :
            /\ Strip(s, Separators) = SubSeq(s, i, j)
            /\ \A k \in 1..l : k < i \/ k > j => s[k] \in Separators
    <3>1. \E i, j \in 1..l :
            /\ Strip(s, Separators) = SubSeq(s, i, j)
            /\ \A k \in 1..l : k < i \/ k > j => s[k] \in Separators
      BY <1>1, <1>2, <2>3, Strips
    <3> QED
      BY <3>1
  <2>5. i = 1 /\ j = l
    BY <2>1, <2>2, <2>4
  <2> QED
    BY <1>3, <2>4, <2>5
<1>8. Truncated(s) = s
  BY <1>1, <1>3, LengthAssumption DEF Truncated
<1> QED
  BY <1>3, <1>4, <1>5, <1>6, <1>7, <1>8 DEF Cleaned, OrUnnamed

\* sanitize_filename leaves a safe name alone.
LEMMA SanitisesNothing ==
    ASSUME NEW s, WellFormed(s)
    PROVE  sanitize_filename(s) = s
  BY KeepsComponent, CleansNothing DEF sanitize_filename, Cleaned

-----------------------------------------------------------------------------
(* Names.                                                                  *)

\* An uploaded file has the sanitised name, and was refused only for its length.
NameInv ==
    /\ file.name \in Seq(Characters)
    /\ stage # "received" => name = sanitize_filename(OrUnnamed(file.name))
    /\ stage = "unstorable" => ~Storable(Len(name))
    /\ stage = "failed" => ~Storable(ThumbLength + Len(name))

LEMMA NameAlways == Spec => []NameInv
<1>1. Init => NameInv
  BY NameAssumption DEF Init, NameInv
<1>2. NameInv /\ [Next]_vars => NameInv'
  <2> SUFFICES ASSUME NameInv, [Next]_vars PROVE NameInv'
    OBVIOUS
  <2>1. CASE Upload
    BY <2>1 DEF Upload, NameInv
  <2>2. CASE Scale
    BY <2>2 DEF Scale, NameInv
  <2>3. CASE StoreThumbnail
    BY <2>3 DEF StoreThumbnail, NameInv
  <2>4. CASE UNCHANGED vars
    BY <2>4 DEF vars, NameInv, Storable
  <2> QED
    BY <2>1, <2>2, <2>3, <2>4 DEF Next
<1> QED
  BY <1>1, <1>2, PTL DEF Spec

\* The name of a file that has been received, whatever the client called it.
LEMMA Named ==
    ASSUME NameInv, stage # "received"
    PROVE  /\ WellNamed(name) /\ Len(name) <= AtLeastOne(Len(LastComponent(file.name)))
           /\ LastComponent(file.name) \in Seq(Plain)
           /\ LET path == Normalised(file.name) IN
              \/ /\ name = Unnamed
                 /\ LettersAt(path) # {} =>
                       \E i \in SlashesAt(path) : \A j \in LettersAt(path) : j < i
              \/ /\ IsPrefix(LettersOf(name), LettersOf(SubSeq(path, Max(SlashesBefore(path)) + 1, Len(path))))
                 /\ \/ LettersOf(name) = LettersOf(SubSeq(path, Max(SlashesBefore(path)) + 1, Len(path)))
                    \/ Len(name) = MaxFilenameLength
<1>1. PICK s \in Seq(Characters) : s = file.name
  BY DEF NameInv
<1>2. CASE s # <<>>
  <2>1. name = sanitize_filename(s)
    BY <1>1, <1>2 DEF NameInv, OrUnnamed
  <2> QED
    BY <1>1, <2>1, Sanitises
<1>3. CASE s = <<>>
  <2>1. name = Unnamed
    BY <1>1, <1>3, SanitisesUnnamed DEF NameInv, OrUnnamed
  <2>2. Normalised(s) = <<>>
    BY <1>3, NormalisesEmpty
  <2>3. LettersAt(<<>>) = {}
    BY DEF LettersAt
  <2>4. PICK c \in Seq(Plain) : c = LastComponent(s)
    BY Sanitises
  <2>5. Len(Unnamed) <= AtLeastOne(Len(c))
    BY UnnamedIsWellNamed, LenProperties DEF AtLeastOne
  <2> QED
    BY <1>1, <2>1, <2>2, <2>3, <2>4, <2>5, UnnamedIsWellNamed
<1> QED
  BY <1>2, <1>3

\* sanitize.py:20-28, for every name of any length and every limit: what is stored is
\* not empty, not too long and not hidden, made of safe characters, without two
\* separators in a row, and ends with one only where it was cut off; and a name that
\* is like that already is stored as it is.
THEOREM SafeNames == Spec => []SafeName
<1>1. NameInv => SafeName
  <2> SUFFICES ASSUME NameInv, stage # "received" PROVE SafeName
    BY DEF SafeName
  <2>1. /\ name \in Seq(Safe) /\ Len(name) \in 1..MaxFilenameLength
        /\ name[1] \in Letters /\ Apart(name)
        /\ name[Len(name)] \in Letters \/ Len(name) = MaxFilenameLength
    BY Named DEF WellNamed
  <2>2. Range(name) \subseteq Safe
    BY <2>1, RangeOfSeq
  <2>3. \A i \in 1..(Len(name) - 1) : {name[i], name[i + 1]} \cap Letters # {}
    BY <2>1 DEF Apart
  <2>4. IsSafe(name)
    BY <2>1, <2>2, <2>3 DEF IsSafe
  <2>5. ASSUME IsSafe(file.name), Last(file.name) \in Letters PROVE name = file.name
    <3>1. PICK s \in Seq(Characters) : s = file.name
      BY DEF NameInv
    <3>2. /\ Len(s) \in 1..MaxFilenameLength /\ Range(s) \subseteq Safe /\ s[1] \in Letters
          /\ \A i \in 1..(Len(s) - 1) : {s[i], s[i + 1]} \cap Letters # {}
          /\ s[Len(s)] \in Letters
      BY <2>5, <3>1 DEF IsSafe, Last
    <3>3. s \in Seq(Safe)
      <4>1. s \in Seq(Range(s))
        BY SeqOfRange
      <4> QED
        BY <3>2, <4>1, SeqMonotonic
    <3>4. Apart(s)
      BY <3>2 DEF Apart
    <3>5. WellFormed(s)
      BY <3>2, <3>3, <3>4 DEF WellFormed
    <3>6. s # <<>>
      BY <3>2, LengthAssumption, EmptySeq
    <3>7. name = sanitize_filename(s)
      BY <3>1, <3>6 DEF NameInv, OrUnnamed
    <3> QED
      BY <3>1, <3>5, <3>7, SanitisesNothing
  <2> QED
    BY <2>1, <2>4, <2>5 DEF SafeName, Last
<1> QED
  BY <1>1, NameAlways, PTL

\* For every name: the stored one keeps the letters behind the last path separator with
\* a letter behind it, in their order, and nothing of the directories; "unnamed" stands
\* in only for a path without letters or one that ends with a component without any.
THEOREM LettersStay == Spec => []LettersKept
<1>1. NameInv => LettersKept
  <2> SUFFICES ASSUME NameInv, stage # "received" PROVE LettersKept
    BY DEF LettersKept
  <2> QED
    BY Named DEF LettersKept, LettersAt, SlashesAt, SlashesBefore, Slashes
<1> QED
  BY <1>1, NameAlways, PTL

\* For every name, both prefixes and every file system: sanitising makes no name but
\* the empty one longer, so one that leaves room for the prefixes is stored, and so is its thumbnail.
THEOREM ShortNamesPass == Spec => []ShortNamesGoThrough
<1>1. NameInv => ShortNamesGoThrough
  <2> SUFFICES ASSUME NameInv, stage \in {"unstorable", "failed"},
                      AtLeastOne(Len(LastComponent(file.name))) + HashLength + ThumbLength <= NameMax
               PROVE  FALSE
    BY DEF ShortNamesGoThrough
  <2>1. PICK a : a = AtLeastOne(Len(LastComponent(file.name)))
    OBVIOUS
  <2>2. /\ WellNamed(name) /\ Len(name) <= a
        /\ LastComponent(file.name) \in Seq(Plain)
    BY <2>1, Named
  <2>3. a \in Nat
    BY <2>1, <2>2, LenProperties DEF AtLeastOne
  <2>4. PICK n \in Nat : n = Len(name) /\ n <= a
    BY <2>2, LenProperties DEF WellNamed
  <2>5. /\ HashLength \in Nat /\ ThumbLength \in Nat /\ NameMax \in Nat
        /\ a + HashLength + ThumbLength <= NameMax
    BY <2>1, FileAssumption
  <2>6. n + HashLength <= NameMax /\ (ThumbLength + n) + HashLength <= NameMax
    BY <2>3, <2>4, <2>5
  <2>7. Storable(Len(name)) /\ Storable(ThumbLength + Len(name))
    BY <2>4, <2>6 DEF Storable
  <2> QED
    BY <2>7 DEF NameInv
<1> QED
  BY <1>1, NameAlways, PTL
=============================================================================
