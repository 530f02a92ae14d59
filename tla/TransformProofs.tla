-------------------------- MODULE TransformProofs --------------------------
(***************************************************************************)
(* Proofs about Transform, for images of any size and sampling and for all *)
(* requests: the region of a result is the one asked for, the result shows *)
(* the source turned as asked, sample by sample, and if the transform is   *)
(* to be perfect, all of it.                                               *)
(*                                                                         *)
(* The inductive invariant is about shapes (Inv) and then about contents   *)
(* (ShownInv).  Under them are three pieces of arithmetic, each about one  *)
(* direction: where a result begins and ends (ResultPlaced), which blocks  *)
(* of the source it takes (BlocksFit, Geometry) and which sample of a      *)
(* block in one of its eight poses is where (Poses, PosedSample).          *)
(***************************************************************************)
EXTENDS Transform, TLAPS

-----------------------------------------------------------------------------
(* Arithmetic.                                                             *)
LEMMA Divided ==
    ASSUME NEW a \in Nat, NEW n \in Nat \ {0}
    PROVE  /\ a \div n \in Nat /\ a % n \in 0 .. n - 1
           /\ a = (a \div n) * n + (a % n)
OBVIOUS

LEMMA Before ==
    ASSUME NEW a \in Int, NEW b \in Int, NEW n \in Nat \ {0}, a * n < b * n
    PROVE  a < b
OBVIOUS

LEMMA TimesAtMost ==
    ASSUME NEW a \in Int, NEW b \in Int, NEW n \in Nat, a <= b
    PROVE  a * n <= b * n
OBVIOUS

LEMMA CeilDivIs ==
    ASSUME NEW a \in Nat \ {0}, NEW n \in Nat \ {0}
    PROVE  /\ CeilDiv(a, n) \in Nat \ {0}
           /\ (CeilDiv(a, n) - 1) * n < a /\ a <= CeilDiv(a, n) * n
<1> DEFINE s == a + n - 1
           q == s \div n
<1>1. s \in Nat /\ q \in Nat
  BY Divided
<1>2. q * n <= s /\ s < q * n + n
  BY <1>1, Divided
<1>3. q # 0
  BY <1>1, <1>2
<1>4. (q - 1) * n = q * n - n
  BY <1>2
<1>5. (q - 1) * n < a /\ a <= q * n
  BY <1>2, <1>4
<1> QED BY <1>2, <1>3, <1>5 DEF CeilDiv

-----------------------------------------------------------------------------
(* A region in one direction, a, of an image that is whole samples large.  *)
LEMMA OffsetInImage ==
    ASSUME NEW a \in Directions, NEW whole \in Nat \ {0}, NEW turn,
           ~BadCrop(a, whole, turn)
    PROVE  /\ CropSize(a, whole) \in Nat \ {0} /\ Offset(a, whole) \in Nat
           /\ ~Extends(a, whole) =>
                 /\ Offset(a, whole) + CropSize(a, whole) <= whole
                 /\ Offset(a, whole) = First(a, whole)
           /\ Extends(a, whole) =>
                 /\ turn = "none" /\ a.size_set # "unset" /\ a.size > whole
                 /\ CropSize(a, whole) = a.size
           /\ a.size_set # "unset" /\ a.size > whole => Extends(a, whole)
<1>1. /\ a.size \in Nat /\ a.offset \in Nat
      /\ a.offset_set \in {"unset", "pos", "neg"}
  BY DEF Directions
<1>2. CropOffset(a) \in Nat /\ (a.offset_set # "unset" => CropOffset(a) = a.offset)
  BY <1>1 DEF CropOffset
<1>3. CASE a.size_set = "unset"
  <2>1. CropOffset(a) < whole
    BY <1>1, <1>2, <1>3 DEF BadCrop
  <2>2. CropSize(a, whole) = whole - CropOffset(a)
    BY <1>3 DEF CropSize
  <2>3. ~Extends(a, whole)
    BY <1>2, <2>2 DEF Extends
  <2>4. CASE a.offset_set # "neg"
    <3>1. Offset(a, whole) = CropOffset(a) /\ First(a, whole) = CropOffset(a)
      BY <2>4 DEF Offset, First
    <3> QED BY <1>2, <1>3, <2>1, <2>2, <2>3, <3>1
  <2>5. CASE a.offset_set = "neg"
    <3>1. /\ Offset(a, whole) = whole - CropSize(a, whole) - a.offset
          /\ First(a, whole) = whole - CropSize(a, whole) - a.offset
      BY <2>3, <2>5 DEF Offset, First
    <3>2. CropOffset(a) = a.offset
      BY <1>2, <2>5
    <3> QED BY <1>1, <1>2, <1>3, <2>1, <2>2, <2>3, <3>1, <3>2
  <2> QED BY <2>4, <2>5
<1>4. CASE a.size_set # "unset" /\ a.size > whole
  <2>1. turn = "none" /\ CropOffset(a) <= a.size - whole
    BY <1>1, <1>2, <1>4 DEF BadCrop
  <2>2. CropSize(a, whole) = a.size
    BY <1>4 DEF CropSize
  <2>3. Extends(a, whole)
    BY <1>4, <2>2 DEF Extends
  <2>4. CASE a.offset_set # "neg"
    <3>1. Offset(a, whole) = CropOffset(a)
      BY <2>4 DEF Offset
    <3> QED BY <1>1, <1>2, <1>4, <2>1, <2>2, <2>3, <3>1
  <2>5. CASE a.offset_set = "neg"
    <3>1. Offset(a, whole) = a.size - whole - a.offset
      BY <2>3, <2>5 DEF Offset
    <3>2. CropOffset(a) = a.offset
      BY <1>2, <2>5
    <3> QED BY <1>1, <1>2, <1>4, <2>1, <2>2, <2>3, <3>1, <3>2
  <2> QED BY <2>4, <2>5
<1>5. CASE a.size_set # "unset" /\ ~(a.size > whole)
  <2>1. a.size # 0 /\ CropOffset(a) <= whole - a.size
    BY <1>1, <1>2, <1>5 DEF BadCrop
  <2>2. CropSize(a, whole) = a.size
    BY <1>5 DEF CropSize
  <2>3. ~Extends(a, whole)
    BY <1>5, <2>2 DEF Extends
  <2>4. CASE a.offset_set # "neg"
    <3>1. Offset(a, whole) = CropOffset(a) /\ First(a, whole) = CropOffset(a)
      BY <2>4 DEF Offset, First
    <3> QED BY <1>1, <1>2, <1>5, <2>1, <2>2, <2>3, <3>1
  <2>5. CASE a.offset_set = "neg"
    <3>1. /\ Offset(a, whole) = whole - CropSize(a, whole) - a.offset
          /\ First(a, whole) = whole - CropSize(a, whole) - a.offset
      BY <2>3, <2>5 DEF Offset, First
    <3>2. CropOffset(a) = a.offset
      BY <1>2, <2>5
    <3> QED BY <1>1, <1>2, <1>5, <2>1, <2>2, <2>3, <3>1, <3>2
  <2> QED BY <2>4, <2>5
<1> QED BY <1>3, <1>4, <1>5

(* A crop region begins in the iMCU where the result begins, and ends      *)
(* where the result ends, if that is not forced.                           *)
Crops(r) == r.crop /\ r.transform \notin {"wipe", "drop"}

LEMMA CropPlaced ==
    ASSUME NEW r \in Requests, NEW a \in Directions, NEW whole \in Nat \ {0},
           NEW size \in Nat \ {0}, Crops(r), ~BadCrop(a, whole, r.transform)
    PROVE  LET first == CropIn_iMCUs(r, a, whole, size)
               output == OutputSize(r, a, whole, size)
           IN  /\ first \in Nat /\ output \in Nat \ {0}
               /\ Covers(a, whole, size, first, output)
               /\ ~Extends(a, whole) => first * size + output <= whole
               /\ Extends(a, whole) => output > whole /\ r.transform = "none"
<1> DEFINE first == CropIn_iMCUs(r, a, whole, size)
           output == OutputSize(r, a, whole, size)
           o == Offset(a, whole)
           n == CropSize(a, whole)
<1>1. o \in Nat /\ n \in Nat \ {0}
  BY OffsetInImage
<1>2. first = o \div size
  BY DEF CropIn_iMCUs, Crops
<1>3. output = CropOutput(a, whole, size)
  BY DEF OutputSize, Crops
<1>4. first \in Nat /\ o % size \in 0 .. size - 1 /\ o = first * size + (o % size)
  BY <1>1, <1>2, Divided
<1>5. CASE Extends(a, whole)
  <2>1. output = n
    BY <1>3, <1>5 DEF CropOutput
  <2>2. n = a.size /\ a.size_set # "unset" /\ a.size > whole /\ r.transform = "none"
    BY <1>5, OffsetInImage
  <2> QED BY <1>1, <1>4, <1>5, <2>1, <2>2 DEF Covers
<1>6. CASE ~Extends(a, whole) /\ a.size_set = "force"
  <2>1. output = n /\ n = a.size
    BY <1>3, <1>6 DEF CropOutput, CropSize
  <2>2. o + n <= whole
    BY <1>6, OffsetInImage
  <2>3. first * size \in Nat
    BY <1>4
  <2>4. first * size + output <= whole
    BY <1>1, <1>4, <2>1, <2>2, <2>3
  <2> QED BY <1>1, <1>4, <1>6, <2>1, <2>4 DEF Covers
<1>7. CASE ~Extends(a, whole) /\ a.size_set # "force"
  <2>1. output = n + (o % size)
    BY <1>3, <1>7 DEF CropOutput
  <2>2. o + n <= whole /\ o = First(a, whole)
    BY <1>7, OffsetInImage
  <2>3. ~(a.size_set # "unset" /\ a.size > whole)
    BY <1>7, OffsetInImage
  <2>4. first * size \in Nat /\ (first + 1) * size = first * size + size
    BY <1>4
  <2>5. first * size + output = o + n /\ output \in Nat \ {0}
    BY <1>1, <1>4, <2>1, <2>4
  <2>6. first * size <= o /\ o < (first + 1) * size
    BY <1>1, <1>4, <2>4
  <2> QED BY <1>4, <1>7, <2>2, <2>3, <2>5, <2>6 DEF Covers
<1> QED BY <1>5, <1>6, <1>7

(* An edge is trimmed to whole iMCUs if there is at least one.             *)
LEMMA TrimClean ==
    ASSUME NEW whole \in Nat \ {0}, NEW size \in Nat \ {0}, NEW first \in Nat,
           NEW output \in Nat \ {0}, first * size + output <= whole
    PROVE  LET trimmed == Trim(output, first, whole, size)
           IN  /\ trimmed \in Nat \ {0} /\ first * size + trimmed <= whole
               /\ trimmed >= size => first * size + trimmed <= whole - (whole % size)
<1> DEFINE n == output \div size
           w == whole \div size
           trimmed == Trim(output, first, whole, size)
<1>1. n \in Nat /\ n * size <= output /\ output < n * size + size
  BY Divided
<1>2. w \in Nat /\ whole % size \in 0 .. size - 1 /\ w * size = whole - (whole % size)
  BY Divided
<1>3. /\ first * size \in Nat /\ (first + n) * size = first * size + n * size
      /\ n * size \in Nat /\ w * size \in Nat
      /\ (w + 1) * size = w * size + size
      /\ (first + n + 1) * size = first * size + n * size + size
  BY <1>1, <1>2
<1>4. trimmed = IF n > 0 /\ first + n = w THEN n * size ELSE output
  BY DEF Trim
<1> HIDE DEF n, w, trimmed
<1>5. CASE n > 0 /\ first + n = w
  <2>1. trimmed = n * size
    BY <1>4, <1>5
  <2>2. n * size >= size
    BY <1>1, <1>5
  <2>3. first * size + n * size = w * size
    BY <1>3, <1>5
  <2>4. w * size <= whole
    BY <1>2
  <2> QED BY <1>2, <1>3, <2>1, <2>2, <2>3, <2>4 DEF trimmed
<1>6. CASE n = 0
  <2>1. trimmed = output /\ output < size
    BY <1>1, <1>4, <1>6
  <2> QED BY <2>1 DEF trimmed
<1>7. CASE n > 0 /\ first + n # w
  <2>1. trimmed = output
    BY <1>4, <1>7
  <2>2. (first + n) * size < (w + 1) * size
    BY <1>1, <1>2, <1>3
  <2>3. first + n < w + 1
    BY <1>1, <1>2, <2>2, Before
  <2>4. first + n + 1 <= w
    BY <1>1, <1>2, <1>7, <2>3
  <2>5. (first + n + 1) * size <= w * size
    BY <1>1, <1>2, <2>4, TimesAtMost
  <2>6. first * size + output <= w * size
    BY <1>1, <1>3, <2>5
  <2> QED BY <1>2, <2>1, <2>6 DEF trimmed
<1> QED BY <1>1, <1>5, <1>6, <1>7

(* Both ends of a result in one direction, trimmed or not.                 *)
OneOutput(r, a, whole, size, trims) ==
    IF trims THEN Trim(OutputSize(r, a, whole, size), CropIn_iMCUs(r, a, whole, size),
                       whole, size)
    ELSE OutputSize(r, a, whole, size)

LEMMA ResultPlaced ==
    ASSUME NEW r \in Requests, NEW a \in Directions, NEW whole \in Nat \ {0},
           NEW size \in Nat \ {0}, NEW trims \in BOOLEAN,
           r.transform \notin {"wipe", "drop"}, trims => r.transform # "none",
           r.crop => ~BadCrop(a, whole, r.transform)
    PROVE  LET first == CropIn_iMCUs(r, a, whole, size)
               output == OneOutput(r, a, whole, size, trims)
           IN  /\ first \in Nat /\ output \in Nat \ {0}
               /\ trims /\ output >= size =>
                     first * size + output <= whole - (whole % size)
               /\ r.crop /\ ~trims => Covers(a, whole, size, first, output)
               /\ r.transform # "none" \/ output <= whole =>
                     first * size + output <= whole
               /\ ~r.crop => first = 0 /\ (~trims => output = whole)
<1> DEFINE first == CropIn_iMCUs(r, a, whole, size)
           untrimmed == OutputSize(r, a, whole, size)
           output == OneOutput(r, a, whole, size, trims)
<1>1. /\ first \in Nat /\ untrimmed \in Nat \ {0}
      /\ r.crop => Covers(a, whole, size, first, untrimmed)
      /\ r.transform # "none" \/ untrimmed <= whole => first * size + untrimmed <= whole
      /\ ~r.crop => first = 0 /\ untrimmed = whole
  <2>1. CASE r.crop
    BY <2>1, CropPlaced DEF Crops
  <2>2. CASE ~r.crop
    <3>1. first = 0 /\ untrimmed = whole
      BY <2>2 DEF CropIn_iMCUs, OutputSize
    <3> QED BY <2>2, <3>1
  <2> QED BY <2>1, <2>2
<1>2. CASE trims
  <2>1. first * size + untrimmed <= whole
    BY <1>1, <1>2
  <2>2. output = Trim(untrimmed, first, whole, size)
    BY <1>2 DEF OneOutput
  <2> HIDE DEF first, untrimmed, output
  <2> QED BY <1>1, <1>2, <2>1, <2>2, TrimClean DEF first, output
<1>3. CASE ~trims
  <2>1. output = untrimmed
    BY <1>3 DEF OneOutput
  <2> HIDE DEF first, untrimmed, output
  <2> QED BY <1>1, <1>3, <2>1 DEF first, output
<1> QED BY <1>2, <1>3

-----------------------------------------------------------------------------
(* The shape of an image: everything of it but its blocks.                 *)
ImageOK(im) ==
    /\ im.comps \in Seq(Samplings) /\ im.comps # << >> /\ im.ycc \in BOOLEAN
    /\ im.width \in Nat \ {0} /\ im.height \in Nat \ {0}
SameShape(im, other) ==
    /\ im.comps = other.comps /\ im.ycc = other.ycc
    /\ im.width = other.width /\ im.height = other.height

LEMMA MaxIs ==
    ASSUME NEW S \in SUBSET (1 .. 4), S # {}
    PROVE  Max(S) \in S /\ \A n \in S : n <= Max(S)
<1>1. \E m \in S : \A n \in S : m >= n
  <2>1. CASE 4 \in S BY <2>1
  <2>2. CASE 4 \notin S /\ 3 \in S BY <2>2
  <2>3. CASE 4 \notin S /\ 3 \notin S /\ 2 \in S BY <2>3
  <2>4. CASE 4 \notin S /\ 3 \notin S /\ 2 \notin S
    <3>1. PICK m \in S : TRUE OBVIOUS
    <3>2. \A n \in S : n = 1 BY <2>4
    <3>3. \A n \in S : m >= n BY <3>2
    <3> QED BY <3>3
  <2> QED BY <2>1, <2>2, <2>3, <2>4
<1>2. Max(S) \in S /\ \A n \in S : Max(S) >= n
  BY <1>1 DEF Max
<1>3. \A n \in S : n \in Int
  OBVIOUS
<1>4. \A n \in S : n <= Max(S)
  BY <1>2, <1>3
<1> QED BY <1>2, <1>4

LEMMA MaxSampling ==
    ASSUME NEW im, im.comps \in Seq(Samplings), im.comps # << >>
    PROVE  /\ max_h(im) \in 1 .. 4 /\ max_v(im) \in 1 .. 4
           /\ \A c \in DOMAIN im.comps :
                 /\ im.comps[c].h \in 1 .. max_h(im)
                 /\ im.comps[c].v \in 1 .. max_v(im)
           /\ 1 \in DOMAIN im.comps
<1> DEFINE H == {im.comps[c].h : c \in DOMAIN im.comps}
           V == {im.comps[c].v : c \in DOMAIN im.comps}
<1>1. \A c \in DOMAIN im.comps : im.comps[c] \in Samplings
  OBVIOUS
<1>2. \A c \in DOMAIN im.comps : im.comps[c].h \in 1 .. 4 /\ im.comps[c].v \in 1 .. 4
  BY <1>1 DEF Samplings
<1>3. 1 \in DOMAIN im.comps
  OBVIOUS
<1>4. H \in SUBSET (1 .. 4) /\ V \in SUBSET (1 .. 4) /\ H # {} /\ V # {}
  BY <1>2, <1>3
<1>5. /\ Max(H) \in H /\ \A n \in H : n <= Max(H)
      /\ Max(V) \in V /\ \A n \in V : n <= Max(V)
  BY <1>4, MaxIs
<1>6. max_h(im) = Max(H) /\ max_v(im) = Max(V)
  BY DEF max_h, max_v
<1>7. ASSUME NEW c \in DOMAIN im.comps
      PROVE  im.comps[c].h \in H /\ im.comps[c].v \in V
  OBVIOUS
<1> HIDE DEF H, V
<1>8. max_h(im) \in 1 .. 4 /\ max_v(im) \in 1 .. 4
  BY <1>4, <1>5, <1>6
<1>9. ASSUME NEW c \in DOMAIN im.comps
      PROVE  im.comps[c].h <= max_h(im) /\ im.comps[c].v <= max_v(im)
  BY <1>5, <1>6, <1>7
<1> QED BY <1>2, <1>3, <1>8, <1>9

LEMMA SizesAre ==
    ASSUME NEW im, ImageOK(im), NEW r
    PROVE  /\ Full(im, r).w \in Nat \ {0} /\ Full(im, r).h \in Nat \ {0}
           /\ iMCU_size(im, r).w \in Nat \ {0} /\ iMCU_size(im, r).h \in Nat \ {0}
<1>1. max_h(im) \in 1 .. 4 /\ max_v(im) \in 1 .. 4
  BY MaxSampling DEF ImageOK
<1>2. iMCU_width(im, r) \in Nat \ {0} /\ iMCU_height(im, r) \in Nat \ {0}
  BY <1>1 DEF iMCU_width, iMCU_height, DCTSIZE
<1>3. im.width \in Nat \ {0} /\ im.height \in Nat \ {0}
  BY DEF ImageOK
<1> QED BY <1>2, <1>3 DEF Full, iMCU_size

LEMMA SameSizes ==
    ASSUME NEW im, NEW other, SameShape(im, other), NEW r
    PROVE  /\ Full(im, r) = Full(other, r) /\ iMCU_size(im, r) = iMCU_size(other, r)
           /\ NumComponents(im, r) = NumComponents(other, r)
           /\ DstComps(im, r) = DstComps(other, r)
           /\ max_h(im) = max_h(other) /\ max_v(im) = max_v(other)
           /\ jtransform_perfect_transform(im, r) = jtransform_perfect_transform(other, r)
<1>1. max_h(im) = max_h(other) /\ max_v(im) = max_v(other)
  BY DEF SameShape, max_h, max_v
<1>2. NumComponents(im, r) = NumComponents(other, r)
  BY DEF SameShape, NumComponents
<1>3. iMCU_width(im, r) = iMCU_width(other, r) /\ iMCU_height(im, r) = iMCU_height(other, r)
  BY <1>1, <1>2 DEF iMCU_width, iMCU_height
<1>4. Full(im, r) = Full(other, r) /\ iMCU_size(im, r) = iMCU_size(other, r)
  BY <1>3 DEF SameShape, Full, iMCU_size
<1>5. DstComps(im, r) = DstComps(other, r)
  BY <1>2 DEF SameShape, DstComps
<1>6. jtransform_perfect_transform(im, r) = jtransform_perfect_transform(other, r)
  BY <1>3 DEF SameShape, jtransform_perfect_transform
<1> QED BY <1>1, <1>2, <1>4, <1>5, <1>6

-----------------------------------------------------------------------------
(* The inductive invariant.  The source keeps its shape, whatever is       *)
(* written over its blocks; each info is what was made of its request,     *)
(* which was accepted; and the destination is as its info says.            *)
WithBlocks(im, b) ==
    [comps |-> im.comps, ycc |-> im.ycc, width |-> im.width, height |-> im.height,
     blocks |-> b]
Accepted(im, r) ==
    /\ r.perfect => jtransform_perfect_transform(im, r)
    /\ r.crop => /\ ~BadCrop(r.x, Full(im, r).w, r.transform)
                 /\ ~BadCrop(r.y, Full(im, r).h, r.transform)
GrayOK(im, r) ==
    r.force_grayscale => FullResolution(im) /\ (im.ycc \/ Len(im.comps) = 1)
Made(k) == MakeInfo(job.requests[k], Full(src, job.requests[k]),
                    iMCU_size(src, job.requests[k]))

InfosOK ==
    /\ infos = [k \in 1 .. Len(infos) |-> infos[k]] /\ Len(infos) \in Nat
    /\ Len(infos) <= Len(job.requests)
    /\ \A k \in 1 .. Len(infos) :
          infos[k] = Made(k) /\ Accepted(src, job.requests[k])
DstFits ==
    /\ i # 0 /\ GrayOK(src, job.requests[i])
    /\ dst = WithBlocks(Destination(src, info), dst.blocks)
Inv ==
    /\ phase \in {"start", "requested", "adjusted", "written", "refused"}
    /\ job \in Jobs /\ i \in 0 .. Len(infos)
    /\ ImageOK(src) /\ src = WithBlocks(src, src.blocks)
    /\ phase = "start" => Len(infos) < Len(job.requests)
    /\ InfosOK
    /\ phase \in {"adjusted", "written"} => DstFits

(* What the arrays hold after Init and after jtransform_execute_transform. *)
InitialArray(im) ==
    [c \in DOMAIN im.comps |->
      [y \in 0 .. Padded(height_in_blocks(im, c), im.comps[c].v) - 1 |->
        [x \in 0 .. Padded(width_in_blocks(im, c), im.comps[c].h) - 1 |->
            IF y < height_in_blocks(im, c) /\ x < width_in_blocks(im, c)
              THEN Block("image", y, x) ELSE Pad]]]
DstArray ==
    [c \in DOMAIN dst.comps |->
      [y \in 0 .. Padded(height_in_blocks(dst, c), dst.comps[c].v) - 1 |->
        [x \in 0 .. Padded(width_in_blocks(dst, c), dst.comps[c].h) - 1 |->
            IF y < height_in_blocks(dst, c) /\ x < width_in_blocks(dst, c)
              THEN Filtered(Transformed(c, y, x)) ELSE Pad]]]
SrcArray ==
    [c \in DOMAIN src.blocks |-> [y \in DOMAIN src.blocks[c] |->
      [x \in DOMAIN src.blocks[c][y] |-> Overwritten(c, y, x)]]]

LEMMA InitReads ==
    ASSUME Init
    PROVE  \E im \in Images : src = [im EXCEPT !.blocks = InitialArray(im)]
BY Zenon DEF Init, Read, InitialArray

LEMMA ExecuteWrites ==
    ASSUME jtransform_execute_transform
    PROVE  /\ dst' = [dst EXCEPT !.blocks = DstArray]
           /\ src' = IF NeedWorkspace(src, info) THEN src
                     ELSE [src EXCEPT !.blocks = SrcArray]
<1>1. dst' = [dst EXCEPT !.blocks = DstArray]
  BY Zenon DEF jtransform_execute_transform, Read, DstArray
<1>2. src' = IF NeedWorkspace(src, info) THEN src
             ELSE [src EXCEPT !.blocks = SrcArray]
  BY Zenon DEF jtransform_execute_transform, SrcArray
<1> QED BY <1>1, <1>2

LEMMA BlocksReplaced ==
    ASSUME NEW im, im = WithBlocks(im, im.blocks), NEW b
    PROVE  [im EXCEPT !.blocks = b] = WithBlocks(im, b)
BY DEF WithBlocks

LEMMA ShapeKept ==
    ASSUME NEW im, ImageOK(im), NEW b
    PROVE  /\ ImageOK(WithBlocks(im, b)) /\ SameShape(im, WithBlocks(im, b))
           /\ WithBlocks(im, b).blocks = b
           /\ WithBlocks(im, b) = WithBlocks(WithBlocks(im, b), b)
BY DEF ImageOK, WithBlocks, SameShape

LEMMA JobIs ==
    ASSUME job \in Jobs
    PROVE  /\ job.requests \in Seq(Requests) /\ Len(job.requests) \in Nat \ {0}
           /\ \A k \in 1 .. Len(job.requests) : job.requests[k] \in Requests
<1>1. job \in [tj : BOOLEAN, requests : Seq(Requests) \ {<< >>}]
  BY JobsAssumption
<1>2. job.requests \in Seq(Requests) /\ job.requests # << >>
  BY <1>1
<1> QED BY <1>2

LEMMA InitInv ==
    ASSUME Init PROVE Inv
<1>1. PICK im \in Images : src = [im EXCEPT !.blocks = InitialArray(im)]
  BY InitReads
<1>2. im \in [comps : Seq(Samplings) \ {<< >>}, ycc : BOOLEAN,
              width : Nat \ {0}, height : Nat \ {0}, blocks : {<< >>}]
  BY ImagesAssumption
<1>3. ImageOK(im) /\ im = WithBlocks(im, im.blocks)
  BY <1>2 DEF ImageOK, WithBlocks
<1>4. src = WithBlocks(im, InitialArray(im))
  BY <1>1, <1>3, BlocksReplaced
<1>5. ImageOK(src) /\ src = WithBlocks(src, src.blocks)
  BY <1>3, <1>4, ShapeKept
<1>6. job \in Jobs /\ phase = "start" /\ infos = << >> /\ i = 0
  BY DEF Init
<1>7. Len(infos) < Len(job.requests)
  BY <1>6, JobIs
<1>8. InfosOK
  BY <1>6, <1>7 DEF InfosOK
<1> QED BY <1>5, <1>6, <1>7, <1>8 DEF Inv

LEMMA MadeKept ==
    ASSUME job' = job, SameShape(src, src'), NEW k
    PROVE  Made(k)' = Made(k)
<1> DEFINE r == job.requests[k]
<1>1. Full(src', r) = Full(src, r) /\ iMCU_size(src', r) = iMCU_size(src, r)
  BY SameSizes
<1> QED BY <1>1 DEF Made, MakeInfo, InfoFor, slow_hflip

LEMMA InfosKept ==
    ASSUME InfosOK, job' = job, SameShape(src, src'), infos' = infos
    PROVE  InfosOK'
<1>1. ASSUME NEW k
      PROVE  /\ Made(k)' = Made(k)
             /\ Accepted(src', job'.requests[k]) = Accepted(src, job.requests[k])
  <2>1. Made(k)' = Made(k)
    BY MadeKept
  <2>2. Accepted(src', job.requests[k]) = Accepted(src, job.requests[k])
    <3> DEFINE r == job.requests[k]
    <3>1. /\ Full(src', r) = Full(src, r)
          /\ jtransform_perfect_transform(src', r) = jtransform_perfect_transform(src, r)
      BY SameSizes
    <3> QED BY <3>1 DEF Accepted
  <2> QED BY <2>1, <2>2
<1> QED BY <1>1 DEF InfosOK

LEMMA DstKept ==
    ASSUME DstFits, job' = job, SameShape(src, src'), infos' = infos, i' = i,
           dst' = WithBlocks(Destination(src, info), dst'.blocks)
    PROVE  DstFits'
<1>1. info' = info
  BY DEF info
<1>2. /\ DstComps(src', info.request) = DstComps(src, info.request)
      /\ max_h(src') = max_h(src) /\ max_v(src') = max_v(src)
  BY SameSizes
<1>3. Destination(src', info) = Destination(src, info)
  BY <1>2 DEF Destination, SameShape
<1>4. GrayOK(src', job.requests[i]) = GrayOK(src, job.requests[i])
  BY <1>2 DEF GrayOK, FullResolution, SameShape
<1> QED BY <1>1, <1>3, <1>4 DEF DstFits

LEMMA RequestInv ==
    ASSUME Inv, jtransform_request_workspace
    PROVE  Inv'
<1> DEFINE n == Len(infos)
           r == job.requests[n + 1]
           made == MakeInfo(r, Full(src, r), iMCU_size(src, r))
<1>1. /\ phase = "start" /\ n < Len(job.requests) /\ n \in Nat /\ InfosOK
      /\ job' = job /\ src' = src /\ i' = i /\ dst' = dst
  BY DEF Inv, InfosOK, jtransform_request_workspace
<1>2. SameShape(src, src')
  BY <1>1 DEF SameShape
<1>3. CASE phase' = "refused" /\ infos' = infos
  <2>1. InfosOK'
    BY <1>1, <1>2, <1>3, InfosKept
  <2> QED BY <1>1, <1>3, <2>1 DEF Inv
<1>4. CASE /\ phase' = IF n + 1 = Len(job.requests) THEN "requested" ELSE "start"
           /\ infos' = Append(infos, made)
           /\ Accepted(src, r)
  <2>1. infos \in Seq({infos[k] : k \in 1 .. n})
    BY <1>1 DEF InfosOK
  <2>2. /\ Len(infos') = n + 1 /\ infos'[n + 1] = made
        /\ \A k \in 1 .. n : infos'[k] = infos[k]
        /\ infos' = [k \in 1 .. n + 1 |-> infos'[k]]
    BY <1>1, <1>4, <2>1
  <2>3. ASSUME NEW k \in 1 .. n + 1
        PROVE  infos'[k] = Made(k)' /\ Accepted(src', job'.requests[k])
    <3>1. Made(k)' = Made(k)
      BY <1>1, <1>2, MadeKept
    <3>2. CASE k = n + 1
      BY <1>1, <1>4, <2>2, <3>1, <3>2 DEF Made
    <3>3. CASE k # n + 1
      <4>1. k \in 1 .. n
        BY <1>1, <3>3
      <4> QED BY <1>1, <2>2, <3>1, <4>1 DEF InfosOK
    <3> QED BY <3>2, <3>3
  <2>4. Len(job.requests) \in Nat
    BY JobIs DEF Inv
  <2>5. InfosOK'
    BY <1>1, <2>2, <2>3, <2>4 DEF InfosOK
  <2>6. i' \in 0 .. Len(infos') /\ phase' \in {"start", "requested"}
    BY <1>1, <1>4, <2>2 DEF Inv
  <2>7. phase' = "start" => Len(infos') < Len(job'.requests)
    BY <1>1, <1>4, <2>2, <2>4
  <2> QED BY <1>1, <2>5, <2>6, <2>7 DEF Inv
<1>5. \/ phase' = "refused" /\ infos' = infos
      \/ /\ phase' = IF n + 1 = Len(job.requests) THEN "requested" ELSE "start"
         /\ infos' = Append(infos, made)
         /\ Accepted(src, r)
  BY DEF jtransform_request_workspace, Accepted
<1> QED BY <1>3, <1>4, <1>5

LEMMA AdjustInv ==
    ASSUME Inv, jtransform_adjust_parameters
    PROVE  Inv'
<1>1. /\ job' = job /\ src' = src /\ infos' = infos /\ i < Len(infos)
      /\ InfosOK /\ Len(infos) \in Nat /\ i \in 0 .. Len(infos)
      /\ phase \in {"requested", "written"}
  BY DEF Inv, InfosOK, jtransform_adjust_parameters
<1>2. SameShape(src, src')
  BY <1>1 DEF SameShape
<1>3. InfosOK'
  BY <1>1, <1>2, InfosKept
<1>4. CASE phase' = "refused" /\ i' = i /\ dst' = dst
  BY <1>1, <1>3, <1>4 DEF Inv
<1>5. CASE /\ ~(infos[i + 1].request.force_grayscale /\
                 ~(FullResolution(src) /\ (src.ycc \/ Len(src.comps) = 1)))
           /\ phase' = "adjusted" /\ i' = i + 1
           /\ dst' = Destination(src, infos[i + 1])
  <2>1. i' \in 1 .. Len(infos) /\ info' = infos[i + 1]
    BY <1>1, <1>5 DEF info
  <2>2. infos[i + 1] = Made(i + 1)
    BY <1>1, <1>5, <2>1 DEF InfosOK
  <2>3. infos[i + 1].request = job.requests[i + 1]
    BY <2>2 DEF Made, MakeInfo, InfoFor
  <2>4. GrayOK(src, job.requests[i + 1])
    BY <1>5, <2>3 DEF GrayOK
  <2>5. dst' = WithBlocks(Destination(src, infos[i + 1]), dst'.blocks)
    BY <1>5 DEF WithBlocks, Destination
  <2>6. i' # 0
    BY <2>1
  <2>7. DstFits'
    BY <1>1, <1>5, <2>1, <2>4, <2>5, <2>6 DEF DstFits
  <2> QED BY <1>1, <1>3, <1>5, <2>1, <2>7 DEF Inv
<1> QED BY <1>4, <1>5 DEF jtransform_adjust_parameters

LEMMA ExecuteInv ==
    ASSUME Inv, jtransform_execute_transform
    PROVE  Inv' /\ SameShape(src, src') /\ info' = info
<1>1. /\ phase = "adjusted" /\ phase' = "written"
      /\ job' = job /\ infos' = infos /\ i' = i
  BY DEF jtransform_execute_transform
<1>2. /\ dst = WithBlocks(Destination(src, info), dst.blocks) /\ DstFits
      /\ ImageOK(src) /\ src = WithBlocks(src, src.blocks) /\ InfosOK
  BY <1>1 DEF Inv, DstFits
<1>3. dst = WithBlocks(dst, dst.blocks)
  BY <1>2 DEF WithBlocks
<1>4. dst' = WithBlocks(dst, DstArray)
  BY <1>3, ExecuteWrites, BlocksReplaced
<1>5. dst' = WithBlocks(Destination(src, info), dst'.blocks)
  BY <1>2, <1>4 DEF WithBlocks
<1>6. \E b : src' = WithBlocks(src, b)
  <2>1. src' = src \/ src' = [src EXCEPT !.blocks = SrcArray]
    BY ExecuteWrites
  <2>2. [src EXCEPT !.blocks = SrcArray] = WithBlocks(src, SrcArray)
    BY <1>2, BlocksReplaced
  <2>3. src' = WithBlocks(src, src.blocks) \/ src' = WithBlocks(src, SrcArray)
    BY <1>2, <2>1, <2>2
  <2> QED BY <2>3
<1>7. ImageOK(src') /\ SameShape(src, src') /\ src' = WithBlocks(src', src'.blocks)
  BY <1>2, <1>6, ShapeKept
<1>8. InfosOK' /\ DstFits'
  BY <1>1, <1>2, <1>5, <1>7, InfosKept, DstKept
<1>9. info' = info
  BY <1>1 DEF info
<1> QED BY <1>1, <1>7, <1>8, <1>9 DEF Inv

LEMMA NextInv ==
    ASSUME Inv, [Next]_vars
    PROVE  Inv'
<1>1. CASE UNCHANGED vars
  <2>1. /\ phase' = phase /\ job' = job /\ src' = src /\ infos' = infos
        /\ i' = i /\ dst' = dst
    BY <1>1 DEF vars
  <2>2. SameShape(src, src')
    BY <2>1 DEF SameShape
  <2>3. InfosOK'
    BY <2>1, <2>2, InfosKept DEF Inv
  <2>4. phase' \in {"adjusted", "written"} => DstFits'
    BY <2>1, <2>2, DstKept DEF Inv, DstFits
  <2> QED BY <2>1, <2>3, <2>4 DEF Inv
<1> QED BY <1>1, RequestInv, AdjustInv, ExecuteInv DEF Next

LEMMA Invariant == Spec => []Inv
<1>1. Init => Inv
  BY InitInv
<1>2. Inv /\ [Next]_vars => Inv'
  BY NextInv
<1> QED BY <1>1, <1>2, PTL DEF Spec

-----------------------------------------------------------------------------
(* What the invariant says of the result in a direction.                   *)
LEMMA InfoIs ==
    ASSUME Inv, phase \in {"adjusted", "written"}
    PROVE  /\ request \in Requests /\ request = job.requests[i]
           /\ Accepted(src, request) /\ GrayOK(src, request)
           /\ info = MakeInfo(request, full, iMCU)
           /\ info.transform = request.transform
           /\ dst = WithBlocks(Destination(src, info), dst.blocks)
           /\ i \in 1 .. Len(job.requests) /\ Len(job.requests) \in Nat
<1>1. /\ DstFits /\ InfosOK /\ i \in 1 .. Len(infos) /\ Len(infos) \in Nat
      /\ job \in Jobs
  BY DEF Inv, DstFits, InfosOK
<1>2. i \in 1 .. Len(job.requests) /\ Len(job.requests) \in Nat
  BY <1>1, JobIs DEF InfosOK
<1>3. info = Made(i) /\ Accepted(src, job.requests[i])
  BY <1>1 DEF InfosOK, info
<1>4. request = job.requests[i] /\ info.transform = job.requests[i].transform
  BY <1>3 DEF request, Made, MakeInfo, InfoFor
<1>5. job.requests[i] \in Requests
  BY <1>1, <1>2, JobIs
<1> QED BY <1>1, <1>2, <1>3, <1>4, <1>5 DEF Made, full, iMCU, DstFits

LEMMA ResultIs ==
    ASSUME Inv, phase \in {"adjusted", "written"}
    PROVE  LET trims_x == request.trim /\ info.transform \in MirrorsX
               trims_y == request.trim /\ info.transform \in MirrorsY
           IN  /\ info.x_crop_offset = CropIn_iMCUs(request, request.x, full.w, iMCU.w)
               /\ info.y_crop_offset = CropIn_iMCUs(request, request.y, full.h, iMCU.h)
               /\ dst.width = OneOutput(request, request.x, full.w, iMCU.w, trims_x)
               /\ dst.height = OneOutput(request, request.y, full.h, iMCU.h, trims_y)
               /\ trims_x \in BOOLEAN /\ trims_y \in BOOLEAN
               /\ info.transform = "none" => ~trims_x /\ ~trims_y
               /\ full.w \in Nat \ {0} /\ full.h \in Nat \ {0}
               /\ iMCU.w \in Nat \ {0} /\ iMCU.h \in Nat \ {0}
               /\ request.x \in Directions /\ request.y \in Directions
               /\ request.crop => /\ ~BadCrop(request.x, full.w, request.transform)
                                  /\ ~BadCrop(request.y, full.h, request.transform)
<1>1. /\ request \in Requests /\ info.transform = request.transform
      /\ info = MakeInfo(request, full, iMCU) /\ Accepted(src, request)
      /\ dst = WithBlocks(Destination(src, info), dst.blocks)
  BY InfoIs
<1>2. dst.width = info.output_width /\ dst.height = info.output_height
  BY <1>1 DEF WithBlocks, Destination
<1>3. /\ info.x_crop_offset = CropIn_iMCUs(request, request.x, full.w, iMCU.w)
      /\ info.y_crop_offset = CropIn_iMCUs(request, request.y, full.h, iMCU.h)
      /\ info.output_width = OneOutput(request, request.x, full.w, iMCU.w,
                                request.trim /\ info.transform \in TrimsRight)
      /\ info.output_height = OneOutput(request, request.y, full.h, iMCU.h,
                                 request.trim /\ info.transform \in TrimsBottom)
  BY <1>1 DEF MakeInfo, InfoFor, Output, OneOutput
<1>4. MirrorsX = TrimsRight /\ MirrorsY = TrimsBottom
  BY DEF MirrorsX, MirrorsY, TrimsRight, TrimsBottom
<1>5. /\ request.x \in Directions /\ request.y \in Directions
      /\ request.trim \in BOOLEAN
  BY <1>1 DEF Requests
<1>6. /\ full.w \in Nat \ {0} /\ full.h \in Nat \ {0}
      /\ iMCU.w \in Nat \ {0} /\ iMCU.h \in Nat \ {0}
  BY SizesAre DEF Inv, full, iMCU
<1>7. request.crop => /\ ~BadCrop(request.x, full.w, request.transform)
                      /\ ~BadCrop(request.y, full.h, request.transform)
  BY <1>1 DEF Accepted, full
<1>8. info.transform = "none" => info.transform \notin MirrorsX /\ info.transform \notin MirrorsY
  BY DEF MirrorsX, MirrorsY
<1> QED BY <1>2, <1>3, <1>4, <1>5, <1>6, <1>7, <1>8

LEMMA RegionIs ==
    ASSUME Inv PROVE RegionAsAsked
<1> DEFINE trims_x == request.trim /\ info.transform \in MirrorsX
           trims_y == request.trim /\ info.transform \in MirrorsY
<1>1. SUFFICES ASSUME Written PROVE RegionAsAsked
  BY DEF RegionAsAsked, TrimmedClean, CropCovers
<1>2. phase \in {"adjusted", "written"}
  BY <1>1 DEF Written
<1>3. CASE info.transform \in {"wipe", "drop"}
  BY <1>3 DEF RegionAsAsked, TrimmedClean, CropCovers, MirrorsX, MirrorsY
<1>4. CASE info.transform \notin {"wipe", "drop"}
  <2>1. request \in Requests /\ info.transform = request.transform
    BY <1>2, InfoIs
  <2>2. /\ trims_x \in BOOLEAN /\ trims_y \in BOOLEAN
        /\ trims_x => request.transform # "none"
        /\ trims_y => request.transform # "none"
    BY <1>2, <2>1, ResultIs
  <2>3. /\ trims_x /\ dst.width >= iMCU.w =>
              info.x_crop_offset * iMCU.w + dst.width <= full.w - (full.w % iMCU.w)
        /\ request.crop /\ ~trims_x =>
              Covers(request.x, full.w, iMCU.w, info.x_crop_offset, dst.width)
    <3>1. /\ info.x_crop_offset = CropIn_iMCUs(request, request.x, full.w, iMCU.w)
          /\ dst.width = OneOutput(request, request.x, full.w, iMCU.w, trims_x)
          /\ full.w \in Nat \ {0} /\ iMCU.w \in Nat \ {0} /\ request.x \in Directions
          /\ request.crop => ~BadCrop(request.x, full.w, request.transform)
      BY <1>2, ResultIs
    <3> HIDE DEF trims_x
    <3> QED BY <1>4, <2>1, <2>2, <3>1, ResultPlaced
  <2>4. /\ trims_y /\ dst.height >= iMCU.h =>
              info.y_crop_offset * iMCU.h + dst.height <= full.h - (full.h % iMCU.h)
        /\ request.crop /\ ~trims_y =>
              Covers(request.y, full.h, iMCU.h, info.y_crop_offset, dst.height)
    <3>1. /\ info.y_crop_offset = CropIn_iMCUs(request, request.y, full.h, iMCU.h)
          /\ dst.height = OneOutput(request, request.y, full.h, iMCU.h, trims_y)
          /\ full.h \in Nat \ {0} /\ iMCU.h \in Nat \ {0} /\ request.y \in Directions
          /\ request.crop => ~BadCrop(request.y, full.h, request.transform)
      BY <1>2, ResultIs
    <3> HIDE DEF trims_y
    <3> QED BY <1>4, <2>1, <2>2, <3>1, ResultPlaced
  <2>5. TrimmedClean
    BY <2>3, <2>4 DEF TrimmedClean
  <2>6. CropCovers
    BY <2>3, <2>4 DEF CropCovers
  <2> QED BY <2>5, <2>6 DEF RegionAsAsked
<1> QED BY <1>3, <1>4

(* The region of every result is the one asked for, for every image and    *)
(* every request: the result covers what a crop names, from the beginning  *)
(* of the iMCU where that starts, and a trimmed result has no partial iMCU *)
(* at an edge that was mirrored.                                           *)
THEOREM RegionIsAsAsked == Spec => []RegionAsAsked
<1>1. Inv => RegionAsAsked
  BY RegionIs
<1> QED BY <1>1, Invariant, PTL

-----------------------------------------------------------------------------
(* Blocks of the result and of the source.  A block of the result lies in  *)
(* the source, and so does its mirror image.                               *)
LEMMA BlocksFit ==
    ASSUME NEW whole \in Nat \ {0}, NEW size \in Nat \ {0}, NEW first \in Nat,
           NEW output \in Nat \ {0}, first * size + output <= whole,
           NEW samp \in Nat \ {0}, NEW x \in 0 .. CeilDiv(output * samp, size) - 1
    PROVE  /\ first * samp \in Nat
           /\ first * samp + x \in 0 .. CeilDiv(whole * samp, size) - 1
           /\ (whole \div size) * samp \in 0 .. CeilDiv(whole * samp, size)
<1> DEFINE n == CeilDiv(whole * samp, size)
           w == whole \div size
<1>1. whole * samp \in Nat \ {0} /\ output * samp \in Nat \ {0} /\ first * samp \in Nat
  OBVIOUS
<1>2. n \in Nat \ {0} /\ whole * samp <= n * size
  BY <1>1, CeilDivIs
<1>3. x * size < output * samp
  <2> DEFINE m == CeilDiv(output * samp, size)
  <2>1. m \in Nat \ {0} /\ (m - 1) * size < output * samp
    BY <1>1, CeilDivIs
  <2>2. x <= m - 1 /\ m - 1 \in Int /\ x \in Nat
    BY <2>1
  <2> HIDE DEF m
  <2>3. x * size <= (m - 1) * size
    BY <2>2, TimesAtMost
  <2>4. x * size \in Nat /\ (m - 1) * size \in Int
    BY <2>2
  <2> QED BY <1>1, <2>1, <2>3, <2>4
<1>4. x \in Nat
  OBVIOUS
<1> HIDE DEF n
<1>5. (first * samp + x) * size = (first * size) * samp + x * size
  BY <1>1, <1>4
<1>6. (first * size + output) * samp <= whole * samp
  BY TimesAtMost
<1>7. (first * size + output) * samp = (first * size) * samp + output * samp
  OBVIOUS
<1>8. /\ (first * samp + x) * size \in Nat /\ (first * size) * samp \in Nat
      /\ x * size \in Nat /\ n * size \in Nat
  BY <1>1, <1>2, <1>4
<1>9. (first * samp + x) * size < n * size
  BY <1>1, <1>2, <1>3, <1>5, <1>6, <1>7, <1>8
<1>10. first * samp + x \in Int /\ n \in Int
  BY <1>1, <1>2, <1>4
<1>11. first * samp + x < n
  BY <1>9, <1>10, Before
<1>12. w \in Nat /\ w * size <= whole
  <2>1. /\ w \in Nat /\ whole % size \in 0 .. size - 1
        /\ whole = w * size + (whole % size)
    BY Divided
  <2> HIDE DEF w
  <2>2. w * size \in Nat
    BY <2>1
  <2> QED BY <2>1, <2>2
<1>13. (w * size) * samp <= whole * samp
  BY <1>12, TimesAtMost
<1>14. (w * samp) * size = (w * size) * samp /\ w * samp \in Nat
  BY <1>12
<1>15. n * size < (n + 1) * size
  BY <1>2
<1>16. (w * samp) * size < (n + 1) * size
  <2>1. (w * samp) * size \in Nat /\ (n + 1) * size \in Nat
    BY <1>2, <1>14
  <2> QED BY <1>1, <1>2, <1>8, <1>13, <1>14, <1>15, <2>1
<1>17. w * samp < n + 1
  <2>1. w * samp \in Int /\ n + 1 \in Int
    BY <1>2, <1>14
  <2> QED BY <1>16, <2>1, Before
<1>18. first * samp + x \in 0 .. n - 1 /\ w * samp \in 0 .. n
  BY <1>1, <1>2, <1>4, <1>11, <1>14, <1>17
<1> QED BY <1>1, <1>18 DEF n, w

LEMMA CeilDivScaled ==
    ASSUME NEW a \in Nat \ {0}, NEW m \in 1 .. 4
    PROVE  CeilDiv(a * m, m * DCTSIZE) = CeilDiv(a * 1, 1 * DCTSIZE)
<1>1. m = 1 \/ m = 2 \/ m = 3 \/ m = 4
  OBVIOUS
<1>2. CASE m = 1 BY <1>2
<1>3. CASE m = 2 BY <1>3 DEF CeilDiv, DCTSIZE
<1>4. CASE m = 3 BY <1>4 DEF CeilDiv, DCTSIZE
<1>5. CASE m = 4 BY <1>5 DEF CeilDiv, DCTSIZE
<1> QED BY <1>1, <1>2, <1>3, <1>4, <1>5

(* The destination is sampled as the source, turned; or is one component   *)
(* in full resolution, of which the source has as many blocks.             *)
LEMMA CompsAre ==
    ASSUME NEW im, ImageOK(im), NEW r, NEW out, out.comps = DstComps(im, r),
           GrayOK(im, r)
    PROVE  /\ DOMAIN out.comps \subseteq DOMAIN im.comps
           /\ iMCU_size(im, r).w = max_h(out) * DCTSIZE
           /\ iMCU_size(im, r).h = max_v(out) * DCTSIZE
           /\ max_h(out) \in 1 .. 4 /\ max_v(out) \in 1 .. 4
           /\ \A c \in DOMAIN out.comps :
                 /\ out.comps[c].h \in 1 .. 4 /\ out.comps[c].v \in 1 .. 4
                 /\ CeilDiv(Full(im, r).w * out.comps[c].h, max_h(out) * DCTSIZE) =
                       IF r.transform \in Transposing THEN height_in_blocks(im, c)
                                                      ELSE width_in_blocks(im, c)
                 /\ CeilDiv(Full(im, r).h * out.comps[c].v, max_v(out) * DCTSIZE) =
                       IF r.transform \in Transposing THEN width_in_blocks(im, c)
                                                      ELSE height_in_blocks(im, c)
<1>1. /\ max_h(im) \in 1 .. 4 /\ max_v(im) \in 1 .. 4 /\ 1 \in DOMAIN im.comps
      /\ \A c \in DOMAIN im.comps : /\ im.comps[c].h \in 1 .. max_h(im)
                                     /\ im.comps[c].v \in 1 .. max_v(im)
  BY MaxSampling DEF ImageOK
<1>2. im.width \in Nat \ {0} /\ im.height \in Nat \ {0}
  BY DEF ImageOK
<1>3. CASE NumComponents(im, r) = 1
  <2>1. out.comps = <<[h |-> 1, v |-> 1]>>
    BY <1>3 DEF DstComps
  <2>2. out.comps \in Seq(Samplings) /\ out.comps # << >> /\ DOMAIN out.comps = {1}
    BY <2>1 DEF Samplings
  <2>3. out.comps[1].h = 1 /\ out.comps[1].v = 1
    BY <2>1
  <2>4. max_h(out) = 1 /\ max_v(out) = 1
    <3>1. {out.comps[c].h : c \in DOMAIN out.comps} = {1}
      BY <2>2, <2>3
    <3>2. {out.comps[c].v : c \in DOMAIN out.comps} = {1}
      BY <2>2, <2>3
    <3>3. Max({1}) = 1
      <4>1. {1} \in SUBSET (1 .. 4) /\ {1} # {} OBVIOUS
      <4> QED BY <4>1, MaxIs
    <3> QED BY <3>1, <3>2, <3>3 DEF max_h, max_v
  <2>5. iMCU_size(im, r).w = DCTSIZE /\ iMCU_size(im, r).h = DCTSIZE
    BY <1>3 DEF iMCU_size, iMCU_width, iMCU_height
  <2>6. im.comps[1].h = max_h(im) /\ im.comps[1].v = max_v(im)
    <3>1. CASE r.force_grayscale /\ im.ycc
      BY <3>1 DEF GrayOK, FullResolution
    <3>2. CASE ~(r.force_grayscale /\ im.ycc)
      <4>1. Len(im.comps) = 1
        BY <1>3, <3>2 DEF NumComponents
      <4>2. DOMAIN im.comps = {1}
        BY <4>1 DEF ImageOK
      <4>3. /\ {im.comps[c].h : c \in DOMAIN im.comps} = {im.comps[1].h}
            /\ {im.comps[c].v : c \in DOMAIN im.comps} = {im.comps[1].v}
        BY <4>2
      <4>4. ASSUME NEW n \in 1 .. 4 PROVE Max({n}) = n
        <5>1. {n} \in SUBSET (1 .. 4) /\ {n} # {} OBVIOUS
        <5> QED BY <5>1, MaxIs
      <4>5. im.comps[1].h \in 1 .. 4 /\ im.comps[1].v \in 1 .. 4
        BY <1>1
      <4> QED BY <4>3, <4>4, <4>5 DEF max_h, max_v
    <3> QED BY <3>1, <3>2
  <2>7. /\ width_in_blocks(im, 1) = CeilDiv(im.width * 1, 1 * DCTSIZE)
        /\ height_in_blocks(im, 1) = CeilDiv(im.height * 1, 1 * DCTSIZE)
    BY <1>1, <1>2, <2>6, CeilDivScaled DEF width_in_blocks, height_in_blocks
  <2>8. /\ CeilDiv(Full(im, r).w * 1, 1 * DCTSIZE) =
              IF r.transform \in Transposing THEN height_in_blocks(im, 1)
                                             ELSE width_in_blocks(im, 1)
        /\ CeilDiv(Full(im, r).h * 1, 1 * DCTSIZE) =
              IF r.transform \in Transposing THEN width_in_blocks(im, 1)
                                             ELSE height_in_blocks(im, 1)
    BY <2>7 DEF Full
  <2>9. max_h(out) * DCTSIZE = DCTSIZE /\ max_v(out) * DCTSIZE = DCTSIZE
    BY <2>4 DEF DCTSIZE
  <2> QED BY <1>1, <2>2, <2>3, <2>4, <2>5, <2>8, <2>9
<1>4. CASE NumComponents(im, r) # 1
  <2> DEFINE t == r.transform \in Transposing
  <2>1. DOMAIN out.comps = DOMAIN im.comps
    BY <1>4 DEF DstComps
  <2>2. \A c \in DOMAIN im.comps :
           /\ out.comps[c].h = IF t THEN im.comps[c].v ELSE im.comps[c].h
           /\ out.comps[c].v = IF t THEN im.comps[c].h ELSE im.comps[c].v
    BY <1>4 DEF DstComps
  <2>3. /\ max_h(out) = IF t THEN max_v(im) ELSE max_h(im)
        /\ max_v(out) = IF t THEN max_h(im) ELSE max_v(im)
    <3>1. CASE t
      <4>1. /\ {out.comps[c].h : c \in DOMAIN out.comps}
                 = {im.comps[c].v : c \in DOMAIN im.comps}
            /\ {out.comps[c].v : c \in DOMAIN out.comps}
                 = {im.comps[c].h : c \in DOMAIN im.comps}
        BY <2>1, <2>2, <3>1
      <4> QED BY <3>1, <4>1 DEF max_h, max_v
    <3>2. CASE ~t
      <4>1. /\ {out.comps[c].h : c \in DOMAIN out.comps}
                 = {im.comps[c].h : c \in DOMAIN im.comps}
            /\ {out.comps[c].v : c \in DOMAIN out.comps}
                 = {im.comps[c].v : c \in DOMAIN im.comps}
        BY <2>1, <2>2, <3>2
      <4> QED BY <3>2, <4>1 DEF max_h, max_v
    <3> QED BY <3>1, <3>2
  <2>4. /\ iMCU_size(im, r).w = max_h(out) * DCTSIZE
        /\ iMCU_size(im, r).h = max_v(out) * DCTSIZE
    BY <1>4, <2>3 DEF iMCU_size, iMCU_width, iMCU_height
  <2>5. ASSUME NEW c \in DOMAIN im.comps
        PROVE  /\ CeilDiv(Full(im, r).w * out.comps[c].h, max_h(out) * DCTSIZE) =
                     IF t THEN height_in_blocks(im, c) ELSE width_in_blocks(im, c)
               /\ CeilDiv(Full(im, r).h * out.comps[c].v, max_v(out) * DCTSIZE) =
                     IF t THEN width_in_blocks(im, c) ELSE height_in_blocks(im, c)
    BY <2>2, <2>3 DEF Full, height_in_blocks, width_in_blocks
  <2> QED BY <1>1, <2>1, <2>2, <2>3, <2>4, <2>5
<1> QED BY <1>3, <1>4

(* As many blocks as the whole image has, after the transform.             *)
turned == info.transform \in Transposing
cols(c) == IF turned THEN height_in_blocks(src, c) ELSE width_in_blocks(src, c)
rows(c) == IF turned THEN width_in_blocks(src, c) ELSE height_in_blocks(src, c)
Turns == ~Larger /\ info.transform \notin {"wipe", "drop"}

LEMMA DstPlaced ==
    ASSUME Inv, phase \in {"adjusted", "written"}, Turns, NEW c \in DOMAIN dst.comps
    PROVE  /\ c \in DOMAIN src.comps /\ h(c) \in 1 .. 4 /\ v(c) \in 1 .. 4
           /\ comp_width(c) = (full.w \div iMCU.w) * h(c)
           /\ comp_height(c) = (full.h \div iMCU.h) * v(c)
           /\ CeilDiv(full.w * h(c), iMCU.w) = cols(c)
           /\ CeilDiv(full.h * v(c), iMCU.h) = rows(c)
           /\ width_in_blocks(dst, c) = CeilDiv(dst.width * h(c), iMCU.w)
           /\ height_in_blocks(dst, c) = CeilDiv(dst.height * v(c), iMCU.h)
           /\ full.w \in Nat \ {0} /\ full.h \in Nat \ {0}
           /\ iMCU.w \in Nat \ {0} /\ iMCU.h \in Nat \ {0}
           /\ info.x_crop_offset \in Nat /\ dst.width \in Nat \ {0}
           /\ info.x_crop_offset * iMCU.w + dst.width <= full.w
           /\ info.y_crop_offset \in Nat /\ dst.height \in Nat \ {0}
           /\ info.y_crop_offset * iMCU.h + dst.height <= full.h
           /\ cols(c) \in Nat \ {0} /\ rows(c) \in Nat \ {0}
           /\ width_in_blocks(dst, c) \in Nat \ {0} /\ height_in_blocks(dst, c) \in Nat \ {0}
<1>1. /\ request \in Requests /\ GrayOK(src, request)
      /\ info.transform = request.transform
      /\ dst = WithBlocks(Destination(src, info), dst.blocks) /\ ImageOK(src)
  BY InfoIs DEF Inv
<1>2. dst.comps = DstComps(src, request)
  BY <1>1 DEF WithBlocks, Destination, request
<1>3. /\ DOMAIN dst.comps \subseteq DOMAIN src.comps
      /\ iMCU.w = max_h(dst) * DCTSIZE /\ iMCU.h = max_v(dst) * DCTSIZE
      /\ h(c) \in 1 .. 4 /\ v(c) \in 1 .. 4
      /\ CeilDiv(full.w * h(c), iMCU.w) = cols(c)
      /\ CeilDiv(full.h * v(c), iMCU.h) = rows(c)
  <2>1. /\ DOMAIN dst.comps \subseteq DOMAIN src.comps
        /\ iMCU_size(src, request).w = max_h(dst) * DCTSIZE
        /\ iMCU_size(src, request).h = max_v(dst) * DCTSIZE
        /\ dst.comps[c].h \in 1 .. 4 /\ dst.comps[c].v \in 1 .. 4
        /\ CeilDiv(Full(src, request).w * dst.comps[c].h, max_h(dst) * DCTSIZE) =
              IF request.transform \in Transposing THEN height_in_blocks(src, c)
                                                   ELSE width_in_blocks(src, c)
        /\ CeilDiv(Full(src, request).h * dst.comps[c].v, max_v(dst) * DCTSIZE) =
              IF request.transform \in Transposing THEN width_in_blocks(src, c)
                                                   ELSE height_in_blocks(src, c)
    BY <1>1, <1>2, CompsAre
  <2>2. /\ iMCU_size(src, request) = iMCU /\ Full(src, request) = full
        /\ dst.comps[c].h = h(c) /\ dst.comps[c].v = v(c)
        /\ turned <=> request.transform \in Transposing
    BY <1>1 DEF iMCU, full, h, v, turned
  <2>3. iMCU.w = max_h(dst) * DCTSIZE /\ iMCU.h = max_v(dst) * DCTSIZE
    BY <2>1, <2>2
  <2>4. /\ CeilDiv(full.w * h(c), iMCU.w) = cols(c)
        /\ CeilDiv(full.h * v(c), iMCU.h) = rows(c)
    BY <2>1, <2>2, <2>3 DEF cols, rows
  <2> QED BY <2>1, <2>2, <2>3, <2>4
<1>4. /\ comp_width(c) = (full.w \div iMCU.w) * h(c)
      /\ comp_height(c) = (full.h \div iMCU.h) * v(c)
  BY <1>1, <1>3 DEF comp_width, comp_height, full, Full
<1>5. /\ full.w \in Nat \ {0} /\ full.h \in Nat \ {0}
      /\ iMCU.w \in Nat \ {0} /\ iMCU.h \in Nat \ {0}
  BY ResultIs
<1>6. info.transform = "none" => dst.width <= full.w /\ dst.height <= full.h
  <2>1. ASSUME info.transform = "none" PROVE full.w = src.width /\ full.h = src.height
    BY <1>1, <2>1 DEF full, Full, Transposing
  <2>2. ASSUME info.transform = "none"
        PROVE  ~(dst.height > src.height) /\ ~(dst.width > src.width)
    BY <2>2 DEF Turns, Larger, Taller, Wider
  <2>3. /\ info.transform # "none" \/ dst.width \in Nat
        /\ info.transform # "none" \/ dst.height \in Nat
    <3>1. ASSUME info.transform = "none"
          PROVE  /\ dst.width = OneOutput(request, request.x, full.w, iMCU.w, FALSE)
                 /\ dst.height = OneOutput(request, request.y, full.h, iMCU.h, FALSE)
      BY <3>1, ResultIs
    <3>2. ASSUME info.transform = "none"
          PROVE  /\ dst.width \in Nat /\ dst.height \in Nat
      <4>1. /\ request.x \in Directions /\ request.y \in Directions
            /\ request.transform \notin {"wipe", "drop"}
            /\ request.crop => /\ ~BadCrop(request.x, full.w, request.transform)
                               /\ ~BadCrop(request.y, full.h, request.transform)
        BY <1>1, <3>2, ResultIs
      <4> DEFINE trims == FALSE
      <4>2. /\ trims \in BOOLEAN /\ ~trims
            /\ dst.width = OneOutput(request, request.x, full.w, iMCU.w, trims)
            /\ dst.height = OneOutput(request, request.y, full.h, iMCU.h, trims)
        BY <3>1, <3>2
      <4> HIDE DEF trims
      <4>3. dst.width \in Nat
        BY <1>1, <1>5, <4>1, <4>2, ResultPlaced
      <4>4. dst.height \in Nat
        BY <1>1, <1>5, <4>1, <4>2, ResultPlaced
      <4> QED BY <4>3, <4>4
    <3> QED BY <3>2
  <2> QED BY <1>5, <2>1, <2>2, <2>3 DEF ImageOK
<1>7. /\ info.x_crop_offset \in Nat /\ dst.width \in Nat \ {0}
      /\ info.x_crop_offset * iMCU.w + dst.width <= full.w
  <2> DEFINE trims == request.trim /\ info.transform \in MirrorsX
  <2>1. /\ info.x_crop_offset = CropIn_iMCUs(request, request.x, full.w, iMCU.w)
        /\ dst.width = OneOutput(request, request.x, full.w, iMCU.w, trims)
        /\ trims \in BOOLEAN /\ request.x \in Directions
        /\ trims => request.transform # "none"
        /\ request.transform \notin {"wipe", "drop"}
        /\ request.crop => ~BadCrop(request.x, full.w, request.transform)
    BY <1>1, ResultIs DEF Turns
  <2> HIDE DEF trims
  <2> QED BY <1>1, <1>5, <1>6, <2>1, ResultPlaced
<1>8. /\ info.y_crop_offset \in Nat /\ dst.height \in Nat \ {0}
      /\ info.y_crop_offset * iMCU.h + dst.height <= full.h
  <2> DEFINE trims == request.trim /\ info.transform \in MirrorsY
  <2>1. /\ info.y_crop_offset = CropIn_iMCUs(request, request.y, full.h, iMCU.h)
        /\ dst.height = OneOutput(request, request.y, full.h, iMCU.h, trims)
        /\ trims \in BOOLEAN /\ request.y \in Directions
        /\ trims => request.transform # "none"
        /\ request.transform \notin {"wipe", "drop"}
        /\ request.crop => ~BadCrop(request.y, full.h, request.transform)
    BY <1>1, ResultIs DEF Turns
  <2> HIDE DEF trims
  <2> QED BY <1>1, <1>5, <1>6, <2>1, ResultPlaced
<1>9. /\ width_in_blocks(dst, c) = CeilDiv(dst.width * h(c), iMCU.w)
      /\ height_in_blocks(dst, c) = CeilDiv(dst.height * v(c), iMCU.h)
  BY <1>3 DEF width_in_blocks, height_in_blocks, h, v
<1>10. h(c) \in Nat \ {0} /\ v(c) \in Nat \ {0}
  BY <1>3
<1>11. cols(c) \in Nat \ {0} /\ rows(c) \in Nat \ {0}
  <2>1. full.w * h(c) \in Nat \ {0} /\ full.h * v(c) \in Nat \ {0}
    BY <1>5, <1>10
  <2> QED BY <1>3, <1>5, <2>1, CeilDivIs
<1>12. width_in_blocks(dst, c) \in Nat \ {0} /\ height_in_blocks(dst, c) \in Nat \ {0}
  <2>1. dst.width * h(c) \in Nat \ {0} /\ dst.height * v(c) \in Nat \ {0}
    BY <1>7, <1>8, <1>10
  <2> QED BY <1>5, <1>9, <2>1, CeilDivIs
<1> QED BY <1>3, <1>4, <1>5, <1>7, <1>8, <1>9, <1>11, <1>12

LEMMA Geometry ==
    ASSUME Inv, phase \in {"adjusted", "written"}, Turns, NEW c \in DOMAIN dst.comps,
           NEW y \in 0 .. height_in_blocks(dst, c) - 1,
           NEW x \in 0 .. width_in_blocks(dst, c) - 1
    PROVE  /\ c \in DOMAIN src.comps
           /\ h(c) \in 1 .. 4 /\ v(c) \in 1 .. 4
           /\ width_in_blocks(dst, c) \in Nat /\ height_in_blocks(dst, c) \in Nat
           /\ cols(c) \in Nat /\ rows(c) \in Nat
           /\ comp_width(c) = (full.w \div iMCU.w) * h(c)
           /\ comp_height(c) = (full.h \div iMCU.h) * v(c)
           /\ x0(c) \in Nat /\ y0(c) \in Nat
           /\ x0(c) + x \in 0 .. cols(c) - 1 /\ comp_width(c) \in 0 .. cols(c)
           /\ y0(c) + y \in 0 .. rows(c) - 1 /\ comp_height(c) \in 0 .. rows(c)
<1>1. /\ c \in DOMAIN src.comps /\ h(c) \in Nat \ {0} /\ v(c) \in Nat \ {0}
      /\ comp_width(c) = (full.w \div iMCU.w) * h(c)
      /\ comp_height(c) = (full.h \div iMCU.h) * v(c)
      /\ CeilDiv(full.w * h(c), iMCU.w) = cols(c)
      /\ CeilDiv(full.h * v(c), iMCU.h) = rows(c)
      /\ x \in 0 .. CeilDiv(dst.width * h(c), iMCU.w) - 1
      /\ y \in 0 .. CeilDiv(dst.height * v(c), iMCU.h) - 1
  BY DstPlaced
<1>2. /\ full.w \in Nat \ {0} /\ iMCU.w \in Nat \ {0}
      /\ info.x_crop_offset \in Nat /\ dst.width \in Nat \ {0}
      /\ info.x_crop_offset * iMCU.w + dst.width <= full.w
  BY DstPlaced
<1>3. /\ full.h \in Nat \ {0} /\ iMCU.h \in Nat \ {0}
      /\ info.y_crop_offset \in Nat /\ dst.height \in Nat \ {0}
      /\ info.y_crop_offset * iMCU.h + dst.height <= full.h
  BY DstPlaced
<1>4. /\ x0(c) \in Nat /\ x0(c) + x \in 0 .. cols(c) - 1
      /\ comp_width(c) \in 0 .. cols(c)
  <2>1. /\ info.x_crop_offset * h(c) \in Nat
        /\ info.x_crop_offset * h(c) + x \in 0 .. CeilDiv(full.w * h(c), iMCU.w) - 1
        /\ (full.w \div iMCU.w) * h(c) \in 0 .. CeilDiv(full.w * h(c), iMCU.w)
    BY <1>1, <1>2, BlocksFit
  <2> QED BY <1>1, <2>1 DEF x0
<1>5. /\ y0(c) \in Nat /\ y0(c) + y \in 0 .. rows(c) - 1
      /\ comp_height(c) \in 0 .. rows(c)
  <2>1. /\ info.y_crop_offset * v(c) \in Nat
        /\ info.y_crop_offset * v(c) + y \in 0 .. CeilDiv(full.h * v(c), iMCU.h) - 1
        /\ (full.h \div iMCU.h) * v(c) \in 0 .. CeilDiv(full.h * v(c), iMCU.h)
    BY <1>1, <1>3, BlocksFit
  <2> QED BY <1>1, <2>1 DEF y0
<1>6. /\ cols(c) \in Nat /\ rows(c) \in Nat
      /\ width_in_blocks(dst, c) \in Nat /\ height_in_blocks(dst, c) \in Nat
      /\ h(c) \in 1 .. 4 /\ v(c) \in 1 .. 4
  BY DstPlaced
<1> QED BY <1>1, <1>4, <1>5, <1>6

(* The source, as it was read.                                             *)
HoldsImage(im) ==
    \A c \in DOMAIN im.comps :
      \A y \in 0 .. height_in_blocks(im, c) - 1, x \in 0 .. width_in_blocks(im, c) - 1 :
        /\ c \in DOMAIN im.blocks /\ y \in DOMAIN im.blocks[c]
        /\ x \in DOMAIN im.blocks[c][y] /\ im.blocks[c][y][x] = Block("image", y, x)

LEMMA SourceBlock ==
    ASSUME HoldsImage(src), NEW c \in DOMAIN src.comps,
           NEW y \in 0 .. rows(c) - 1, NEW x \in 0 .. cols(c) - 1
    PROVE  /\ turned => Src(c, x, y) = Block("image", x, y)
           /\ ~turned => Src(c, y, x) = Block("image", y, x)
BY DEF HoldsImage, rows, cols, Src, At

(* Each block of the result is the block of the source that lies in its    *)
(* place or, if both are in whole iMCUs, mirrors it; in the pose asked for.*)
Posed(y, x, t, fx, fy) ==
    [kind |-> "full", of |-> "image", y |-> y, x |-> x, t |-> t, fx |-> fx, fy |-> fy]
MirrorsCol(c, x) == info.transform \in MirrorsX /\ x0(c) + x < comp_width(c)
MirrorsRow(c, y) == info.transform \in MirrorsY /\ y0(c) + y < comp_height(c)
Col(c, x) == IF MirrorsCol(c, x) THEN comp_width(c) - x0(c) - x - 1 ELSE x + x0(c)
RowOf(c, y) == IF MirrorsRow(c, y) THEN comp_height(c) - y0(c) - y - 1 ELSE y + y0(c)

Flipped(b, fx, fy) == IF fy THEN FlipRows(IF fx THEN FlipCols(b) ELSE b)
                      ELSE IF fx THEN FlipCols(b) ELSE b

LEMMA Poses ==
    ASSUME NEW y, NEW x, NEW fx \in BOOLEAN, NEW fy \in BOOLEAN
    PROVE  /\ Flipped(Block("image", y, x), fx, fy) = Posed(y, x, FALSE, fx, fy)
           /\ Flipped(Transposed(Block("image", y, x)), fx, fy) = Posed(y, x, TRUE, fx, fy)
<1>1. /\ Block("image", y, x) = Posed(y, x, FALSE, FALSE, FALSE)
      /\ Transposed(Block("image", y, x)) = Posed(y, x, TRUE, FALSE, FALSE)
  BY DEF Block, Posed, Transposed
<1>2. ASSUME NEW t \in BOOLEAN
      PROVE  Flipped(Posed(y, x, t, FALSE, FALSE), fx, fy) = Posed(y, x, t, fx, fy)
  <2>1. /\ FlipCols(Posed(y, x, t, FALSE, FALSE)) = Posed(y, x, t, TRUE, FALSE)
        /\ FlipRows(Posed(y, x, t, FALSE, FALSE)) = Posed(y, x, t, FALSE, TRUE)
        /\ FlipRows(Posed(y, x, t, TRUE, FALSE)) = Posed(y, x, t, TRUE, TRUE)
    BY DEF Posed, FlipCols, FlipRows
  <2>2. CASE fx /\ fy
    <3>1. fx = TRUE /\ fy = TRUE BY <2>2
    <3> QED BY <2>1, <3>1 DEF Flipped
  <2>3. CASE fx /\ ~fy
    <3>1. fx = TRUE /\ fy = FALSE BY <2>3
    <3> QED BY <2>1, <3>1 DEF Flipped
  <2>4. CASE ~fx /\ fy
    <3>1. fx = FALSE /\ fy = TRUE BY <2>4
    <3> QED BY <2>1, <3>1 DEF Flipped
  <2>5. CASE ~fx /\ ~fy
    <3>1. fx = FALSE /\ fy = FALSE BY <2>5
    <3> QED BY <2>1, <3>1 DEF Flipped
  <2> QED BY <2>2, <2>3, <2>4, <2>5
<1> QED BY <1>1, <1>2

LEMMA TurnedBlock ==
    ASSUME Inv, phase = "adjusted", HoldsImage(src), Turns, NEW c \in DOMAIN dst.comps,
           NEW y \in 0 .. height_in_blocks(dst, c) - 1,
           NEW x \in 0 .. width_in_blocks(dst, c) - 1
    PROVE  Transformed(c, y, x) =
             Posed(IF turned THEN Col(c, x) ELSE RowOf(c, y),
                   IF turned THEN RowOf(c, y) ELSE Col(c, x),
                   turned, MirrorsCol(c, x), MirrorsRow(c, y))
<1>1. /\ c \in DOMAIN src.comps /\ x0(c) \in Nat /\ y0(c) \in Nat
      /\ x0(c) + x \in 0 .. cols(c) - 1 /\ comp_width(c) \in 0 .. cols(c)
      /\ y0(c) + y \in 0 .. rows(c) - 1 /\ comp_height(c) \in 0 .. rows(c)
      /\ x \in Nat /\ y \in Nat
  BY Geometry
<1>2. cols(c) \in Nat /\ rows(c) \in Nat
  BY Geometry
<1>3. Col(c, x) \in 0 .. cols(c) - 1 /\ RowOf(c, y) \in 0 .. rows(c) - 1
  BY <1>1, <1>2 DEF Col, RowOf, MirrorsCol, MirrorsRow
<1>4. IF turned THEN Src(c, Col(c, x), RowOf(c, y)) = Block("image", Col(c, x), RowOf(c, y))
                ELSE Src(c, RowOf(c, y), Col(c, x)) = Block("image", RowOf(c, y), Col(c, x))
  BY <1>1, <1>3, SourceBlock
<1>5. MirrorsCol(c, x) \in BOOLEAN /\ MirrorsRow(c, y) \in BOOLEAN
  BY DEF MirrorsCol, MirrorsRow
<1>6. info.transform \in Transforms \ {"wipe", "drop"}
  BY InfoIs DEF Turns, Requests
<1> DEFINE b == IF turned THEN Transposed(Src(c, Col(c, x), RowOf(c, y)))
                         ELSE Src(c, RowOf(c, y), Col(c, x))
           f == Flipped(b, MirrorsCol(c, x), MirrorsRow(c, y))
<1>7. /\ x + x0(c) = x0(c) + x /\ y + y0(c) = y0(c) + y
  BY <1>1
<1>8. ASSUME info.transform = "none" PROVE Transformed(c, y, x) = f
  BY <1>8 DEF Transformed, Kept, Turns, do_crop, Flipped, Col, RowOf,
              MirrorsCol, MirrorsRow, turned, Transposing, MirrorsX, MirrorsY
<1>9. ASSUME info.transform = "flip_v" PROVE Transformed(c, y, x) = f
  BY <1>9 DEF Transformed, do_flip_v, do_crop, Flipped, Col, RowOf,
              MirrorsCol, MirrorsRow, turned, Transposing, MirrorsX, MirrorsY
<1>10. ASSUME info.transform = "rot_180" PROVE Transformed(c, y, x) = f
  BY <1>10 DEF Transformed, do_rot_180, do_flip_v, do_flip_h, do_crop, Flipped, Col, RowOf,
              MirrorsCol, MirrorsRow, turned, Transposing, MirrorsX, MirrorsY
<1>11. ASSUME info.transform = "transpose" PROVE Transformed(c, y, x) = f
  BY <1>11 DEF Transformed, do_transpose, Flipped, Col, RowOf,
              MirrorsCol, MirrorsRow, turned, Transposing, MirrorsX, MirrorsY
<1>12. ASSUME info.transform = "rot_90" PROVE Transformed(c, y, x) = f
  BY <1>12 DEF Transformed, do_rot_90, do_transpose, Flipped, Col, RowOf,
              MirrorsCol, MirrorsRow, turned, Transposing, MirrorsX, MirrorsY
<1>13. ASSUME info.transform = "rot_270" PROVE Transformed(c, y, x) = f
  BY <1>13 DEF Transformed, do_rot_270, do_transpose, Flipped, Col, RowOf,
              MirrorsCol, MirrorsRow, turned, Transposing, MirrorsX, MirrorsY
<1>14. ASSUME info.transform = "transverse" PROVE Transformed(c, y, x) = f
  BY <1>14 DEF Transformed, do_transverse, do_rot_270, do_rot_90, do_transpose, Flipped, Col, RowOf,
              MirrorsCol, MirrorsRow, turned, Transposing, MirrorsX, MirrorsY
<1>15. ASSUME info.transform = "flip_h" PROVE Transformed(c, y, x) = f
  <2>1. CASE NeedWorkspace(src, info)
    BY <1>15, <2>1
       DEF Transformed, do_flip_h, do_crop, Flipped, Col, RowOf, MirrorsCol, MirrorsRow,
           turned, Transposing, MirrorsX, MirrorsY
  <2>2. CASE ~NeedWorkspace(src, info)
    <3>1. y0(c) = 0
      <4>1. info.y_crop_offset = 0
        BY <1>15, <2>2 DEF NeedWorkspace
      <4>2. v(c) \in 1 .. 4
        BY Geometry
      <4> QED BY <4>1, <4>2 DEF y0
    <3>2. y + y0(c) = y
      BY <1>1, <3>1
    <3>3. x < width_in_blocks(dst, c)
      BY Geometry
    <3>4. Transformed(c, y, x) = do_flip_h_no_crop(c, y, x)
      BY <1>15, <2>2 DEF Transformed
    <3>5. do_flip_h_no_crop(c, y, x) =
             IF x + x0(c) < comp_width(c)
               THEN FlipCols(Src(c, y, comp_width(c) - (x + x0(c)) - 1))
               ELSE Src(c, y, x + x0(c))
      BY <3>3 DEF do_flip_h_no_crop
    <3>6. comp_width(c) - (x + x0(c)) - 1 = comp_width(c) - x0(c) - x - 1
      BY <1>1
    <3> QED BY <1>7, <1>15, <3>2, <3>4, <3>5, <3>6
            DEF Flipped, Col, RowOf, MirrorsCol, MirrorsRow, turned, Transposing,
                MirrorsX, MirrorsY
  <2> QED BY <2>1, <2>2
<1>16. Transformed(c, y, x) = f
  BY <1>6, <1>8, <1>9, <1>10, <1>11, <1>12, <1>13, <1>14, <1>15 DEF Transforms
<1>17. CASE turned
  <2>1. Transformed(c, y, x) = Flipped(Transposed(Block("image", Col(c, x), RowOf(c, y))),
                                       MirrorsCol(c, x), MirrorsRow(c, y))
    BY <1>4, <1>16, <1>17
  <2>2. turned = TRUE
    BY <1>17 DEF turned
  <2>3. Transformed(c, y, x) = Posed(Col(c, x), RowOf(c, y), TRUE,
                                     MirrorsCol(c, x), MirrorsRow(c, y))
    BY <1>5, <2>1, Poses
  <2> QED BY <2>2, <2>3
<1>18. CASE ~turned
  <2>1. Transformed(c, y, x) = Flipped(Block("image", RowOf(c, y), Col(c, x)),
                                       MirrorsCol(c, x), MirrorsRow(c, y))
    BY <1>4, <1>16, <1>18
  <2>2. turned = FALSE
    BY <1>18 DEF turned
  <2>3. Transformed(c, y, x) = Posed(RowOf(c, y), Col(c, x), FALSE,
                                     MirrorsCol(c, x), MirrorsRow(c, y))
    BY <1>5, <2>1, Poses
  <2> QED BY <2>2, <2>3
<1> QED BY <1>17, <1>18

(* And so is each sample.                                                  *)
LEMMA Joined ==
    ASSUME NEW a, NEW b, NEW c
    PROVE  <<a>> \o <<b, c>> = <<a, b, c>>
<1> DEFINE S == {a, b, c}
           t == <<a>> \o <<b, c>>
<1>1. <<a>> \in Seq(S) /\ <<b, c>> \in Seq(S) /\ Len(<<a>>) = 1 /\ Len(<<b, c>>) = 2
  OBVIOUS
<1>2. t \in Seq(S) /\ Len(t) = 3 /\ t[1] = a /\ t[2] = b /\ t[3] = c
  BY <1>1
<1> HIDE DEF t
<1>3. t = <<a, b, c>>
  BY <1>2
<1> QED BY <1>3 DEF t

Flip(flips, s) == IF flips THEN 1 - s ELSE s
At3(of, y, x) == <<of, y, x>>

LEMMA PosedSample ==
    ASSUME NEW y, NEW x, NEW t \in BOOLEAN, NEW fx \in BOOLEAN, NEW fy \in BOOLEAN,
           NEW sy, NEW sx
    PROVE  Sample(Filtered(Posed(y, x, t, fx, fy)), sy, sx) =
             IF t THEN At3(Of, y * DCTSIZE + Flip(fx, sx), x * DCTSIZE + Flip(fy, sy))
                  ELSE At3(Of, y * DCTSIZE + Flip(fy, sy), x * DCTSIZE + Flip(fx, sx))
<1> DEFINE b == Filtered(Posed(y, x, t, fx, fy))
<1>1. b = [kind |-> "full", of |-> Of, y |-> y, x |-> x, t |-> t, fx |-> fx, fy |-> fy]
  <2>1. CASE request.filter
    BY <2>1 DEF Filtered, Posed, Of, request
  <2>2. CASE ~request.filter
    BY <2>2 DEF Filtered, Posed, Of, request
  <2> QED BY <2>1, <2>2
<1>2. /\ b.kind = "full" /\ b.of = Of /\ b.y = y /\ b.x = x
      /\ b.t = t /\ b.fx = fx /\ b.fy = fy
  BY <1>1
<1> HIDE DEF b
<1>3. CASE t
  <2>1. Sample(b, sy, sx) =
          At3(Of, y * DCTSIZE + Flip(fx, sx), x * DCTSIZE + Flip(fy, sy))
    BY <1>2, <1>3 DEF Sample, Flip, At3
  <2> QED BY <1>3, <2>1 DEF b
<1>4. CASE ~t
  <2>1. Sample(b, sy, sx) =
          At3(Of, y * DCTSIZE + Flip(fy, sy), x * DCTSIZE + Flip(fx, sx))
    BY <1>2, <1>4 DEF Sample, Flip, At3
  <2> QED BY <1>4, <2>1 DEF b
<1> QED BY <1>3, <1>4

(* A sample and its block are mirrored alike.                              *)
OneMirrored(mirrors, from, whole) == IF mirrors THEN Mirror(from, whole) ELSE from
BlockMirrored(mirrors, first, x, whole) ==
    IF mirrors /\ first + x < whole THEN whole - first - x - 1 ELSE x + first
LEMMA Mirrored ==
    ASSUME NEW whole \in Nat, NEW first \in Nat, NEW x \in Nat, NEW s \in {0, 1},
           NEW mirrors \in BOOLEAN
    PROVE  OneMirrored(mirrors, x * DCTSIZE + s + first * DCTSIZE, whole * DCTSIZE) =
             BlockMirrored(mirrors, first, x, whole) * DCTSIZE
               + Flip(mirrors /\ first + x < whole, s)
<1>1. CASE ~mirrors
  BY <1>1 DEF DCTSIZE, OneMirrored, BlockMirrored, Flip
<1>2. CASE mirrors /\ first + x < whole
  <2>1. x * DCTSIZE + s + first * DCTSIZE < whole * DCTSIZE
    BY <1>2 DEF DCTSIZE
  <2> QED BY <1>2, <2>1 DEF Mirror, DCTSIZE, OneMirrored, BlockMirrored, Flip
<1>3. CASE mirrors /\ ~(first + x < whole)
  <2>1. ~(x * DCTSIZE + s + first * DCTSIZE < whole * DCTSIZE)
    BY <1>3 DEF DCTSIZE
  <2> QED BY <1>3, <2>1 DEF Mirror, DCTSIZE, OneMirrored, BlockMirrored, Flip
<1> QED BY <1>1, <1>2, <1>3

LEMMA TurnedSample ==
    ASSUME Inv, phase = "adjusted", HoldsImage(src), Turns, NEW c \in DOMAIN dst.comps,
           NEW y \in 0 .. height_in_blocks(dst, c) - 1, NEW sy \in {0, 1},
           NEW x \in 0 .. width_in_blocks(dst, c) - 1, NEW sx \in {0, 1}
    PROVE  Sample(Filtered(Transformed(c, y, x)), sy, sx) =
             <<Of>> \o FromTurned(c, y * DCTSIZE + sy + y0(c) * DCTSIZE,
                                  x * DCTSIZE + sx + x0(c) * DCTSIZE)
<1> DEFINE Y == RowOf(c, y) * DCTSIZE + Flip(MirrorsRow(c, y), sy)
           X == Col(c, x) * DCTSIZE + Flip(MirrorsCol(c, x), sx)
           fy == y * DCTSIZE + sy + y0(c) * DCTSIZE
           fx == x * DCTSIZE + sx + x0(c) * DCTSIZE
<1>1. /\ x0(c) \in Nat /\ y0(c) \in Nat /\ x \in Nat /\ y \in Nat
      /\ cols(c) \in Nat /\ rows(c) \in Nat
      /\ comp_width(c) \in 0 .. cols(c) /\ comp_height(c) \in 0 .. rows(c)
      /\ comp_width(c) = (full.w \div iMCU.w) * h(c)
      /\ comp_height(c) = (full.h \div iMCU.h) * v(c)
  BY Geometry
<1>2. comp_width(c) \in Nat /\ comp_height(c) \in Nat
  BY <1>1
<1>3. MirrorsCol(c, x) \in BOOLEAN /\ MirrorsRow(c, y) \in BOOLEAN
  BY DEF MirrorsCol, MirrorsRow
<1>4. Sample(Filtered(Transformed(c, y, x)), sy, sx) =
         IF turned THEN <<Of, X, Y>> ELSE <<Of, Y, X>>
  <2> DEFINE first == IF turned THEN Col(c, x) ELSE RowOf(c, y)
             second == IF turned THEN RowOf(c, y) ELSE Col(c, x)
  <2>1. turned \in BOOLEAN
    BY DEF turned
  <2>2. Transformed(c, y, x) =
          Posed(first, second, turned, MirrorsCol(c, x), MirrorsRow(c, y))
    BY TurnedBlock
  <2>3. \A t, mc, mr \in BOOLEAN :
           Sample(Filtered(Posed(first, second, t, mc, mr)), sy, sx) =
             IF t THEN At3(Of, first * DCTSIZE + Flip(mc, sx), second * DCTSIZE + Flip(mr, sy))
                  ELSE At3(Of, first * DCTSIZE + Flip(mr, sy), second * DCTSIZE + Flip(mc, sx))
    <3> HIDE DEF first, second
    <3> QED BY PosedSample
  <2>4. Sample(Filtered(Posed(first, second, turned, MirrorsCol(c, x), MirrorsRow(c, y))), sy, sx) =
          IF turned THEN At3(Of, first * DCTSIZE + Flip(MirrorsCol(c, x), sx),
                                 second * DCTSIZE + Flip(MirrorsRow(c, y), sy))
                    ELSE At3(Of, first * DCTSIZE + Flip(MirrorsRow(c, y), sy),
                                 second * DCTSIZE + Flip(MirrorsCol(c, x), sx))
    <3> HIDE DEF first, second
    <3> QED BY <1>3, <2>1, <2>3, Zenon
  <2> QED BY <2>2, <2>4 DEF At3
<1>5. X = OneMirrored(info.transform \in MirrorsX, fx,
                      (full.w \div iMCU.w) * h(c) * DCTSIZE)
  <2> DEFINE mirrors == info.transform \in MirrorsX
  <2>1. mirrors \in BOOLEAN
    OBVIOUS
  <2> HIDE DEF mirrors
  <2>2. OneMirrored(mirrors, fx, comp_width(c) * DCTSIZE) =
          BlockMirrored(mirrors, x0(c), x, comp_width(c)) * DCTSIZE
            + Flip(mirrors /\ x0(c) + x < comp_width(c), sx)
    BY <1>1, <1>2, <2>1, Mirrored
  <2>3. /\ Col(c, x) = BlockMirrored(mirrors, x0(c), x, comp_width(c))
        /\ MirrorsCol(c, x) = (mirrors /\ x0(c) + x < comp_width(c))
    BY DEF mirrors, Col, MirrorsCol, BlockMirrored
  <2> QED BY <1>1, <2>2, <2>3 DEF mirrors
<1>6. Y = OneMirrored(info.transform \in MirrorsY, fy,
                      (full.h \div iMCU.h) * v(c) * DCTSIZE)
  <2> DEFINE mirrors == info.transform \in MirrorsY
  <2>1. mirrors \in BOOLEAN
    OBVIOUS
  <2> HIDE DEF mirrors
  <2>2. OneMirrored(mirrors, fy, comp_height(c) * DCTSIZE) =
          BlockMirrored(mirrors, y0(c), y, comp_height(c)) * DCTSIZE
            + Flip(mirrors /\ y0(c) + y < comp_height(c), sy)
    BY <1>1, <1>2, <2>1, Mirrored
  <2>3. /\ RowOf(c, y) = BlockMirrored(mirrors, y0(c), y, comp_height(c))
        /\ MirrorsRow(c, y) = (mirrors /\ y0(c) + y < comp_height(c))
    BY DEF mirrors, RowOf, MirrorsRow, BlockMirrored
  <2> QED BY <1>1, <2>2, <2>3 DEF mirrors
<1> HIDE DEF X, Y
<1>7. FromTurned(c, fy, fx) = IF turned THEN <<X, Y>> ELSE <<Y, X>>
  BY <1>5, <1>6 DEF FromTurned, TurnedFrom, turned, OneMirrored
<1>8. /\ <<Of>> \o <<X, Y>> = <<Of, X, Y>> /\ <<Of>> \o <<Y, X>> = <<Of, Y, X>>
  BY Joined
<1> QED BY <1>4, <1>7, <1>8

LEMMA InBlocks ==
    ASSUME NEW n \in Nat, NEW y \in 0 .. n * DCTSIZE - 1
    PROVE  /\ y \div DCTSIZE \in 0 .. n - 1 /\ y % DCTSIZE \in {0, 1}
           /\ y = (y \div DCTSIZE) * DCTSIZE + (y % DCTSIZE)
BY DEF DCTSIZE

LEMMA DstArrayAt ==
    ASSUME NEW c \in DOMAIN dst.comps,
           NEW y \in 0 .. Padded(height_in_blocks(dst, c), dst.comps[c].v) - 1,
           NEW x \in 0 .. Padded(width_in_blocks(dst, c), dst.comps[c].h) - 1,
           y < height_in_blocks(dst, c), x < width_in_blocks(dst, c)
    PROVE  DstArray[c][y][x] = Filtered(Transformed(c, y, x))
BY Zenon DEF DstArray

-----------------------------------------------------------------------------
(* What a result shows, and that the source stays for the next one.        *)
Expected(c, y, x) ==
    <<Of>> \o FromTurned(c, y + y0(c) * DCTSIZE, x + x0(c) * DCTSIZE)
Shown ==
    \A c \in DOMAIN dst.comps : \A y \in Rows(dst, c), x \in Cols(dst, c) :
        Shows(c, y, x, Expected(c, y, x))

LEMMA PaddedAtLeast ==
    ASSUME NEW n \in Nat \ {0}, NEW size \in Nat \ {0}
    PROVE  Padded(n, size) \in Nat /\ n <= Padded(n, size)
<1>1. CeilDiv(n, size) \in Nat /\ n <= CeilDiv(n, size) * size
  BY CeilDivIs
<1>2. CeilDiv(n, size) * size \in Nat
  BY <1>1
<1> QED BY <1>1, <1>2 DEF Padded

LEMMA ExecuteShows ==
    ASSUME Inv, HoldsImage(src), jtransform_execute_transform, Turns'
    PROVE  Shown'
<1>1. /\ phase = "adjusted" /\ info' = info /\ SameShape(src, src')
  BY ExecuteInv DEF jtransform_execute_transform
<1>2. dst = WithBlocks(Destination(src, info), dst.blocks)
  BY <1>1, InfoIs
<1>3. dst = WithBlocks(dst, dst.blocks)
  BY <1>2 DEF WithBlocks
<1>4. dst' = WithBlocks(dst, DstArray)
  BY <1>3, ExecuteWrites, BlocksReplaced
<1>5. /\ dst'.comps = dst.comps /\ dst'.width = dst.width /\ dst'.height = dst.height
      /\ dst'.blocks = DstArray
  BY <1>4 DEF WithBlocks
<1>6. Turns
  BY <1>1, <1>5 DEF Turns, Larger, Taller, Wider, SameShape
<1>7. request' = request /\ full' = full /\ iMCU' = iMCU /\ Of' = Of
  <2>1. request' = request
    BY <1>1 DEF request
  <2>2. full' = full /\ iMCU' = iMCU
    BY <1>1, <2>1, SameSizes DEF full, iMCU
  <2>3. Of' = Of
    BY <2>1 DEF Of
  <2> QED BY <2>1, <2>2, <2>3
<1>8. SUFFICES ASSUME NEW c \in DOMAIN dst.comps,
                      NEW y \in Rows(dst', c), NEW x \in Cols(dst', c)
               PROVE  Shows(c, y, x, Expected(c, y, x))'
  BY <1>5 DEF Shown
<1>9. /\ max_h(dst') = max_h(dst) /\ max_v(dst') = max_v(dst)
      /\ width_in_blocks(dst', c) = width_in_blocks(dst, c)
      /\ height_in_blocks(dst', c) = height_in_blocks(dst, c)
  BY <1>5 DEF max_h, max_v, width_in_blocks, height_in_blocks
<1>10. h(c)' = h(c) /\ v(c)' = v(c)
  BY <1>5 DEF h, v
<1>11. x0(c)' = x0(c) /\ y0(c)' = y0(c)
  BY <1>1, <1>10 DEF x0, y0
<1>12. Expected(c, y, x)' = Expected(c, y, x)
  BY <1>1, <1>7, <1>10, <1>11 DEF Expected, FromTurned, TurnedFrom
<1> DEFINE yb == y \div DCTSIZE
           xb == x \div DCTSIZE
           sy == y % DCTSIZE
           sx == x % DCTSIZE
<1>13. /\ width_in_blocks(dst, c) \in Nat \ {0} /\ height_in_blocks(dst, c) \in Nat \ {0}
       /\ dst.comps[c].h \in Nat \ {0} /\ dst.comps[c].v \in Nat \ {0}
  <2>1. h(c) \in 1 .. 4 /\ v(c) \in 1 .. 4
    BY <1>1, <1>6, DstPlaced
  <2>2. /\ width_in_blocks(dst, c) \in Nat \ {0} /\ height_in_blocks(dst, c) \in Nat \ {0}
    BY <1>1, <1>6, DstPlaced
  <2> QED BY <2>1, <2>2 DEF h, v
<1>14. /\ yb \in 0 .. height_in_blocks(dst, c) - 1 /\ sy \in {0, 1} /\ y = yb * DCTSIZE + sy
       /\ xb \in 0 .. width_in_blocks(dst, c) - 1 /\ sx \in {0, 1} /\ x = xb * DCTSIZE + sx
  <2>1. /\ y \in 0 .. height_in_blocks(dst, c) * DCTSIZE - 1
        /\ x \in 0 .. width_in_blocks(dst, c) * DCTSIZE - 1
    BY <1>9 DEF Rows, Cols
  <2> QED BY <1>13, <2>1, InBlocks
<1> HIDE DEF yb, xb, sy, sx
<1>15. DstArray[c][yb][xb] = Filtered(Transformed(c, yb, xb))
  <2>1. /\ yb \in 0 .. Padded(height_in_blocks(dst, c), dst.comps[c].v) - 1
        /\ xb \in 0 .. Padded(width_in_blocks(dst, c), dst.comps[c].h) - 1
        /\ yb < height_in_blocks(dst, c) /\ xb < width_in_blocks(dst, c)
    <3> DEFINE ph == Padded(height_in_blocks(dst, c), dst.comps[c].v)
               pw == Padded(width_in_blocks(dst, c), dst.comps[c].h)
    <3>1. ph \in Nat /\ height_in_blocks(dst, c) <= ph
      BY <1>13, PaddedAtLeast
    <3>2. pw \in Nat /\ width_in_blocks(dst, c) <= pw
      BY <1>13, PaddedAtLeast
    <3> HIDE DEF ph, pw
    <3>3. yb \in 0 .. ph - 1 /\ yb < height_in_blocks(dst, c)
      BY <1>13, <1>14, <3>1
    <3>4. xb \in 0 .. pw - 1 /\ xb < width_in_blocks(dst, c)
      BY <1>13, <1>14, <3>2
    <3> QED BY <3>3, <3>4 DEF ph, pw
  <2> QED BY <2>1, DstArrayAt
<1>16. Sample(Filtered(Transformed(c, yb, xb)), sy, sx) = Expected(c, y, x)
  BY <1>1, <1>6, <1>14, TurnedSample DEF Expected
<1> QED BY <1>5, <1>12, <1>15, <1>16 DEF Shows, yb, xb, sy, sx

LEMMA SrcArrayAt ==
    ASSUME NEW c \in DOMAIN src.blocks, NEW y \in DOMAIN src.blocks[c],
           NEW x \in DOMAIN src.blocks[c][y]
    PROVE  /\ c \in DOMAIN SrcArray /\ y \in DOMAIN SrcArray[c]
           /\ x \in DOMAIN SrcArray[c][y] /\ SrcArray[c][y][x] = Overwritten(c, y, x)
BY Zenon DEF SrcArray

LEMMA SourceIsKept ==
    ASSUME Inv, SourceStays, HoldsImage(src), jtransform_execute_transform,
           i < Len(infos), NEW im \in Images, SameShape(im, src)
    PROVE  HoldsImage(src')
<1>1. phase = "adjusted" /\ SameShape(src, src')
  BY ExecuteInv DEF jtransform_execute_transform
<1>2. CASE NeedWorkspace(src, info)
  BY <1>2, ExecuteWrites
<1>3. CASE ~NeedWorkspace(src, info)
  <2>1. /\ request \in Requests /\ request = job.requests[i]
        /\ info = MakeInfo(request, full, iMCU) /\ info.transform = request.transform
        /\ i \in 1 .. Len(job.requests) /\ Len(job.requests) \in Nat
        /\ dst = WithBlocks(Destination(src, info), dst.blocks)
    BY <1>1, InfoIs
  <2>2. Len(job.requests) # 1
    BY <2>1 DEF Inv, InfosOK
  <2>3. /\ request.transform \notin {"wipe", "drop"}
        /\ request.filter /\ request.transform = "none" => OwnArrays(im, request)
    BY <2>1, <2>2 DEF SourceStays, Inv
  <2>4. info.slow_hflip = (request.transform = "flip_h")
    BY <2>1, <2>2 DEF MakeInfo, InfoFor, slow_hflip
  <2>5. info.transform = "none"
    BY <1>3, <2>1, <2>3, <2>4 DEF NeedWorkspace
  <2>6. /\ info.x_crop_offset = 0 /\ info.y_crop_offset = 0
        /\ ~(info.output_width > src.width) /\ ~(info.output_height > src.height)
    BY <1>3, <2>5 DEF NeedWorkspace
  <2>7. ~request.filter
    <3>1. /\ info.x_crop_offset = CropIn_iMCUs(request, request.x, full.w, iMCU.w)
          /\ info.y_crop_offset = CropIn_iMCUs(request, request.y, full.h, iMCU.h)
      BY <1>1, ResultIs
    <3>2. Full(im, request) = full /\ iMCU_size(im, request) = iMCU
      BY SameSizes DEF full, iMCU
    <3>3. ~OwnArrays(im, request)
      BY <2>6, <3>1, <3>2 DEF OwnArrays
    <3> QED BY <2>1, <2>3, <2>5, <3>3
  <2>8. ~Larger
    <3>1. dst.width = info.output_width /\ dst.height = info.output_height
      BY <2>1 DEF WithBlocks, Destination
    <3> QED BY <2>6, <3>1 DEF Larger, Taller, Wider
  <2>9. ASSUME NEW c, NEW y \in Nat, NEW x \in Nat
        PROVE  Overwritten(c, y, x) = Src(c, y, x)
    <3>1. CASE c \in DOMAIN dst.comps
      <4>1. x0(c) = 0 /\ y0(c) = 0
        <5>1. h(c) \in 1 .. 4 /\ v(c) \in 1 .. 4
          BY <1>1, <2>5, <2>8, <3>1, DstPlaced DEF Turns
        <5> QED BY <2>6, <5>1 DEF x0, y0
      <4>2. y + y0(c) = y /\ x + x0(c) = x
        BY <4>1
      <4>3. Transformed(c, y, x) = do_crop(c, y, x)
        BY <2>5, <2>8 DEF Transformed, Kept
      <4>4. Filtered(Transformed(c, y, x)) = Src(c, y, x)
        BY <2>7, <4>2, <4>3 DEF Filtered, request, do_crop
      <4> QED BY <4>4 DEF Overwritten
    <3>2. CASE c \notin DOMAIN dst.comps
      BY <3>2 DEF Overwritten
    <3> QED BY <3>1, <3>2
  <2>10. ASSUME NEW c \in DOMAIN src.comps, NEW y \in 0 .. height_in_blocks(src, c) - 1,
                NEW x \in 0 .. width_in_blocks(src, c) - 1
         PROVE  /\ c \in DOMAIN SrcArray /\ y \in DOMAIN SrcArray[c]
                /\ x \in DOMAIN SrcArray[c][y]
                /\ SrcArray[c][y][x] = Block("image", y, x)
    <3>1. /\ c \in DOMAIN src.blocks /\ y \in DOMAIN src.blocks[c]
          /\ x \in DOMAIN src.blocks[c][y] /\ src.blocks[c][y][x] = Block("image", y, x)
      BY DEF HoldsImage
    <3>2. Src(c, y, x) = Block("image", y, x)
      BY <3>1 DEF Src, At
    <3>3. Overwritten(c, y, x) = Block("image", y, x)
      BY <2>9, <3>2
    <3> QED BY <3>1, <3>3, SrcArrayAt
  <2>11. src' = WithBlocks(src, SrcArray)
    <3>1. src = WithBlocks(src, src.blocks) /\ src' = [src EXCEPT !.blocks = SrcArray]
      BY <1>3, ExecuteWrites DEF Inv
    <3> QED BY <3>1, BlocksReplaced
  <2>12. src'.blocks = SrcArray /\ src'.comps = src.comps
    BY <2>11 DEF WithBlocks
  <2>13. ASSUME NEW c \in DOMAIN src.comps
         PROVE  /\ height_in_blocks(src', c) = height_in_blocks(src, c)
                /\ width_in_blocks(src', c) = width_in_blocks(src, c)
    BY <1>1, SameSizes DEF SameShape, height_in_blocks, width_in_blocks
  <2> QED BY <2>10, <2>12, <2>13 DEF HoldsImage
<1> QED BY <1>2, <1>3

LEMMA InitialArrayAt ==
    ASSUME NEW im, NEW c \in DOMAIN im.comps,
           NEW y \in 0 .. Padded(height_in_blocks(im, c), im.comps[c].v) - 1,
           NEW x \in 0 .. Padded(width_in_blocks(im, c), im.comps[c].h) - 1,
           y < height_in_blocks(im, c), x < width_in_blocks(im, c)
    PROVE  /\ c \in DOMAIN InitialArray(im) /\ y \in DOMAIN InitialArray(im)[c]
           /\ x \in DOMAIN InitialArray(im)[c][y]
           /\ InitialArray(im)[c][y][x] = Block("image", y, x)
BY Zenon DEF InitialArray

LEMMA InitHolds ==
    ASSUME Init
    PROVE  HoldsImage(src) /\ \E im \in Images : SameShape(im, src)
<1>1. PICK im \in Images : src = [im EXCEPT !.blocks = InitialArray(im)]
  BY InitReads
<1>2. im \in [comps : Seq(Samplings) \ {<< >>}, ycc : BOOLEAN,
              width : Nat \ {0}, height : Nat \ {0}, blocks : {<< >>}]
  BY ImagesAssumption
<1>3. ImageOK(im) /\ im = WithBlocks(im, im.blocks)
  BY <1>2 DEF ImageOK, WithBlocks
<1>4. src = WithBlocks(im, InitialArray(im))
  BY <1>1, <1>3, BlocksReplaced
<1>5. SameShape(im, src) /\ src.comps = im.comps /\ src.blocks = InitialArray(im)
  BY <1>4 DEF SameShape, WithBlocks
<1>6. ASSUME NEW c \in DOMAIN im.comps
      PROVE  /\ height_in_blocks(src, c) = height_in_blocks(im, c)
             /\ width_in_blocks(src, c) = width_in_blocks(im, c)
  BY <1>5, SameSizes DEF SameShape, height_in_blocks, width_in_blocks
<1>7. ASSUME NEW c \in DOMAIN im.comps, NEW y \in 0 .. height_in_blocks(im, c) - 1,
             NEW x \in 0 .. width_in_blocks(im, c) - 1
      PROVE  /\ c \in DOMAIN InitialArray(im) /\ y \in DOMAIN InitialArray(im)[c]
             /\ x \in DOMAIN InitialArray(im)[c][y]
             /\ InitialArray(im)[c][y][x] = Block("image", y, x)
  <2> DEFINE ph == Padded(height_in_blocks(im, c), im.comps[c].v)
             pw == Padded(width_in_blocks(im, c), im.comps[c].h)
  <2>1. /\ im.comps[c].h \in 1 .. 4 /\ im.comps[c].v \in 1 .. 4
        /\ max_h(im) \in 1 .. 4 /\ max_v(im) \in 1 .. 4
    <3>1. /\ im.comps \in Seq(Samplings) /\ im.comps # << >>
      BY <1>3 DEF ImageOK
    <3>2. /\ max_h(im) \in 1 .. 4 /\ max_v(im) \in 1 .. 4
          /\ im.comps[c].h \in 1 .. max_h(im) /\ im.comps[c].v \in 1 .. max_v(im)
      BY <3>1, MaxSampling
    <3> QED BY <3>2
  <2>2. /\ im.width * im.comps[c].h \in Nat \ {0} /\ im.height * im.comps[c].v \in Nat \ {0}
        /\ max_h(im) * DCTSIZE \in Nat \ {0} /\ max_v(im) * DCTSIZE \in Nat \ {0}
    <3>1. im.width \in Nat \ {0} /\ im.height \in Nat \ {0}
      BY <1>3 DEF ImageOK
    <3> QED BY <2>1, <3>1 DEF DCTSIZE
  <2>3. width_in_blocks(im, c) \in Nat \ {0}
    BY <2>2, CeilDivIs DEF width_in_blocks
  <2>4. height_in_blocks(im, c) \in Nat \ {0}
    BY <2>2, CeilDivIs DEF height_in_blocks
  <2>5. ph \in Nat /\ height_in_blocks(im, c) <= ph
    BY <2>1, <2>4, PaddedAtLeast
  <2>6. pw \in Nat /\ width_in_blocks(im, c) <= pw
    BY <2>1, <2>3, PaddedAtLeast
  <2> HIDE DEF ph, pw
  <2>7. y \in 0 .. ph - 1 /\ y < height_in_blocks(im, c)
    BY <2>4, <2>5
  <2>8. x \in 0 .. pw - 1 /\ x < width_in_blocks(im, c)
    BY <2>3, <2>6
  <2> QED BY <2>7, <2>8, InitialArrayAt DEF ph, pw
<1> QED BY <1>5, <1>6, <1>7 DEF HoldsImage

(* The source holds the image for as long as there is a result to make,    *)
(* and what was written shows what it should.                              *)
Busy == phase \in {"start", "requested", "adjusted"} \/ (phase = "written" /\ i < Len(infos))
ShownInv ==
    /\ \E im \in Images : SameShape(im, src)
    /\ Busy => HoldsImage(src)
    /\ phase = "written" /\ Turns => Shown

LEMMA ShownNext ==
    ASSUME SourceStays, Inv, ShownInv, [Next]_vars
    PROVE  ShownInv'
<1>1. CASE jtransform_execute_transform
  <2>1. /\ phase = "adjusted" /\ phase' = "written" /\ infos' = infos /\ i' = i
    BY <1>1 DEF jtransform_execute_transform
  <2>2. HoldsImage(src)
    BY <2>1 DEF ShownInv, Busy
  <2>3. PICK im \in Images : SameShape(im, src)
    BY DEF ShownInv
  <2>4. SameShape(im, src')
    BY <1>1, <2>3, ExecuteInv DEF SameShape
  <2>5. Turns' => Shown'
    BY <1>1, <2>2, ExecuteShows
  <2>6. i < Len(infos) => HoldsImage(src')
    BY <1>1, <2>2, <2>3, SourceIsKept
  <2> QED BY <2>1, <2>4, <2>5, <2>6 DEF ShownInv, Busy
<1>2. CASE jtransform_request_workspace
  <2>1. phase = "start" /\ src' = src /\ phase' \in {"start", "requested", "refused"}
    BY <1>2 DEF jtransform_request_workspace
  <2> QED BY <2>1 DEF ShownInv, Busy
<1>3. CASE jtransform_adjust_parameters
  <2>1. /\ src' = src /\ phase' \in {"refused", "adjusted"} /\ Busy
    BY <1>3 DEF jtransform_adjust_parameters, Busy
  <2> QED BY <2>1 DEF ShownInv, Busy
<1>4. CASE UNCHANGED vars
  <2>1. /\ phase' = phase /\ src' = src /\ infos' = infos /\ i' = i /\ dst' = dst
        /\ job' = job
    BY <1>4 DEF vars
  <2>2. Busy' = Busy
    BY <2>1 DEF Busy
  <2>3. (phase = "written" /\ Turns => Shown)' <=> (phase = "written" /\ Turns => Shown)
    <3>1. info' = info /\ request' = request
      BY <2>1 DEF info, request
    <3>2. full' = full /\ iMCU' = iMCU /\ Of' = Of
      BY <2>1, <3>1 DEF full, iMCU, Of
    <3>3. Turns' <=> Turns
      BY <2>1, <3>1 DEF Turns, Larger, Taller, Wider
    <3>4. ASSUME NEW c, NEW y, NEW x
          PROVE  Shows(c, y, x, Expected(c, y, x))' <=> Shows(c, y, x, Expected(c, y, x))
      <4>1. h(c)' = h(c) /\ v(c)' = v(c)
        BY <2>1 DEF h, v
      <4>2. x0(c)' = x0(c) /\ y0(c)' = y0(c)
        BY <3>1, <4>1 DEF x0, y0
      <4>3. Expected(c, y, x)' = Expected(c, y, x)
        BY <3>1, <3>2, <4>1, <4>2 DEF Expected, FromTurned, TurnedFrom
      <4> QED BY <2>1, <4>3 DEF Shows
    <3>5. Shown' <=> Shown
      BY <2>1, <3>4 DEF Shown
    <3> QED BY <2>1, <3>3, <3>5
  <2> QED BY <2>1, <2>2, <2>3 DEF ShownInv
<1> QED BY <1>1, <1>2, <1>3, <1>4 DEF Next

LEMMA ShownMeans ==
    ASSUME Inv, ShownInv PROVE ShowsTurned
BY Zenon DEF ShownInv, ShowsTurned, Turns, Shown, DstOK, Expected, Written

LEMMA ShownAlways ==
    ASSUME SourceStays PROVE Spec => [](Inv /\ ShownInv)
<1>1. Init => Inv /\ ShownInv
  BY InitInv, InitHolds DEF ShownInv, Init
<1>2. Inv /\ ShownInv /\ [Next]_vars => (Inv /\ ShownInv)'
  BY NextInv, ShownNext
<1> QED BY <1>1, <1>2, PTL DEF Spec

(* Each result is the source cropped and turned as asked, sample by sample,*)
(* for every image, every transform and every crop of it; also if more     *)
(* transforms are made of the one source, provided that none of them       *)
(* filters it where it lies (do_flip_h to do_transverse, slow_hflip).      *)
THEOREM ResultsShowTurned ==
    ASSUME SourceStays
    PROVE  Spec => []ShowsTurned
<1>1. Spec => [](Inv /\ ShownInv)
  BY ShownAlways
<1>2. Inv /\ ShownInv => ShowsTurned
  BY ShownMeans
<1> QED BY <1>1, <1>2, PTL

(* In a direction of an image of whole iMCUs all of it is mirrored.        *)
LEMMA MaxOfRange ==
    ASSUME NEW n \in Nat PROVE Max(0 .. n) = n
<1>1. n \in 0 .. n /\ \A m \in 0 .. n : n >= m
  OBVIOUS
<1>2. \A x \in 0 .. n : (\A m \in 0 .. n : x >= m) => x = n
  OBVIOUS
<1> QED BY <1>1, <1>2 DEF Max

Blocks(whole, samp, size) == CeilDiv(whole * samp, size)
WholeBlocks(whole, samp, size) == (whole \div size) * samp
Divides(size, whole) == whole % size = 0
LEMMA WholeMirrored ==
    ASSUME NEW whole \in Nat \ {0}, NEW samp \in 1 .. 4, NEW size \in Nat \ {0},
           Divides(size, whole)
    PROVE  Blocks(whole, samp, size) = WholeBlocks(whole, samp, size)
<1> USE DEF Blocks, WholeBlocks, Divides
<1> DEFINE n == Blocks(whole, samp, size)
<1> DEFINE w == whole \div size
<1>1. w \in Nat /\ whole = w * size
  <2>1. w \in Nat /\ whole = w * size + (whole % size)
    BY Divided
  <2> HIDE DEF w
  <2>2. w * size \in Nat
    BY <2>1
  <2> QED BY <2>1, <2>2
<1>2. n \in Nat \ {0} /\ (n - 1) * size < whole * samp /\ whole * samp <= n * size
  <2>1. whole * samp \in Nat \ {0}
    OBVIOUS
  <2> QED BY <2>1, CeilDivIs
<1> HIDE DEF w
<1>3. whole * samp = (w * samp) * size /\ w * samp \in Nat
  BY <1>1
<1>4. n - 1 < w * samp
  <2>1. n - 1 \in Int /\ w * samp \in Int
    BY <1>2, <1>3
  <2> QED BY <1>2, <1>3, <2>1, Before
<1>5. w * samp < n + 1
  <2>1. n + 1 \in Int /\ w * samp \in Int /\ n * size \in Nat
        /\ (n + 1) * size = n * size + size /\ (w * samp) * size \in Nat
    BY <1>2, <1>3
  <2>2. (w * samp) * size < (n + 1) * size
    BY <1>2, <1>3, <2>1
  <2> QED BY <2>1, <2>2, Before
<1>6. n = w * samp
  BY <1>2, <1>3, <1>4, <1>5
<1> QED BY <1>2, <1>6 DEF w

LEMMA PerfectMirrored ==
    ASSUME NEW n \in Nat \ {0}, NEW x \in 0 .. n * DCTSIZE - 1, NEW mirrors \in BOOLEAN,
           NEW whole, mirrors => whole = n * DCTSIZE
    PROVE  OneMirrored(mirrors, x, whole) =
             IF mirrors THEN Max(0 .. n * DCTSIZE - 1) - x ELSE x
<1>1. n * DCTSIZE - 1 \in Nat /\ x \in Nat /\ x < n * DCTSIZE
  BY DEF DCTSIZE
<1>2. Max(0 .. n * DCTSIZE - 1) = n * DCTSIZE - 1
  BY <1>1, MaxOfRange
<1>3. CASE mirrors
  BY <1>1, <1>2, <1>3 DEF OneMirrored, Mirror
<1>4. CASE ~mirrors
  BY <1>4 DEF OneMirrored
<1> QED BY <1>3, <1>4

(* A perfect transform loses nothing of the image.                         *)
LEMMA PerfectSizes ==
    ASSUME Inv, phase = "written", request.perfect, ~request.crop
    PROVE  /\ Turns /\ info.x_crop_offset = 0 /\ info.y_crop_offset = 0
           /\ dst.width = full.w /\ dst.height = full.h
           /\ info.transform \in MirrorsX => full.w % iMCU.w = 0
           /\ info.transform \in MirrorsY => full.h % iMCU.h = 0
<1>1. phase \in {"adjusted", "written"}
  OBVIOUS
<1>2. /\ request \in Requests /\ request = job.requests[i]
      /\ info.transform = request.transform /\ Accepted(src, request)
      /\ i \in 1 .. Len(job.requests)
  BY <1>1, InfoIs
<1>3. info.transform \notin {"wipe", "drop"}
  BY <1>2, JobsAssumption DEF Inv
<1>4. jtransform_perfect_transform(src, request)
  BY <1>2 DEF Accepted
<1>5. /\ info.transform \in MirrorsX => full.w % iMCU.w = 0
      /\ info.transform \in MirrorsY => full.h % iMCU.h = 0
  BY <1>2, <1>4 DEF jtransform_perfect_transform, full, iMCU, Full, iMCU_size,
                    MirrorsX, MirrorsY, Transposing
<1> DEFINE trims_x == request.trim /\ info.transform \in MirrorsX
           trims_y == request.trim /\ info.transform \in MirrorsY
<1>6. /\ info.x_crop_offset = CropIn_iMCUs(request, request.x, full.w, iMCU.w)
      /\ info.y_crop_offset = CropIn_iMCUs(request, request.y, full.h, iMCU.h)
      /\ dst.width = OneOutput(request, request.x, full.w, iMCU.w, trims_x)
      /\ dst.height = OneOutput(request, request.y, full.h, iMCU.h, trims_y)
      /\ full.w \in Nat \ {0} /\ full.h \in Nat \ {0}
      /\ iMCU.w \in Nat \ {0} /\ iMCU.h \in Nat \ {0}
  BY <1>1, ResultIs
<1>7. info.x_crop_offset = 0 /\ info.y_crop_offset = 0
  BY <1>6 DEF CropIn_iMCUs
<1>8. /\ OutputSize(request, request.x, full.w, iMCU.w) = full.w
      /\ OutputSize(request, request.y, full.h, iMCU.h) = full.h
  BY DEF OutputSize
<1>9. ASSUME NEW whole \in Nat \ {0}, NEW size \in Nat \ {0}, whole % size = 0
      PROVE  Trim(whole, 0, whole, size) = whole
  <2>1. whole = (whole \div size) * size
    BY <1>9, Divided
  <2> QED BY <2>1 DEF Trim
<1>10. dst.width = full.w
  <2>1. CASE trims_x
    <3>1. Trim(full.w, 0, full.w, iMCU.w) = full.w
      BY <1>5, <1>6, <1>9, <2>1
    <3> QED BY <1>6, <1>7, <1>8, <2>1, <3>1 DEF OneOutput
  <2>2. CASE ~trims_x
    BY <1>6, <1>8, <2>2 DEF OneOutput
  <2> QED BY <2>1, <2>2
<1>11. dst.height = full.h
  <2>1. CASE trims_y
    <3>1. Trim(full.h, 0, full.h, iMCU.h) = full.h
      BY <1>5, <1>6, <1>9, <2>1
    <3> QED BY <1>6, <1>7, <1>8, <2>1, <3>1 DEF OneOutput
  <2>2. CASE ~trims_y
    BY <1>6, <1>8, <2>2 DEF OneOutput
  <2> QED BY <2>1, <2>2
<1>12. Turns
  <2>1. CASE info.transform = "none"
    <3>1. full.w = src.width /\ full.h = src.height
      BY <1>2, <2>1 DEF full, Full, Transposing
    <3> QED BY <1>3, <1>6, <1>10, <1>11, <3>1 DEF Turns, Larger, Taller, Wider
  <2>2. CASE info.transform # "none"
    BY <1>3, <2>2 DEF Turns, Larger
  <2> QED BY <2>1, <2>2
<1> QED BY <1>5, <1>7, <1>10, <1>11, <1>12

(* The result of a perfect transform is the mirror image of the whole.     *)
PerfectExpected(c, y, x) ==
    <<Of>> \o TurnedFrom(
        IF info.transform \in MirrorsY THEN Max(Rows(dst, c)) - y ELSE y,
        IF info.transform \in MirrorsX THEN Max(Cols(dst, c)) - x ELSE x)
LEMMA PerfectShown ==
    ASSUME Inv, ShownInv, phase = "written", request.perfect, ~request.crop,
           NEW c \in DOMAIN dst.comps, NEW y \in Rows(dst, c), NEW x \in Cols(dst, c)
    PROVE  Shows(c, y, x, PerfectExpected(c, y, x))
<1>1. Turns /\ Shown /\ phase \in {"adjusted", "written"}
  BY PerfectSizes DEF ShownInv
<1>2. Shows(c, y, x, Expected(c, y, x))
  BY <1>1 DEF Shown
<1> DEFINE nx == width_in_blocks(dst, c)
           ny == height_in_blocks(dst, c)
           mx == info.transform \in MirrorsX
           my == info.transform \in MirrorsY
<1>3. /\ nx \in Nat \ {0} /\ ny \in Nat \ {0} /\ h(c) \in 1 .. 4 /\ v(c) \in 1 .. 4
      /\ nx = CeilDiv(full.w * h(c), iMCU.w) /\ ny = CeilDiv(full.h * v(c), iMCU.h)
      /\ full.w \in Nat \ {0} /\ full.h \in Nat \ {0}
      /\ iMCU.w \in Nat \ {0} /\ iMCU.h \in Nat \ {0}
  BY <1>1, DstPlaced, PerfectSizes
<1>4. x0(c) = 0 /\ y0(c) = 0
  BY <1>3, PerfectSizes DEF x0, y0
<1>5. ASSUME mx PROVE nx = (full.w \div iMCU.w) * h(c)
  <2>1. Divides(iMCU.w, full.w)
    BY <1>5, PerfectSizes DEF Divides
  <2>2. nx = Blocks(full.w, h(c), iMCU.w)
    BY <1>3 DEF Blocks
  <2>3. nx = WholeBlocks(full.w, h(c), iMCU.w)
    BY <1>3, <2>1, <2>2, WholeMirrored
  <2> QED BY <2>3 DEF WholeBlocks
<1>6. ASSUME my PROVE ny = (full.h \div iMCU.h) * v(c)
  <2>1. Divides(iMCU.h, full.h)
    BY <1>6, PerfectSizes DEF Divides
  <2>2. ny = Blocks(full.h, v(c), iMCU.h)
    BY <1>3 DEF Blocks
  <2>3. ny = WholeBlocks(full.h, v(c), iMCU.h)
    BY <1>3, <2>1, <2>2, WholeMirrored
  <2> QED BY <2>3 DEF WholeBlocks
<1>7. x \in 0 .. nx * DCTSIZE - 1 /\ y \in 0 .. ny * DCTSIZE - 1
  BY DEF Cols, Rows
<1>8. mx \in BOOLEAN /\ my \in BOOLEAN
  OBVIOUS
<1>9. OneMirrored(mx, x, (full.w \div iMCU.w) * h(c) * DCTSIZE) =
        IF mx THEN Max(Cols(dst, c)) - x ELSE x
  <2>1. Cols(dst, c) = 0 .. nx * DCTSIZE - 1
    BY DEF Cols
  <2>2. mx => (full.w \div iMCU.w) * h(c) * DCTSIZE = nx * DCTSIZE
    BY <1>5
  <2> HIDE DEF mx, nx
  <2> QED BY <1>3, <1>7, <1>8, <2>1, <2>2, PerfectMirrored
<1>10. OneMirrored(my, y, (full.h \div iMCU.h) * v(c) * DCTSIZE) =
         IF my THEN Max(Rows(dst, c)) - y ELSE y
  <2>1. Rows(dst, c) = 0 .. ny * DCTSIZE - 1
    BY DEF Rows
  <2>2. my => (full.h \div iMCU.h) * v(c) * DCTSIZE = ny * DCTSIZE
    BY <1>6
  <2> HIDE DEF my, ny
  <2> QED BY <1>3, <1>7, <1>8, <2>1, <2>2, PerfectMirrored
<1>11. y + y0(c) * DCTSIZE = y /\ x + x0(c) * DCTSIZE = x
  BY <1>4, <1>7 DEF DCTSIZE
<1>12. Expected(c, y, x) = PerfectExpected(c, y, x)
  BY <1>9, <1>10, <1>11 DEF Expected, PerfectExpected, FromTurned, OneMirrored
<1> QED BY <1>2, <1>12

LEMMA PerfectMeans ==
    ASSUME Inv, ShownInv PROVE PerfectTurns
BY PerfectShown, Zenon DEF PerfectTurns, DstOK, PerfectExpected, Written

(* A perfect transform turns the whole of the image, also what lies in     *)
(* part of an iMCU at its edges (jtransform_perfect_transform).            *)
THEOREM PerfectTurnsAll ==
    ASSUME SourceStays
    PROVE  Spec => []PerfectTurns
<1>1. Spec => [](Inv /\ ShownInv)
  BY ShownAlways
<1>2. Inv /\ ShownInv => PerfectTurns
  BY PerfectMeans
<1> QED BY <1>1, <1>2, PTL
=============================================================================
