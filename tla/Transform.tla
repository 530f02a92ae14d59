----------------------------- MODULE Transform -----------------------------
(***************************************************************************)
(* Lossless transformation (transupp.c) of an image given as arrays of DCT *)
(* blocks: jtransform_request_workspace works out the size and position of *)
(* a result, jtransform_adjust_parameters the parameters to compress it    *)
(* with, jtransform_execute_transform moves blocks and mirrors them.       *)
(* jpegtran makes one transform of its source, tjTransform (turbojpeg.c)   *)
(* any number of the one source, whose arrays some transforms overwrite.   *)
(*                                                                         *)
(* A block is one of the source image or of the image dropped into it, in  *)
(* one of eight poses, or flat.  The properties look at it as 2 x 2        *)
(* samples, which show its pose.                                           *)
(***************************************************************************)
EXTENDS Integers, Sequences, FiniteSets, FiniteSetsExt

CONSTANTS Images,        \* images to transform: dimensions and components
          Jobs,          \* what is asked for: tj, and one or more requests
          DropImage      \* image to be dropped into others

(* What a decompressor accepts as an image (initial_setup of jdinput.c),   *)
(* and what jtransform_parse_crop_spec and tjTransform can ask for: a      *)
(* request, and the size and offset of a region in each direction.         *)
Samplings == [h : 1 .. 4, v : 1 .. 4]
ASSUME ImagesAssumption ==
    Images \subseteq [comps : Seq(Samplings) \ {<< >>}, ycc : BOOLEAN,
                      width : Nat \ {0}, height : Nat \ {0}, blocks : {<< >>}]

Directions == [size_set : {"unset", "pos", "force", "reflect"}, size : Nat,
               offset_set : {"unset", "pos", "neg"}, offset : Nat]
Transforms == {"none", "flip_h", "flip_v", "transpose", "transverse",
               "rot_90", "rot_180", "rot_270", "wipe", "drop"}
Requests == [transform : Transforms, perfect : BOOLEAN, trim : BOOLEAN,
             force_grayscale : BOOLEAN, crop : BOOLEAN,
             x : Directions, y : Directions, filter : BOOLEAN]
ASSUME JobsAssumption ==
    /\ Jobs \subseteq [tj : BOOLEAN, requests : Seq(Requests) \ {<< >>}]
    /\ \A j \in Jobs : \A k \in 1 .. Len(j.requests) :
          j.requests[k].transform \in {"wipe", "drop"} => j.requests[k].crop

VARIABLES
    phase,      \* "start", "requested", "adjusted", "written" or "refused"
    job,        \* the job, one of Jobs
    src,        \* the source object and its coefficient arrays
    infos,      \* jpeg_transform_info of each request: it and what follows
    i,          \* transform being made
    dst         \* the destination object; with arrays once it is written
vars == <<phase, job, src, infos, i, dst>>

info == infos[i]

DCTSIZE == 2
CeilDiv(a, b) == (a + b - 1) \div b

-----------------------------------------------------------------------------
(* Blocks.  A pose is made by transposing, if t, then mirroring, if fx and *)
(* fy; dc is what a flat block was averaged from.                          *)
Block(of, y, x) ==
    [kind |-> "full", of |-> of, y |-> y, x |-> x,
     t |-> FALSE, fx |-> FALSE, fy |-> FALSE]
DC(b) == IF b.kind = "full" THEN {<<b.of, b.y, b.x>>} ELSE b.dc
Flat(dc) == [kind |-> "flat", dc |-> dc]
Zero == Flat({<<"zero", 0, 0>>})
Pad == Flat({<<"pad", 0, 0>>})          \* fills up an array
Nothing == Flat({<<"nothing", 0, 0>>})  \* outside of it

FlipCols(b) == IF b.kind = "full" THEN [b EXCEPT !.fx = ~@] ELSE b
FlipRows(b) == IF b.kind = "full" THEN [b EXCEPT !.fy = ~@] ELSE b
Transposed(b) ==
    IF b.kind = "full" THEN [b EXCEPT !.t = ~@, !.fx = b.fy, !.fy = b.fx] ELSE b

(* The destination is divided into iMCUs by its own sampling factors, and  *)
(* components are as large as these say (initial_setup of jcmaster.c).     *)
max_h(im) == Max({im.comps[c].h : c \in DOMAIN im.comps})
max_v(im) == Max({im.comps[c].v : c \in DOMAIN im.comps})
width_in_blocks(im, c) == CeilDiv(im.width * im.comps[c].h, max_h(im) * DCTSIZE)
height_in_blocks(im, c) == CeilDiv(im.height * im.comps[c].v, max_v(im) * DCTSIZE)
Padded(n, size) == CeilDiv(n, size) * size

(* The arrays of an image as the decoder has them: padded to whole iMCUs.  *)
Read(im, BlockAt(_, _, _)) ==
    [im EXCEPT !.blocks =
        [c \in DOMAIN im.comps |->
          [y \in 0 .. Padded(height_in_blocks(im, c), im.comps[c].v) - 1 |->
            [x \in 0 .. Padded(width_in_blocks(im, c), im.comps[c].h) - 1 |->
                IF y < height_in_blocks(im, c) /\ x < width_in_blocks(im, c)
                  THEN BlockAt(c, y, x) ELSE Pad]]]]

-----------------------------------------------------------------------------
(* jtransform_request_workspace.                                           *)
Transposing == {"transpose", "transverse", "rot_90", "rot_270"}

NumComponents(im, r) ==
    IF r.force_grayscale /\ im.ycc THEN 1 ELSE Len(im.comps)

(* The iMCU of the source is one block if one component is kept.           *)
iMCU_width(im, r) == IF NumComponents(im, r) = 1 THEN DCTSIZE
                                                 ELSE max_h(im) * DCTSIZE
iMCU_height(im, r) == IF NumComponents(im, r) = 1 THEN DCTSIZE
                                                  ELSE max_v(im) * DCTSIZE

jtransform_perfect_transform(im, r) ==
    /\ r.transform \in {"flip_h", "rot_270", "transverse", "rot_180"} =>
          im.width % iMCU_width(im, r) = 0
    /\ r.transform \in {"flip_v", "rot_90", "transverse", "rot_180"} =>
          im.height % iMCU_height(im, r) = 0

(* Both directions are treated alike: a direction of the crop region a has *)
(* size and offset, each set in some way, and full is the whole image.     *)
CropOffset(a) == IF a.offset_set = "unset" THEN 0 ELSE a.offset
CropSize(a, full) ==
    IF a.size_set = "unset" THEN full - CropOffset(a) ELSE a.size
BadCrop(a, full, transform) ==
    IF a.size_set = "unset" THEN CropOffset(a) >= full
    ELSE IF a.size > full
      THEN transform # "none" \/ CropOffset(a) > a.size - full
    ELSE a.size = 0 \/ CropOffset(a) > full - a.size
Extends(a, full) == CropSize(a, full) > full
Offset(a, full) ==
    IF a.offset_set # "neg" THEN CropOffset(a)
    ELSE IF Extends(a, full) THEN a.size - full - a.offset
    ELSE full - CropSize(a, full) - a.offset

(* A drop region is made to fit into the request, a wipe region to cover   *)
(* it, in iMCUs; and so is a crop region, unless forced.                   *)
RoundUp(offset, iMCU) == iMCU - 1 - ((offset + iMCU - 1) % iMCU)
DropSize(a, full, iMCU) ==
    LET cut == RoundUp(Offset(a, full), iMCU)
        size == CropSize(a, full)
    IN  IF size <= cut THEN 0
        ELSE IF Offset(a, full) + size = full
          THEN (size - cut + iMCU - 1) \div iMCU
        ELSE (size - cut) \div iMCU
WipeSize(a, full, iMCU) ==
    CeilDiv(CropSize(a, full) + (Offset(a, full) % iMCU), iMCU)
CropOutput(a, full, iMCU) ==
    IF a.size_set = "force" \/ Extends(a, full) THEN CropSize(a, full)
    ELSE CropSize(a, full) + (Offset(a, full) % iMCU)

OutputSize(r, a, full, iMCU) ==
    IF ~r.crop \/ r.transform \in {"wipe", "drop"} THEN full
    ELSE CropOutput(a, full, iMCU)
CropIn_iMCUs(r, a, full, iMCU) ==
    IF ~r.crop THEN 0
    ELSE IF r.transform = "drop"
      THEN (Offset(a, full) + RoundUp(Offset(a, full), iMCU)) \div iMCU
    ELSE Offset(a, full) \div iMCU
RegionSize(r, a, full, iMCU) ==
    IF r.transform = "drop" THEN DropSize(a, full, iMCU)
    ELSE IF r.transform = "wipe" THEN WipeSize(a, full, iMCU)
    ELSE 0

(* trim_right_edge and trim_bottom_edge: an iMCU that is not whole, at an  *)
(* edge that cannot be mirrored, is dropped.                               *)
Trim(output, offset, full, iMCU) ==
    IF output \div iMCU > 0 /\ offset + (output \div iMCU) = full \div iMCU
      THEN (output \div iMCU) * iMCU ELSE output
TrimsRight == {"flip_h", "transverse", "rot_90", "rot_180"}
TrimsBottom == {"flip_v", "transverse", "rot_180", "rot_270"}

(* Only jtransform_execute_transform, and what it modifies, depend on this. *)
NeedWorkspace(im, made) ==
    CASE made.transform = "none" ->
            \/ made.x_crop_offset # 0 \/ made.y_crop_offset # 0
            \/ made.output_width > im.width \/ made.output_height > im.height
      [] made.transform = "flip_h" -> made.y_crop_offset # 0 \/ made.slow_hflip
      [] made.transform \in {"wipe", "drop"} -> FALSE
      [] OTHER -> TRUE

(* tjTransform, which may need its source again, does not flip in place.   *)
slow_hflip_Never(r) == FALSE
slow_hflip(r) == Len(job.requests) # 1 /\ r.transform = "flip_h"

(* full: the size of the whole image after the transform, iMCU: that of    *)
(* its iMCUs, output: what is left of it.                                  *)
InfoFor(r, full, iMCU, x_offset, y_offset, output) ==
    [request |-> r, transform |-> r.transform, slow_hflip |-> slow_hflip(r),
     iMCU_sample_width |-> iMCU.w, iMCU_sample_height |-> iMCU.h,
     x_crop_offset |-> x_offset, y_crop_offset |-> y_offset,
     output_width |-> IF r.trim /\ r.transform \in TrimsRight
                        THEN Trim(output.w, x_offset, full.w, iMCU.w)
                        ELSE output.w,
     output_height |-> IF r.trim /\ r.transform \in TrimsBottom
                        THEN Trim(output.h, y_offset, full.h, iMCU.h)
                        ELSE output.h,
     drop_width |-> RegionSize(r, r.x, full.w, iMCU.w),
     drop_height |-> RegionSize(r, r.y, full.h, iMCU.h)]

Full(im, r) == IF r.transform \in Transposing
                 THEN [w |-> im.height, h |-> im.width]
                 ELSE [w |-> im.width, h |-> im.height]
iMCU_size(im, r) ==
    IF r.transform \in Transposing
      THEN [w |-> iMCU_height(im, r), h |-> iMCU_width(im, r)]
      ELSE [w |-> iMCU_width(im, r), h |-> iMCU_height(im, r)]
Output(r, full, iMCU) == [w |-> OutputSize(r, r.x, full.w, iMCU.w),
                          h |-> OutputSize(r, r.y, full.h, iMCU.h)]
MakeInfo(r, full, iMCU) ==
    InfoFor(r, full, iMCU, CropIn_iMCUs(r, r.x, full.w, iMCU.w),
            CropIn_iMCUs(r, r.y, full.h, iMCU.h), Output(r, full, iMCU))

BadDrop(im, r, region) ==
    /\ r.transform = "drop" /\ region.drop_width # 0 /\ region.drop_height # 0
    /\ \E c \in 1 .. Min({NumComponents(im, r), Len(DropImage.comps)}) :
          \/ DropImage.comps[c].h * max_h(im) # im.comps[c].h * max_h(DropImage)
          \/ DropImage.comps[c].v * max_v(im) # im.comps[c].v * max_v(DropImage)

(* tjTransform: the source is subsampled in a way that it knows, and the    *)
(* crop region starts at an MCU, of the source.                            *)
tjMCU(im) == IF Len(im.comps) = 1 THEN [w |-> DCTSIZE, h |-> DCTSIZE]
             ELSE [w |-> max_h(im) * DCTSIZE, h |-> max_v(im) * DCTSIZE]
getSubsamp(im) ==
    \/ Len(im.comps) = 1
    \/ /\ Len(im.comps) = 3
       /\ <<im.comps[1].h, im.comps[1].v>> \in
              {<<1, 1>>, <<2, 1>>, <<2, 2>>, <<1, 2>>, <<4, 1>>}
       /\ \A c \in {2, 3} : im.comps[c] = [h |-> 1, v |-> 1]
tjRefuses(im, r) ==
    /\ job.tj
    /\ \/ ~getSubsamp(im)
       \/ r.crop /\ (r.x.offset % tjMCU(im).w # 0 \/ r.y.offset % tjMCU(im).h # 0)

jtransform_request_workspace ==
    /\ phase = "start"
    /\ LET r == job.requests[Len(infos) + 1]
           made == MakeInfo(r, Full(src, r), iMCU_size(src, r))
       IN  IF \/ r.perfect /\ ~jtransform_perfect_transform(src, r)
              \/ r.crop /\ BadCrop(r.x, Full(src, r).w, r.transform)
              \/ r.crop /\ BadCrop(r.y, Full(src, r).h, r.transform)
              \/ BadDrop(src, r, made)
              \/ tjRefuses(src, r)
             THEN phase' = "refused" /\ UNCHANGED infos
             ELSE /\ phase' = IF Len(infos) + 1 = Len(job.requests)
                                THEN "requested" ELSE "start"
                  /\ infos' = Append(infos, made)
    /\ UNCHANGED <<job, src, i, dst>>

-----------------------------------------------------------------------------
(* jtransform_adjust_parameters, for the next transform.                   *)
FullResolution(im) == im.comps[1].h = max_h(im) /\ im.comps[1].v = max_v(im)
DstComps(im, r) ==
    IF NumComponents(im, r) = 1 THEN <<[h |-> 1, v |-> 1]>>
    ELSE [c \in DOMAIN im.comps |->
            IF r.transform \in Transposing
              THEN [h |-> im.comps[c].v, v |-> im.comps[c].h] ELSE im.comps[c]]
Destination(im, next) ==
    [width |-> next.output_width, height |-> next.output_height,
     comps |-> DstComps(im, next.request),
     ycc |-> im.ycc /\ ~next.request.force_grayscale, blocks |-> << >>]

jtransform_adjust_parameters ==
    /\ phase \in {"requested", "written"} /\ i < Len(infos)
    /\ IF infos[i + 1].request.force_grayscale /\
          ~(FullResolution(src) /\ (src.ycc \/ Len(src.comps) = 1))
         THEN phase' = "refused" /\ UNCHANGED <<i, dst>>
         ELSE /\ phase' = "adjusted"
              /\ i' = i + 1
              /\ dst' = Destination(src, infos[i + 1])
    /\ UNCHANGED <<job, src, infos>>

-----------------------------------------------------------------------------
(* jtransform_execute_transform.  For a component c of the destination:    *)
h(c) == dst.comps[c].h
v(c) == dst.comps[c].v
x0(c) == info.x_crop_offset * h(c)
y0(c) == info.y_crop_offset * v(c)
comp_width(c) ==
    ((IF info.transform \in Transposing THEN src.height ELSE src.width)
        \div (max_h(dst) * DCTSIZE)) * h(c)
comp_height(c) ==
    ((IF info.transform \in Transposing THEN src.width ELSE src.height)
        \div (max_v(dst) * DCTSIZE)) * v(c)
drop_cols(c) == x0(c) .. x0(c) + info.drop_width * h(c) - 1
drop_rows(c) == y0(c) .. y0(c) + info.drop_height * v(c) - 1

At(im, c, y, x) ==
    IF y \in DOMAIN im.blocks[c] /\ x \in DOMAIN im.blocks[c][y]
      THEN im.blocks[c][y][x] ELSE Nothing
Src(c, y, x) == At(src, c, y, x)

do_crop(c, y, x) == Src(c, y + y0(c), x + x0(c))

(* What lies in the part made of whole iMCUs is mirrored, the rest not.    *)
do_flip_h(c, y, x) ==
    IF x0(c) + x < comp_width(c)
      THEN FlipCols(Src(c, y + y0(c), comp_width(c) - x0(c) - x - 1))
      ELSE do_crop(c, y, x)
do_flip_v(c, y, x) ==
    IF y0(c) + y < comp_height(c)
      THEN FlipRows(Src(c, comp_height(c) - y0(c) - y - 1, x + x0(c)))
      ELSE do_crop(c, y, x)
do_rot_180(c, y, x) ==
    IF y0(c) + y < comp_height(c)
      THEN IF x0(c) + x < comp_width(c)
             THEN FlipRows(FlipCols(Src(c, comp_height(c) - y0(c) - y - 1,
                                        comp_width(c) - x0(c) - x - 1)))
             ELSE do_flip_v(c, y, x)
      ELSE do_flip_h(c, y, x)

do_transpose(c, y, x) == Transposed(Src(c, x + x0(c), y + y0(c)))
do_rot_90(c, y, x) ==
    IF x0(c) + x < comp_width(c)
      THEN FlipCols(Transposed(Src(c, comp_width(c) - x0(c) - x - 1, y + y0(c))))
      ELSE do_transpose(c, y, x)
do_rot_270(c, y, x) ==
    IF y0(c) + y < comp_height(c)
      THEN FlipRows(Transposed(Src(c, x + x0(c), comp_height(c) - y0(c) - y - 1)))
      ELSE do_transpose(c, y, x)
do_transverse(c, y, x) ==
    IF y0(c) + y < comp_height(c)
      THEN IF x0(c) + x < comp_width(c)
             THEN FlipRows(FlipCols(Transposed(
                     Src(c, comp_width(c) - x0(c) - x - 1,
                            comp_height(c) - y0(c) - y - 1))))
             ELSE do_rot_270(c, y, x)
      ELSE do_rot_90(c, y, x)

(* Swaps blocks within the source, then moves them to the left.            *)
do_flip_h_no_crop(c, y, x) ==
    LET from == IF x < width_in_blocks(dst, c) THEN x + x0(c) ELSE x
    IN  IF from < comp_width(c) THEN FlipCols(Src(c, y, comp_width(c) - from - 1))
        ELSE Src(c, y, from)

(* Block d of the reflections of a row at an axis: g[0] is next to it, and *)
(* what was reflected is reflected again, every period blocks.             *)
Reflection(g, period, n) ==
    LET R[d \in 1 .. n] ==
            LET turn == (d - 1) \div period
                off == (d - 1) % period
            IN  FlipCols(IF turn = 0 THEN g[off] ELSE R[turn * period - off])
    IN  R[n]

(* A larger image than the source: its whole iMCUs, and around them what   *)
(* the kind of extension puts there.                                       *)
Taller == dst.height > src.height
Wider == dst.width > src.width
AboveOrBelow(c, y) ==
    Taller /\ (y < y0(c) \/ y >= y0(c) + comp_height(c))
Row(c, y) == IF Taller THEN y - y0(c) ELSE y + y0(c)
InSource(c, x) == x \in x0(c) .. x0(c) + comp_width(c) - 1

do_crop_ext_zero(c, y, x) ==
    IF AboveOrBelow(c, y) THEN Zero
    ELSE IF ~Wider THEN Src(c, Row(c, y), x + x0(c))
    ELSE IF InSource(c, x) THEN Src(c, Row(c, y), x - x0(c))
    ELSE Zero
do_crop_ext_flat(c, y, x) ==
    IF AboveOrBelow(c, y) THEN Zero
    ELSE IF InSource(c, x) THEN Src(c, Row(c, y), x - x0(c))
    ELSE Flat(DC(Src(c, Row(c, y), IF x < x0(c) THEN 0 ELSE comp_width(c) - 1)))
do_crop_ext_reflect_OffByOne(c, y, x) ==
    LET w == comp_width(c)
        g(edge, step) == [k \in 0 .. w - 1 |-> Src(c, Row(c, y), edge + step * k)]
    IN  IF AboveOrBelow(c, y) THEN Zero
        ELSE IF x < x0(c) THEN Reflection(g(0, 1), w, x0(c) - x)
        ELSE IF InSource(c, x) THEN Src(c, Row(c, y), x - x0(c))
        ELSE Reflection(g(w - 1, -1), w, x - x0(c) - w + 2)
do_crop_ext_reflect(c, y, x) ==
    LET w == comp_width(c)
        g(edge, step) == [k \in 0 .. w - 1 |-> Src(c, Row(c, y), edge + step * k)]
    IN  IF AboveOrBelow(c, y) THEN Zero
        ELSE IF x < x0(c) THEN Reflection(g(0, 1), w, x0(c) - x)
        ELSE IF InSource(c, x) THEN Src(c, Row(c, y), x - x0(c))
        ELSE Reflection(g(w - 1, -1), w, x - x0(c) - w + 1)

(* Blocks of the source are replaced, in the region alone.                 *)
InRegion(c, y, x) == y \in drop_rows(c) /\ x \in drop_cols(c)
do_wipe(c, y, x) == Zero
do_flatten(c, y, x) ==
    LET left == Min(drop_cols(c)) - 1
        right == Max(drop_cols(c)) + 1
        next == {k \in {left, right} : k \in 0 .. width_in_blocks(dst, c) - 1}
    IN  IF next = {} THEN Zero
        ELSE Flat(UNION {DC(Src(c, y, k)) : k \in next})
RightOfWipe_Anyway(c) == TRUE
RightOfWipe(c) == width_in_blocks(dst, c) > x0(c) + info.drop_width * h(c)
do_reflect(c, y, x) ==
    LET right == x0(c) + info.drop_width * h(c)
        rest == width_in_blocks(dst, c) - right
    IN  IF x0(c) > 0
          THEN Reflection([k \in 0 .. x0(c) - 1 |-> Src(c, y, x0(c) - 1 - k)],
                          x0(c), x - x0(c) + 1)
        ELSE IF RightOfWipe(c)
          THEN Reflection([k \in 0 .. rest - 1 |-> Src(c, y, right + k)],
                          rest, right - x)
        ELSE Zero
do_drop(c, y, x) ==
    IF c \in DOMAIN DropImage.comps
      THEN At(DropImage, c, y - y0(c), x - x0(c)) ELSE Zero

(* Which of them, and with which way of filling, the switch chooses.       *)
Larger == info.transform = "none" /\ (Taller \/ Wider)
size_set == info.request.x.size_set
ReflectsExtension == info.transform = "none" /\ Wider /\ size_set = "reflect"
iMCUs(output, iMCU) == CeilDiv(output, iMCU)
ReflectsWipe ==
    /\ info.transform = "wipe" /\ size_set = "reflect"
    /\ info.y_crop_offset = 0
    /\ info.drop_height = iMCUs(info.output_height, info.iMCU_sample_height)
    /\ \/ info.x_crop_offset = 0
       \/ info.x_crop_offset + info.drop_width =
              iMCUs(info.output_width, info.iMCU_sample_width)

Kept(c, y, x) ==
    IF ~Larger THEN do_crop(c, y, x)
    ELSE IF ReflectsExtension THEN do_crop_ext_reflect(c, y, x)
    ELSE IF Wider /\ size_set = "force" THEN do_crop_ext_flat(c, y, x)
    ELSE do_crop_ext_zero(c, y, x)
Wiped(c, y, x) ==
    IF ReflectsWipe THEN do_reflect(c, y, x)
    ELSE IF size_set = "force" THEN do_flatten(c, y, x)
    ELSE do_wipe(c, y, x)
Transformed(c, y, x) ==
    CASE info.transform = "none" -> Kept(c, y, x)
      [] info.transform = "flip_h" ->
            IF NeedWorkspace(src, info) THEN do_flip_h(c, y, x)
                                        ELSE do_flip_h_no_crop(c, y, x)
      [] info.transform = "flip_v" -> do_flip_v(c, y, x)
      [] info.transform = "transpose" -> do_transpose(c, y, x)
      [] info.transform = "transverse" -> do_transverse(c, y, x)
      [] info.transform = "rot_90" -> do_rot_90(c, y, x)
      [] info.transform = "rot_180" -> do_rot_180(c, y, x)
      [] info.transform = "rot_270" -> do_rot_270(c, y, x)
      [] info.transform \in {"wipe", "drop"} ->
            IF ~InRegion(c, y, x) THEN Src(c, y, x)
            ELSE IF info.transform = "drop" THEN do_drop(c, y, x)
            ELSE Wiped(c, y, x)

(* The loops that reflect go on until they have gone far enough, and make  *)
(* no progress where there is nothing to reflect.                          *)
Terminates ==
    \A c \in DOMAIN dst.comps :
        /\ ReflectsExtension /\ (Taller => comp_height(c) > 0) => comp_width(c) > 0
        /\ ReflectsWipe /\ x0(c) = 0 /\ RightOfWipe(c) =>
              width_in_blocks(dst, c) > info.drop_width * h(c)

(* tjTransform lets a filter of the application change what is to be       *)
(* written, where it lies: in the source if there is no workspace.         *)
Filtered(b) == IF info.request.filter /\ b.kind = "full"
                 THEN [b EXCEPT !.of = "filtered"] ELSE b
Overwritten(c, y, x) ==
    IF c \notin DOMAIN dst.comps \/ y >= Padded(height_in_blocks(dst, c), v(c))
      THEN Src(c, y, x) ELSE Filtered(Transformed(c, y, x))

jtransform_execute_transform ==
    /\ phase = "adjusted" /\ Terminates
    /\ phase' = "written"
    /\ dst' = Read(dst, LAMBDA c, y, x : Filtered(Transformed(c, y, x)))
    /\ src' = IF NeedWorkspace(src, info) THEN src
              ELSE [src EXCEPT !.blocks =
                      [c \in DOMAIN @ |-> [y \in DOMAIN @[c] |->
                        [x \in DOMAIN @[c][y] |-> Overwritten(c, y, x)]]]]
    /\ UNCHANGED <<job, infos, i>>

-----------------------------------------------------------------------------
Init ==
    /\ phase = "start" /\ infos = << >> /\ i = 0 /\ dst = << >>
    /\ job \in Jobs
    /\ \E im \in Images :
          src = Read(im, LAMBDA c, y, x : Block("image", y, x))
Next ==
    \/ jtransform_request_workspace
    \/ jtransform_adjust_parameters
    \/ jtransform_execute_transform
Spec == Init /\ [][Next]_vars /\ WF_vars(Next)

-----------------------------------------------------------------------------
(* Properties.  They look at samples; what is expected of a sample of the  *)
(* result is said in terms of the source as it was read.                   *)
Sample(b, y, x) ==
    IF b.kind = "flat" THEN <<b.dc>>
    ELSE LET turned == IF b.t THEN <<x, y>> ELSE <<y, x>>
             flipped == <<IF (IF b.t THEN b.fx ELSE b.fy) THEN 1 - turned[1] ELSE turned[1],
                          IF (IF b.t THEN b.fy ELSE b.fx) THEN 1 - turned[2] ELSE turned[2]>>
         IN  <<b.of, b.y * DCTSIZE + flipped[1], b.x * DCTSIZE + flipped[2]>>
Rows(im, c) == 0 .. height_in_blocks(im, c) * DCTSIZE - 1
Cols(im, c) == 0 .. width_in_blocks(im, c) * DCTSIZE - 1
Shows(c, y, x, expected) ==
    Sample(dst.blocks[c][y \div DCTSIZE][x \div DCTSIZE], y % DCTSIZE, x % DCTSIZE)
        = expected
Written == phase = "written"
request == info.request
full == Full(src, request)
iMCU == iMCU_size(src, request)
DstOK(Expected(_, _, _)) ==
    \A c \in DOMAIN dst.comps : \A y \in Rows(dst, c), x \in Cols(dst, c) :
        Shows(c, y, x, Expected(c, y, x))

(* The type invariant: every block of the result was there in the source   *)
(* or the dropped image, or was made flat; no block from outside an array, *)
(* and none that only fills one up, gets into the result.                  *)
TypeOK ==
    /\ phase \in {"start", "requested", "adjusted", "written", "refused"}
    /\ job \in Jobs /\ i \in 0 .. Len(infos)
    /\ Len(infos) <= Len(job.requests)
    /\ Written =>
          \A c \in DOMAIN dst.comps :
            \A y \in 0 .. height_in_blocks(dst, c) - 1,
               x \in 0 .. width_in_blocks(dst, c) - 1 :
                  DC(dst.blocks[c][y][x])
                      \cap {<<of, 0, 0>> : of \in {"pad", "nothing"}} = {}

(* A job leaves its source alone while it needs it if no transform but the *)
(* last has its result in the arrays of the source, changed.  tjTransform  *)
(* makes sure of that, but for filters of images that are not transformed. *)
OwnArrays(im, r) ==
    \/ CropIn_iMCUs(r, r.x, Full(im, r).w, iMCU_size(im, r).w) # 0
    \/ CropIn_iMCUs(r, r.y, Full(im, r).h, iMCU_size(im, r).h) # 0
SourceStays ==
    \A j \in Jobs : Len(j.requests) = 1 \/
        \A k \in 1 .. Len(j.requests) :
            LET r == j.requests[k]
            IN  /\ r.transform \notin {"wipe", "drop"}
                /\ r.filter /\ r.transform = "none" => \A im \in Images : OwnArrays(im, r)

(* Each result is the source cropped and turned as asked, whatever the     *)
(* other transforms of the job did to the arrays: a sample of a partial    *)
(* iMCU at an edge that would have to be mirrored is left in its place,    *)
(* in that direction only, and any other is where the turn takes it        *)
(* (do_flip_h to do_transverse, and slow_hflip of tjTransform).            *)
Mirror(k, whole) == IF k < whole THEN whole - 1 - k ELSE k
MirrorsX == {"flip_h", "transverse", "rot_90", "rot_180"}
MirrorsY == {"flip_v", "transverse", "rot_180", "rot_270"}
TurnedFrom(y, x) == IF info.transform \in Transposing THEN <<x, y>> ELSE <<y, x>>
FromTurned(c, y, x) ==
    TurnedFrom(IF info.transform \in MirrorsY
                 THEN Mirror(y, (full.h \div iMCU.h) * v(c) * DCTSIZE) ELSE y,
               IF info.transform \in MirrorsX
                 THEN Mirror(x, (full.w \div iMCU.w) * h(c) * DCTSIZE) ELSE x)
Of == IF request.filter THEN "filtered" ELSE "image"
ShowsTurned ==
    Written /\ ~Larger /\ info.transform \notin {"wipe", "drop"} =>
        DstOK(LAMBDA c, y, x :
                <<Of>> \o FromTurned(c, y + y0(c) * DCTSIZE, x + x0(c) * DCTSIZE))

(* A perfect transform turns the whole image, edges included, or is        *)
(* refused (jtransform_perfect_transform).                                 *)
PerfectTurns ==
    Written /\ request.perfect /\ ~request.crop =>
        DstOK(LAMBDA c, y, x :
          <<Of>> \o TurnedFrom(
             IF info.transform \in MirrorsY THEN Max(Rows(dst, c)) - y ELSE y,
             IF info.transform \in MirrorsX THEN Max(Cols(dst, c)) - x ELSE x))

(* What is trimmed has no edge left that could not be mirrored, unless it  *)
(* is less than an iMCU (trim_right_edge, trim_bottom_edge).               *)
TrimmedClean ==
    Written /\ request.trim =>
        /\ info.transform \in MirrorsX /\ dst.width >= iMCU.w =>
              info.x_crop_offset * iMCU.w + dst.width <= full.w - (full.w % iMCU.w)
        /\ info.transform \in MirrorsY /\ dst.height >= iMCU.h =>
              info.y_crop_offset * iMCU.h + dst.height <= full.h - (full.h % iMCU.h)

(* A cropped image covers the requested region: its upper left corner is   *)
(* moved by less than an iMCU, and its lower right corner not at all; if   *)
(* the size is forced, or larger than the image, it is the size asked for. *)
First(a, whole) == IF a.offset_set = "neg" THEN whole - CropSize(a, whole) - a.offset
                   ELSE CropOffset(a)
Covers(a, whole, size, first, output) ==
    IF a.size_set = "force" \/ (a.size_set # "unset" /\ a.size > whole)
      THEN output = a.size
      ELSE /\ first * size <= First(a, whole) /\ First(a, whole) < (first + 1) * size
           /\ first * size + output = First(a, whole) + CropSize(a, whole)
CropCovers ==
    Written /\ request.crop /\ ~request.trim /\ info.transform \notin {"wipe", "drop"} =>
        /\ Covers(request.x, full.w, iMCU.w, info.x_crop_offset, dst.width)
        /\ Covers(request.y, full.h, iMCU.h, info.y_crop_offset, dst.height)

(* The region in the output is what was asked for: neither less of the     *)
(* image than a crop names nor more of its edge than can be turned.        *)
RegionAsAsked == TrimmedClean /\ CropCovers

(* A larger image has the whole iMCUs of the source in it, and around them *)
(* zeros, or to the left and right what is nearest, or reflections back    *)
(* and forth (do_crop_ext_zero, do_crop_ext_flat, do_crop_ext_reflect).    *)
ToAndFro(k, n) == IF k % (2 * n) < n THEN k % (2 * n) ELSE 2 * n - 1 - (k % (2 * n))
Neutral == <<DC(Zero)>>
FromExtended(c, y, x, whole_h, whole_w) ==
    IF Taller /\ y \notin 0 .. whole_h - 1 THEN Neutral
    ELSE IF Wider => x \in 0 .. whole_w - 1 THEN <<"image", y, x>>
    ELSE IF size_set = "reflect" THEN <<"image", y, ToAndFro(x, whole_w)>>
    ELSE IF size_set = "force"
      THEN <<{<<"image", y \div DCTSIZE,
                IF x < 0 THEN 0 ELSE (whole_w - 1) \div DCTSIZE>>}>>
    ELSE Neutral
Extended ==
    Written /\ Larger =>
        DstOK(LAMBDA c, y, x :
          FromExtended(c, IF Taller THEN y - y0(c) * DCTSIZE ELSE y + y0(c) * DCTSIZE,
                       IF Wider THEN x - x0(c) * DCTSIZE ELSE x + x0(c) * DCTSIZE,
                       (full.h \div iMCU.h) * v(c) * DCTSIZE,
                       (full.w \div iMCU.w) * h(c) * DCTSIZE))

(* The region is all iMCUs that the wiped region touches; and all that lie *)
(* in the dropped image as far as they are part of the picture.            *)
Region(a, whole, size) ==
    {k \in 0 .. (whole - 1) \div size :
        LET first == First(a, whole)
            last == First(a, whole) + CropSize(a, whole) - 1
        IN  IF info.transform = "wipe"
              THEN k * size <= last /\ first < (k + 1) * size
              ELSE first <= k * size /\ Min({(k + 1) * size, whole}) - 1 <= last}
iMCUof(x, samp) == x \div (samp * DCTSIZE)

Inside(c, y, x, rows, cols) ==
    LET first == Min(cols) * h(c) * DCTSIZE             \* samples from here
        next == (Max(cols) + 1) * h(c) * DCTSIZE        \* to before here
        end == Max(Cols(dst, c)) + 1
        beside == {k \in {first - 1, next} : k \in Cols(dst, c)}
    IN  IF info.transform = "drop"
          THEN IF c \in DOMAIN DropImage.comps
                 THEN <<"drop", y - Min(rows) * v(c) * DCTSIZE, x - first>>
                 ELSE Neutral
        ELSE IF beside = {} \/ size_set \notin {"force", "reflect"} THEN Neutral
        ELSE IF size_set = "force"
          THEN <<{<<"image", y \div DCTSIZE, k \div DCTSIZE>> : k \in beside}>>
        ELSE IF rows # 0 .. (full.h - 1) \div iMCU.h \/ Cardinality(beside) = 2
          THEN Neutral
        ELSE IF first > 0 THEN <<"image", y, ToAndFro(x, first)>>
        ELSE <<"image", y, next + ToAndFro(x - next, end - next)>>

(* Outside of the region that is wiped or dropped into, the image stays.   *)
(* Inside of it nothing is left of what was there: it is zero, the mean of *)
(* the blocks next to it, reflections of what is to one side of it, or the *)
(* dropped image (do_wipe, do_flatten, do_reflect, do_drop).               *)
RegionReplaced ==
    Written /\ info.transform \in {"wipe", "drop"} =>
        LET cols == Region(request.x, full.w, iMCU.w)
            rows == Region(request.y, full.h, iMCU.h)
        IN  DstOK(LAMBDA c, y, x :
              IF iMCUof(y, v(c)) \in rows /\ iMCUof(x, h(c)) \in cols
                THEN Inside(c, y, x, rows, cols) ELSE <<"image", y, x>>)

(* The invariant: every option has the effect asked for, and no other.     *)
OptionsHold == TypeOK /\ PerfectTurns /\ RegionAsAsked /\ Extended /\ RegionReplaced

(* Every job comes to an end, refused or with all its results written.     *)
Answered == <>(phase = "refused" \/ (Written /\ i = Len(job.requests)))
=============================================================================
