-------------------------------- MODULE Planes --------------------------------
(***************************************************************************)
(* Where the samples of planar YUV images lie (turbojpeg.c), and which     *)
(* rows the functions take from them or put into them.  Planes are         *)
(* numbered from 0, the first one is luminance; rows and columns too.  A   *)
(* plane has whole samples of chrominance at the edges of the image, a     *)
(* component has whole blocks.                                             *)
(***************************************************************************)
EXTENDS Integers, FiniteSetsExt

DCTSIZE == 8

\* The sizes of an MCU for each way of subsampling.
tjMCUWidth == [s444 |-> 8, s422 |-> 16, s420 |-> 16, gray |-> 8, s440 |-> 8, s411 |-> 32]
tjMCUHeight == [s444 |-> 8, s422 |-> 8, s420 |-> 16, gray |-> 8, s440 |-> 16, s411 |-> 8]
Subsamplings == DOMAIN tjMCUWidth

RoundUp(a, b) == (a + b - 1) \div b
PAD(v, p) == RoundUp(v, p) * p

Components(subsamp) == IF subsamp = "gray" THEN {0} ELSE 0 .. 2

\* The sampling factors; those of the first component are the largest.
Factors(i, subsamp) ==
    IF i = 0 THEN [h |-> tjMCUWidth[subsamp] \div 8, v |-> tjMCUHeight[subsamp] \div 8]
    ELSE [h |-> 1, v |-> 1]
Largest(subsamp) == Factors(0, subsamp)

tjPlaneWidth(i, width, subsamp) ==
    (PAD(width, Largest(subsamp).h) * Factors(i, subsamp).h) \div Largest(subsamp).h
tjPlaneHeight(i, height, subsamp) ==
    (PAD(height, Largest(subsamp).v) * Factors(i, subsamp).v) \div Largest(subsamp).v

\* The size of a buffer whose rows begin at multiples of pad.
tjBufSizeYUV2(width, pad, height, subsamp) ==
    LET size(i) == PAD(tjPlaneWidth(i, width, subsamp), pad) * tjPlaneHeight(i, height, subsamp)
    IN  size(0) + (IF subsamp = "gray" THEN 0 ELSE 2 * size(1))

\* The planes in such a buffer: where each one begins, and the distance of its rows.
Layout(width, pad, height, subsamp) ==
    LET stride(i) == PAD(tjPlaneWidth(i, width, subsamp), pad)
        size(i) == stride(i) * tjPlaneHeight(i, height, subsamp)
        start(i) == CASE i = 0 -> 0 [] i = 1 -> size(0) [] i = 2 -> size(0) + size(1)
    IN  [i \in Components(subsamp) |-> [start |-> start(i), stride |-> stride(i)]]

RowAt(layout, i, row) == layout[i].start + row * layout[i].stride

\* A component of an image in the library: its size in blocks.
Blocks(i, width, height, subsamp) ==
    LET f == Factors(i, subsamp)
        l == Largest(subsamp)
    IN  [wide |-> RoundUp(width * f.h, l.h * DCTSIZE),
         high |-> RoundUp(height * f.v, l.v * DCTSIZE)]

\* The rows 0, step, 2 * step, ... below height.
Steps(height, step) == {n * step : n \in 0 .. (height - 1) \div step}

-----------------------------------------------------------------------------
\* The line of the picture that a row of it comes from; the last one is taken for rows below it.
Line(row, height, bottomup) ==
    LET r == IF row < height THEN row ELSE height - 1
    IN  IF bottomup THEN height - 1 - r ELSE r

\* The rows that are written to the planes, each with the lines that it is made of.
tjEncodeYUVPlanes(width, height, layout, subsamp, bottomup) ==
    LET max == Largest(subsamp).v
        written(i, row, j) ==
            LET v == Factors(i, subsamp).v
                lines == {row + j * (max \div v) + e : e \in 0 .. (max \div v) - 1}
            IN  [plane |-> i, row |-> (row * v) \div max + j,
                 at |-> RowAt(layout, i, (row * v) \div max + j),
                 columns |-> tjPlaneWidth(i, width, subsamp),
                 from |-> {Line(l, height, bottomup) : l \in lines}]
    IN  {written(p[1], p[2], p[3]) :
            p \in UNION {{i} \X Steps(PAD(height, max), max) \X (0 .. Factors(i, subsamp).v - 1)
                            : i \in Components(subsamp)}}

\* Each line that is decoded, with the rows of the planes that it comes from.
tjDecodeYUVPlanes(height, layout, subsamp, bottomup) ==
    LET max == Largest(subsamp).v
        above(y) == max * (y \div max)
        row(i, y) == (above(y) * Factors(i, subsamp).v) \div max
                         + ((y - above(y)) * Factors(i, subsamp).v) \div max
    IN  {[line |-> Line(y, height, bottomup),
          from |-> [i \in Components(subsamp) |-> RowAt(layout, i, row(i, y))]]
            : y \in 0 .. height - 1}

\* Whether rows go through a buffer: when a plane and its component, which has blocks of
\* size x size samples, are not of the same size.
UseTmpBuf(width, height, size, blocks, subsamp) ==
    \E i \in Components(subsamp) :
        \/ blocks[i].wide * size # tjPlaneWidth(i, width, subsamp)
        \/ blocks[i].high * size # tjPlaneHeight(i, height, subsamp)

\* The rows that a component is given, from which place each, and how many of its columns are
\* in the plane.  Rows below the plane repeat its last one.
tjCompressFromYUVPlanes(width, height, layout, subsamp) ==
    LET max == Largest(subsamp).v
        blocks == [i \in Components(subsamp) |-> Blocks(i, width, height, subsamp)]
        tmp == UseTmpBuf(width, height, DCTSIZE, blocks, subsamp)
        given(i, row, j) ==
            LET v == Factors(i, subsamp).v
                crow == (row * v) \div max
                left == tjPlaneHeight(i, height, subsamp) - crow
                r == IF tmp /\ j >= left THEN crow + left - 1 ELSE crow + j
            IN  [plane |-> i, row |-> (row \div (max * DCTSIZE)) * v * DCTSIZE + j,
                 at |-> RowAt(layout, i, r),
                 columns |-> IF tmp THEN tjPlaneWidth(i, width, subsamp)
                             ELSE blocks[i].wide * DCTSIZE]
    IN  {g \in {given(p[1], p[2], p[3]) :
                   p \in UNION {{i} \X Steps(height, max * DCTSIZE)
                                    \X (0 .. Factors(i, subsamp).v * DCTSIZE - 1)
                                    : i \in Components(subsamp)}} :
            g.row < blocks[g.plane].high * DCTSIZE}

-----------------------------------------------------------------------------
sf == <<[num |-> 2, denom |-> 1], [num |-> 15, denom |-> 8], [num |-> 7, denom |-> 4],
        [num |-> 13, denom |-> 8], [num |-> 3, denom |-> 2], [num |-> 11, denom |-> 8],
        [num |-> 5, denom |-> 4], [num |-> 9, denom |-> 8], [num |-> 1, denom |-> 1],
        [num |-> 7, denom |-> 8], [num |-> 3, denom |-> 4], [num |-> 5, denom |-> 8],
        [num |-> 1, denom |-> 2], [num |-> 3, denom |-> 8], [num |-> 1, denom |-> 4],
        [num |-> 1, denom |-> 8]>>

TJSCALED(dimension, factor) == RoundUp(dimension * factor.num, factor.denom)

\* The first, and so the largest, factor by which the picture fits; 0 if there is none.
ScaledToFit(width, height, desired) ==
    LET fit == {n \in DOMAIN sf : /\ TJSCALED(width, sf[n]) <= desired.width
                                  /\ TJSCALED(height, sf[n]) <= desired.height}
    IN  IF fit = {} THEN 0 ELSE Min(fit)

\* The size of a picture that is scaled, and that of the blocks it is made of.
jpeg_core_output_dimensions(width, height, factor) ==
    LET k == Min({n \in 1 .. 15 : factor.num * DCTSIZE <= factor.denom * n} \cup {16})
    IN  [size |-> k, width |-> RoundUp(width * k, DCTSIZE), height |-> RoundUp(height * k, DCTSIZE)]

\* The size of the blocks of a component: up to three times that is doubled, as long as the
\* component then has no more samples than the largest one, so that it need not be upsampled.
jpeg_calc_output_dimensions(i, size, subsamp) ==
    LET f == Factors(i, subsamp)
        l == Largest(subsamp)
        doubled(s) == /\ s < DCTSIZE
                      /\ (l.h * size) % (f.h * s * 2) = 0
                      /\ (l.v * size) % (f.v * s * 2) = 0
        twice(s) == IF doubled(s) THEN s * 2 ELSE s
    IN  twice(twice(twice(size)))

\* Mutant of DecodedSize: the blocks keep the size that was calculated.
DecodedSize_AsCalculated(i, size, subsamp) == jpeg_calc_output_dimensions(i, size, subsamp)

\* The size of the blocks that tjDecompressToYUVPlanes() lets the decompressor have.
DecodedSize(i, size, subsamp) ==
    IF subsamp = "s420" THEN size ELSE jpeg_calc_output_dimensions(i, size, subsamp)

\* The rows of the decompressor's components that are put into the planes, and the place of
\* each: straight, or by way of a buffer, of which only what belongs to the plane is taken.
tjDecompressToYUVPlanes(width, height, factor, layout, subsamp) ==
    LET out == jpeg_core_output_dimensions(width, height, factor)
        dctsize == (DCTSIZE * factor.num) \div factor.denom
        max == Largest(subsamp).v
        blocks == [i \in Components(subsamp) |-> Blocks(i, width, height, subsamp)]
        tmp == UseTmpBuf(out.width, out.height, dctsize, blocks, subsamp)
        size(i) == DecodedSize(i, out.size, subsamp)
        moved(i, row, j) ==
            LET v == Factors(i, subsamp).v
                crow == (row * v) \div max
            IN  [plane |-> i, row |-> crow + j, at |-> RowAt(layout, i, crow + j),
                 columns |-> IF tmp THEN tjPlaneWidth(i, out.width, subsamp)
                             ELSE blocks[i].wide * size(i),
                 size |-> size(i), from |-> (row \div (max * out.size)) * v * size(i) + j]
        rows(i) == Factors(i, subsamp).v * (IF tmp THEN dctsize ELSE size(i))
    IN  {m \in {moved(p[1], p[2], p[3]) :
                   p \in UNION {{i} \X Steps(out.height, max * out.size) \X (0 .. rows(i) - 1)
                                    : i \in Components(subsamp)}} :
            IF tmp THEN m.row < tjPlaneHeight(m.plane, out.height, subsamp)
            ELSE m.from < blocks[m.plane].high * size(m.plane)}

=============================================================================
