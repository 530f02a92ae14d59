------------------------------- MODULE Colors -------------------------------
(***************************************************************************)
(* Color conversion: of the application's pixels to the components that    *)
(* are coded (jccolor.c, jccolext.c), of decoded components to pixels      *)
(* (jdcolor.c, jdcolext.c), to pixels of 16 bits (jdcol565.c), and the     *)
(* upsamplers that convert as they expand (jdmerge.c, jdmrgext.c,          *)
(* jdmrg565.c).  A color is a tuple of samples; a row of pixels in memory  *)
(* is a sequence of bytes, or of 16-bit values; planes[c][row] is a row of *)
(* samples of a component.                                                 *)
(***************************************************************************)
EXTENDS Integers, Sequences

MAXJSAMPLE == 255
SCALEBITS  == 16
ONE_HALF   == 32768
CBCR_OFFSET == 128 * 65536

Shifted(x) == x \div 2 ^ SCALEBITS

\* range_limit[], as far as it reaches.
Limited(x) == IF x < 0 THEN 0 ELSE IF x > MAXJSAMPLE THEN MAXJSAMPLE ELSE x

-----------------------------------------------------------------------------
\* The tables of rgb_ycc_start(), applied: a factor is FIX(x), x * 2^16 rounded.
Luminance(r, g, b) == Shifted(19595 * r + 38470 * g + 7471 * b + ONE_HALF)
BlueChroma(r, g, b) ==
    Shifted(-11059 * r - 21709 * g + 32768 * b + CBCR_OFFSET + ONE_HALF - 1)
RedChroma(r, g, b) ==
    Shifted(32768 * r - 27439 * g - 5329 * b + CBCR_OFFSET + ONE_HALF - 1)

YCCofRGB(p) ==
    <<Luminance(p[1], p[2], p[3]), BlueChroma(p[1], p[2], p[3]), RedChroma(p[1], p[2], p[3])>>

\* The tables of build_ycc_rgb_table().
Cr_r(cr) == Shifted(91881 * (cr - 128) + ONE_HALF)
Cb_b(cb) == Shifted(116130 * (cb - 128) + ONE_HALF)
CbCr_g(cb, cr) == Shifted(-22554 * (cb - 128) + ONE_HALF - 46802 * (cr - 128))

\* What the two chroma samples add to red, green and blue.
Tints(cb, cr) == <<Cr_r(cr), CbCr_g(cb, cr), Cb_b(cb)>>
Tinted(y, tints) == <<Limited(y + tints[1]), Limited(y + tints[2]), Limited(y + tints[3])>>
RGBofYCC(p) == Tinted(p[1], Tints(p[2], p[3]))

\* CMYK is the complement of RGB, with K passed through.
YCCKofCMYK(p) ==
    YCCofRGB(<<MAXJSAMPLE - p[1], MAXJSAMPLE - p[2], MAXJSAMPLE - p[3]>>) \o <<p[4]>>
CMYKofYCCK(p) ==
    LET rgb == RGBofYCC(p)
        complement(k) == MAXJSAMPLE - rgb[k]
    IN  <<complement(1), complement(2), complement(3), p[4]>>

\* The color space "to" of a color of the space "from", as jinit_color_converter() and
\* jinit_color_deconverter() choose the method; "none" where they refuse.
Converted(from, to, p) ==
    CASE from = to -> p
      [] from = "RGB" /\ to = "YCbCr" -> YCCofRGB(p)
      [] from = "RGB" /\ to = "gray" -> <<Luminance(p[1], p[2], p[3])>>
      [] from = "YCbCr" /\ to = "gray" -> <<p[1]>>
      [] from = "YCbCr" /\ to = "RGB" -> RGBofYCC(p)
      [] from = "gray" /\ to = "RGB" -> <<p[1], p[1], p[1]>>
      [] from = "CMYK" /\ to = "YCCK" -> YCCKofCMYK(p)
      [] from = "YCCK" /\ to = "CMYK" -> CMYKofYCCK(p)
      [] OTHER -> <<>>

-----------------------------------------------------------------------------
(***************************************************************************)
(* Pixels in memory.  A layout says how many bytes a pixel takes and which *)
(* of them are red, green and blue; what is left over is written 255 and   *)
(* not read.                                                               *)
(***************************************************************************)
Layout == [RGB  |-> [size |-> 3, at |-> <<1, 2, 3>>], BGR  |-> [size |-> 3, at |-> <<3, 2, 1>>],
           RGBX |-> [size |-> 4, at |-> <<1, 2, 3>>], BGRX |-> [size |-> 4, at |-> <<3, 2, 1>>],
           XRGB |-> [size |-> 4, at |-> <<2, 3, 4>>], XBGR |-> [size |-> 4, at |-> <<4, 3, 2>>]]

PixelAt(row, layout, col) ==
    LET l == Layout[layout]
        byte(k) == row[(col - 1) * l.size + l.at[k]]
    IN  <<byte(1), byte(2), byte(3)>>

RowOf(colors, layout) ==
    LET l == Layout[layout]
        byte(i) == LET k == ((i - 1) % l.size) + 1
                       p == colors[(i - 1) \div l.size + 1]
                   IN  IF \E c \in 1 .. 3 : l.at[c] = k THEN p[CHOOSE c \in 1 .. 3 : l.at[c] = k]
                       ELSE MAXJSAMPLE
    IN  [i \in 1 .. l.size * Len(colors) |-> byte(i)] \o <<>>

\* rgb_ycc_convert() and its kin: row after row of pixels into the planes.
ToPlanes(rows, layout, width, to) ==
    LET row(r) == [col \in 1 .. width |-> Converted("RGB", to, PixelAt(rows[r], layout, col))]
        planes == Len(Converted("RGB", to, <<0, 0, 0>>))
    IN  [c \in 1 .. planes |->
            [r \in 1 .. Len(rows) |-> [col \in 1 .. width |-> row(r)[col][c]] \o <<>>]]

\* ycc_rgb_convert() and its kin: the planes' rows into rows of pixels.
ToPixels(planes, from, layout, width) ==
    LET color(r, col) == Converted(from, "RGB", [c \in 1 .. Len(planes) |-> planes[c][r][col]])
    IN  [r \in 1 .. Len(planes[1]) |-> RowOf([col \in 1 .. width |-> color(r, col)], layout)]

-----------------------------------------------------------------------------
(***************************************************************************)
(* Pixels of 16 bits.  With dithering the samples of a pixel are raised by *)
(* what the first byte of d0 says; d0 is a row of the matrix, which is     *)
(* rotated from one pixel of a pair to the next.  The pixel that is        *)
(* written alone because the row is not aligned, and the last one of an    *)
(* odd number, leave d0 as it is.                                          *)
(***************************************************************************)
dither_matrix == <<<<10, 2, 8, 0>>, <<6, 14, 4, 12>>, <<9, 1, 11, 3>>, <<5, 13, 7, 15>>>>
DITHER_ROTATE(d) == Tail(d) \o <<Head(d)>>

\* PACK_SHORT_565(): with the samples put together as a number.
Pack565(p) == (p[1] \div 8) * 2048 + (p[2] \div 4) * 32 + p[3] \div 8

\* The samples before they are limited, and the pixel that is made of them.
Dithered565(p, d, dither) ==
    LET by == IF dither THEN d[1] ELSE 0
    IN  Pack565(<<Limited(p[1] + by), Limited(p[2] + by \div 2), Limited(p[3] + by)>>)

\* The row of the matrix for a scanline.
Dither(scanline) == dither_matrix[(scanline % 4) + 1]

\* Pairs of pixels from column "from" on, and the pixel left over.
Pairs565(colors, from, cols, d, dither) ==
    LET pixel[k \in 0 .. cols] ==
            IF k = 0 THEN [out |-> <<>>, d |-> d]
            ELSE LET e == pixel[k - 1]
                 IN  [out |-> Append(e.out, Dithered565(colors[from + k - 1], e.d, dither)),
                      d |-> IF dither /\ (k < cols \/ cols % 2 = 0) THEN DITHER_ROTATE(e.d)
                            ELSE e.d]
    IN  pixel[cols]

\* ycc_rgb565D_convert_internal() and its kin on num_rows rows: aligned[r] says whether row r
\* begins at a multiple of 4.  num_cols is counted down where it does not, for all the rows
\* that follow.
Convert565(rows, aligned, scanline, dither) ==
    LET width == Len(rows[1])
        row[r \in 0 .. Len(rows)] ==
            IF r = 0 THEN [out |-> <<>>, d |-> Dither(scanline), cols |-> width]
            ELSE LET e == row[r - 1]
                     alone == IF aligned[r] THEN <<>> ELSE <<Dithered565(rows[r][1], e.d, dither)>>
                     cols == e.cols - Len(alone)
                     rest == Pairs565(rows[r], Len(alone) + 1, cols, e.d, dither)
                 IN  [out |-> Append(e.out, alone \o rest.out), d |-> rest.d, cols |-> cols]
    IN  row[Len(rows)].out

-----------------------------------------------------------------------------
(***************************************************************************)
(* Upsampling and conversion at once.  The chroma samples of a pair of     *)
(* columns are converted once; an odd last column has a pair of its own.   *)
(***************************************************************************)
MergedTints(cb, cr, width) ==
    [pair \in 1 .. (width + 1) \div 2 |-> Tints(cb[pair], cr[pair])] \o <<>>

MergedColors(y, tints, width) ==
    LET pairs == width \div 2
        one(col) == Tinted(y[col], tints[(col + 1) \div 2])
    IN  [col \in 1 .. 2 * pairs |-> one(col)]
        \o (IF width % 2 = 1 THEN <<Tinted(y[width], tints[pairs + 1])>> ELSE <<>>)

\* What is still to be limited, for the dithered forms.
MergedSums(y, tints, width) ==
    [col \in 1 .. width |-> LET t == tints[(col + 1) \div 2]
                            IN  <<y[col] + t[1], y[col] + t[2], y[col] + t[3]>>] \o <<>>

h2v1_merged_upsample(y, cb, cr, layout, width) ==
    RowOf(MergedColors(y, MergedTints(cb, cr, width), width), layout)

\* Two rows of luminance share the chroma.
h2v2_merged_upsample(y0, y1, cb, cr, layout, width) ==
    LET tints == MergedTints(cb, cr, width)
        row(y) == RowOf(MergedColors(y, tints, width), layout)
    IN  <<row(y0), row(y1)>>

h2v1_merged_upsample_565(y, cb, cr, width, scanline, dither) ==
    LET sums == MergedSums(y, MergedTints(cb, cr, width), width)
    IN  Pairs565(sums, 1, width, Dither(scanline), dither).out

\* Mutant of h2v2_merged_upsample_565: both rows are dithered as the first.
h2v2_merged_upsample_565_SameLine(y0, y1, cb, cr, width, scanline, dither) ==
    LET tints == MergedTints(cb, cr, width)
        row(y) == Pairs565(MergedSums(y, tints, width), 1, width, Dither(scanline), dither).out
    IN  <<row(y0), row(y1)>>

h2v2_merged_upsample_565(y0, y1, cb, cr, width, scanline, dither) ==
    LET tints == MergedTints(cb, cr, width)
    IN  <<Pairs565(MergedSums(y0, tints, width), 1, width, Dither(scanline), dither).out,
          Pairs565(MergedSums(y1, tints, width), 1, width, Dither(scanline + 1), dither).out>>

=============================================================================
