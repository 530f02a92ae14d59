---------------------------- MODULE Computations ----------------------------
(***************************************************************************)
(* The routines that only compute, each with what its result is to be:     *)
(* transforms and quantization (Dct), color conversion (Colors), dithering *)
(* (ColorQuant), Huffman tables (HuffmanCoding), planar images (Planes),   *)
(* the headers of files and ICC profiles (Headers), image files            *)
(* (ImageFiles), the command lines of programs (Programs), and the methods *)
(* of the Java binding (JavaBinding).                                      *)
(* A behaviour makes one computation, the task, and ends; the task         *)
(* "passes" is to quantize the colors of pictures in one pass after the    *)
(* other (also ColorQuant), and the task "pools" to allocate and free      *)
(* memory (MemPools).                                                      *)
(***************************************************************************)
EXTENDS Integers, Sequences, FiniteSets, SequencesExt, ColorQuant, MemPools

D == INSTANCE Dct
C == INSTANCE Colors
H == INSTANCE HuffmanCoding WITH DCTSIZE2 <- 64, EOBRUN_BITS <- 15, MAX_CORR_BITS <- 1000
P == INSTANCE Planes
I == INSTANCE Headers WITH MAX_DATA_BYTES_IN_MARKER <- 3, MAX_COM_LENGTH <- 6
F == INSTANCE ImageFiles
J == INSTANCE JavaBinding
S == INSTANCE Programs

\* The computations that are made; what one needs is in the fields of the task.
CONSTANT Tasks

VARIABLES task, result
vars == <<task, result, passVars, poolVars>>

None == <<>>

Init ==
    /\ task \in Tasks
    /\ result = None
    /\ PassesInit /\ PoolsInit
    /\ task.kind # "passes" => colormap = <<>>

Starts(kind) == result = None /\ task.kind = kind /\ UNCHANGED <<task, passVars, poolVars>>

-----------------------------------------------------------------------------
\* A block is transformed to n x n samples.
TransformBlock ==
    /\ Starts("inverse")
    /\ result' = D!InverseDCT(task.n, task.block)

\* A block of samples is transformed, quantized, and transformed back.
CodeBlock ==
    /\ Starts("block")
    /\ \E coefs \in {D!forward_DCT(task.method, task.samples, task.quantval)} :
           result' = D!inverse_DCT(task.method, D!DCTSIZE, coefs, task.quantval)

\* Coefficients are divided by a divisor.
DivideBlock ==
    LET divided(x) ==
            LET d == D!compute_reciprocal(task.divisor)
                all(v) == [r \in 1 .. 8 |-> [c \in 1 .. 8 |-> v]]
            IN  D!quantize(all(x), all(d))[1][1]
    IN  /\ Starts("divide")
        /\ result' = [x \in task.dividends |-> divided(x)]

\* Colors are converted to another space and back.
ConvertColors ==
    /\ Starts("color")
    /\ result' = [p \in task.colors |->
                     C!Converted(task.to, task.from, C!Converted(task.from, task.to, p))]

\* A row, or two with the same chroma, are upsampled and converted at once.
UpsampleMerged ==
    /\ Starts("merged")
    /\ LET t == task
           scanline == 2 * t.rowgroup
       IN  result' = [h2v1 |-> C!h2v1_merged_upsample(t.y[1], t.cb, t.cr, t.layout, t.width),
                      h2v2 |-> C!h2v2_merged_upsample(t.y[1], t.y[2], t.cb, t.cr, t.layout,
                                                      t.width),
                      h2v1_565 |-> C!h2v1_merged_upsample_565(t.y[1], t.cb, t.cr, t.width,
                                                              scanline, t.dither),
                      h2v2_565 |-> C!h2v2_merged_upsample_565(t.y[1], t.y[2], t.cb, t.cr, t.width,
                                                              scanline, t.dither)]

\* A picture is put into planes and taken from them again, compressed from them, and
\* decompressed to them at each scale that there is.
LayPlanes ==
    /\ Starts("planes")
    /\ LET t == task
           layout == P!Layout(t.width, t.pad, t.height, t.subsamp)
           desired(f) == [width |-> P!TJSCALED(t.width, P!sf[f]) + t.extra,
                          height |-> P!TJSCALED(t.height, P!sf[f]) + t.extra]
           scaled(f) ==
               LET d == desired(f)
                   found == P!ScaledToFit(t.width, t.height, d)
                   out == P!jpeg_core_output_dimensions(t.width, t.height, P!sf[found])
               IN  [desired |-> d, out |-> out,
                    rows |-> P!tjDecompressToYUVPlanes(t.width, t.height, P!sf[found],
                                 P!Layout(d.width, t.pad, d.height, t.subsamp), t.subsamp)]
       IN  result' =
               [encoded |-> P!tjEncodeYUVPlanes(t.width, t.height, layout, t.subsamp, t.bottomup),
                decoded |-> P!tjDecodeYUVPlanes(t.height, layout, t.subsamp, t.bottomup),
                compressed |-> P!tjCompressFromYUVPlanes(t.width, t.height, layout, t.subsamp),
                decompressed |-> {scaled(f) : f \in t.factors}]

\* A square of one color is quantized to a grid of n levels.
DitherSquare ==
    LET n == <<task.levels>>
        row == [col \in 1 .. 16 |-> <<task.sample>>]
        start == [cache |-> <<>>, out |-> <<>>, on_odd_row |-> FALSE, fserrors |-> Zeros(16, 1)]
        dithered == Through(LAMBDA q, r : quantize_fs_dither(q, n, row), start, 1, 16).out
    IN  /\ Starts("dither")
        /\ result' = IF task.dither = "fs" THEN dithered
                     ELSE [r \in 1 .. 16 |-> OrderedRow(n, row, r - 1)]

\* A table is made of counts, or comes from a file, and both sides derive theirs of it.
DeriveTables ==
    /\ Starts("huffman")
    /\ \E htbl \in {IF task.counts = <<>> THEN task.htbl
                    ELSE H!jpeg_gen_optimal_table(task.counts)} :
           result' = IF htbl.bad THEN [htbl |-> htbl, c |-> htbl, d |-> htbl]
                     ELSE [htbl |-> htbl, c |-> H!jpeg_make_c_derived_tbl(task.isDC, htbl),
                           d |-> H!jpeg_make_d_derived_tbl(task.isDC, htbl)]

\* A profile is written, its markers come in some order, others among them, and it is read.
SendProfile ==
    LET profile == [i \in 1 .. task.length |-> i % 251]
        other == [icc |-> FALSE, seq_no |-> 1, num_markers |-> 1, data |-> <<0>>]
        sent(markers) == [i \in DOMAIN task.order |->
                             IF task.order[i] = 0 THEN other ELSE markers[task.order[i]]]
    IN  /\ Starts("profile")
        /\ \E markers \in {I!jpeg_write_icc_profile(profile)} :
               result' = [profile |-> profile, read |-> I!jpeg_read_icc_profile(sent(markers))]

\* The headers of an image are written, the tables perhaps in a file of their own; other programs
\* have put tables of a kind together or bytes between markers.  A comment is put into the file,
\* and the file and the copy are read, shown, and cut off.
SendHeaders ==
    LET t == task
        tables == I!write_tables_only(I!jinit_marker_writer({}), t.c)
        sent == IF t.abbreviated THEN tables.sent ELSE {}
        known == IF t.abbreviated THEN I!read_markers(FlattenSeq(tables.file), I!NoTables)
                 ELSE I!NoTables
        code(part) == IF Len(part) > 1 /\ part[1] = 255 THEN part[2] ELSE 0
        both(a, b) == I!Segment(code(a), I!WordAt(a, 3) + I!WordAt(b, 3) - 2,
                                SubSeq(a, 5, Len(a)) \o SubSeq(b, 5, Len(b)))
        joins(a, b) == t.together /\ code(a) = code(b) /\ code(a) \in {I!M_DQT, I!M_DHT, I!M_DAC}
        join(parts, part) ==
            LET n == Len(parts)
            IN  IF n > 0 /\ joins(parts[n], part)
                THEN [parts EXCEPT ![n] = both(parts[n], part)] ELSE Append(parts, part)
        before(part) == IF code(part) \in {0, I!M_SOI} THEN <<>> ELSE t.between
        file(parts) == FlattenSeq([k \in DOMAIN parts |-> before(parts[k]) \o parts[k]])
        made(w) == file(Through(LAMBDA all, k : join(all, w.file[k]), <<>>, 1, Len(w.file)))
        all_of(f) ==
            [decoded |-> I!read_markers(f, known), shown |-> I!rdjpgcom(f, t.verbose, t.raw),
             copy |-> I!wrjpgcom(f, t.keep_COM, t.comment, t.from)]
        cuts(f) == {[lost |-> lost, of |-> all_of(SubSeq(f, 1, Len(f) - lost))] :
                       lost \in {n \in t.lost : n < Len(f)}}
    IN  /\ Starts("headers")
        /\ \E w \in {I!WriteImage(t.c, t.comments, sent)} : \E f \in {made(w)} :
               \E whole \in {all_of(f)} :
                   result' = [error |-> w.error, whole |-> whole, cuts |-> cuts(f),
                              copied |-> all_of(whole.copy.out)]

\* A GIF file is written and read: as it is, or as another program has written it, with blocks
\* of another size, with its rows interlaced, and without its end.
CopyGif ==
    LET t == task
        numbers == [r \in DOMAIN t.rows |-> r]
        those(ns) == SelectSeq(numbers, LAMBDA r : (r - 1) % 8 \in ns)
        order == those({0}) \o those({4}) \o those({2, 6}) \o those({1, 3, 5, 7})
        rows == IF t.interlaced THEN [r \in DOMAIN t.rows |-> t.rows[order[r]]] ELSE t.rows
        cut(bytes) == [k \in 1 .. (Len(bytes) + t.packet - 1) \div t.packet |->
                          SubSeq(bytes, (k - 1) * t.packet + 1,
                                 IF k * t.packet < Len(bytes) THEN k * t.packet ELSE Len(bytes))]
        kept(bytes) == SubSeq(bytes, 1, (Len(bytes) * t.kept) \div 4)
        file(written, bytes) ==
            [written EXCEPT !.interlaced = t.interlaced,
                            !.blocks = IF t.packet = 0 THEN @ ELSE cut(kept(bytes))]
    IN  /\ Starts("gif")
        /\ \E written \in {F!WriteGif(t.lzw, t.colors, rows)} :
               \E bytes \in {Through(LAMBDA all, k : all \o written.blocks[k], <<>>,
                                     1, Len(written.blocks))} :
                   result' = [bytes |-> Len(kept(bytes)),
                              rows |-> F!ReadGif(file(written, bytes), Len(t.rows[1]), Len(t.rows))]

\* An image is written to a file and read, each by a program or by the TurboJPEG API.
CopyFile ==
    LET t == task
        load(file) == IF t.by[2] = "tj" THEN F!tjLoadImage(file, t.want, t.bottomup[2])
                      ELSE F!ReadFile(file, t.want)
    IN  /\ Starts("file")
        /\ \E file \in {IF t.by[1] = "tj" THEN F!tjSaveImage(t.image, t.format, t.bottomup[1])
                        ELSE F!WriteFile(t.image, t.format)} :
               result' = load(file)

\* A file of another program is read.
LoadFile ==
    /\ Starts("load")
    /\ result' = F!ReadFile(task.file, task.want)

\* A native method is called; its step number failing fails or leaves an exception quietly.
CallNative ==
    /\ Starts("native")
    /\ result' = J!NativeCall(task.method, task.failing, task.quietly)

\* Arrays are lent to a native method: packed images and planes which it accepts, and of how
\* many bytes the arrays of packed images have to be.
LendArrays ==
    /\ Starts("lent")
    /\ LET t == task
           places == 0 .. 2
       IN  result' =
               [packed |-> [at \in places \X places \X t.pitches |->
                               J!ArraySize(at[1], at[2], t.width, at[3], t.height, t.ps)],
                whole |-> [pitch \in t.pitches |->
                               J!ArraySize_12(t.width, pitch, t.height, t.ps)],
                planes |-> {p \in [i : P!Components(t.subsamp), stride : t.strides,
                                   offset : t.offsets, length : t.lengths] :
                               J!PlaneAccepted(p.i, t.width, p.stride, t.height, t.subsamp,
                                               p.offset, p.length)}]

\* Scans as text, in a style: components apart by spaces, commas, or on lines with comments.
ScanText(scan, style) ==
    LET apart == [spaces |-> " ", commas |-> " , ", lines |-> " # next\n\t"][style]
        list(ns) == FoldLeft(LAMBDA text, n : text \o apart \o ToString(n), ToString(ns[1]),
                             Tail(ns))
        sequential == <<scan.Ss, scan.Se, scan.Ah, scan.Al>> = <<0, 63, 0, 0>>
    IN  list(scan.component_index) \o
        IF sequential THEN "" ELSE " : " \o list(<<scan.Ss, scan.Se, scan.Ah, scan.Al>>)
ScriptText(scans, style) ==
    LET next == IF style = "lines" THEN "\n ; # that was it\n" ELSE ";"
    IN  FoldLeft(LAMBDA text, scan : text \o next \o ScanText(scan, style),
                 ScanText(scans[1], style), Tail(scans))

KeysOf(program) ==
    [cjpeg |-> S!CjpegKeys, djpeg |-> S!DjpegKeys, jpegtran |-> S!JpegtranKeys][program]

\* The words of a switch and its arguments.
WordsOf(asked) ==
    <<[dash |-> TRUE, text |-> asked.switch]>>
    \o [k \in DOMAIN asked.args |-> [dash |-> FALSE, text |-> asked.args[k]]]

\* The tables of every quality.
SetQuality ==
    /\ Starts("quality")
    /\ result' = [q \in task.qualities |->
                     S!jpeg_set_quality(S!jpeg_create_compress, q, task.baseline).quant_tbl]

\* A script for progressive files is made, written as text, and read.
WriteScript ==
    LET c == S!jpeg_simple_progression([S!jpeg_create_compress EXCEPT
                 !.num_components = task.components, !.jpeg_color_space = task.space])
    IN  /\ Starts("script")
        /\ \E made \in {c} :
               result' = [made |-> made,
                          read |-> S!read_scan_script(made, ScriptText(made.scan_info, task.style))]

\* Text is read that is, or is not, a script.
ReadScript ==
    /\ Starts("text")
    /\ result' = S!read_scan_script(S!jpeg_create_compress, task.text)

\* A program finds the keyword of each abbreviation.
FindKeywords ==
    /\ Starts("keywords")
    /\ LET keys == KeysOf(task.program)
       IN  result' = [k \in DOMAIN keys |->
                         [n \in 1 .. Len(keys[k].keyword) |->
                             S!Selected(keys, SubSeq(keys[k].keyword, 1, n)).switch]]

\* A program is run with a command line.
RunProgram ==
    /\ Starts("program")
    /\ LET argv == FlattenSeq([k \in DOMAIN task.asked |-> WordsOf(task.asked[k])])
       IN  \E line \in {S!CommandLine(KeysOf(task.program), argv)} :
              \/ /\ task.program = "cjpeg"
                 /\ \E first \in {S!CjpegFirst(line)} : result' = S!cjpeg(line, first, task.input)
              \/ /\ task.program = "djpeg"
                 /\ \E first \in {S!DjpegFirst(line)} : result' = S!djpeg(line, first, task.input)
              \/ /\ task.program = "jpegtran"
                 /\ \E first \in {S!JpegtranFirst(line)} :
                        result' = S!jpegtran(line, first, task.input)

Next ==
    \/ TransformBlock \/ CodeBlock \/ DivideBlock
    \/ ConvertColors \/ UpsampleMerged \/ LayPlanes
    \/ DitherSquare
    \/ DeriveTables \/ SendProfile \/ SendHeaders \/ CopyGif \/ CopyFile \/ LoadFile
    \/ CallNative \/ LendArrays
    \/ SetQuality \/ WriteScript \/ ReadScript \/ FindKeywords \/ RunProgram
    \/ task.kind = "passes" /\ PassesNext /\ UNCHANGED <<task, result, poolVars>>
    \/ task.kind = "pools" /\ PoolsNext /\ UNCHANGED <<task, result, passVars>>

Spec == Init /\ [][Next]_vars

-----------------------------------------------------------------------------
Done(kind) == result # None /\ task.kind = kind

Near(a, b, e) == a - b \in -e .. e

\* The sum of f(r, c) over the places of a square of n by n.
SumOfSquare(f(_, _), n) ==
    LET next(s, k) == s + f((k \div n) + 1, (k % n) + 1) IN Through(next, 0, 0, n * n - 1)

\* Every inverse transform, whatever its size, gives the samples of the cosine transform, to
\* within 1: with the terms that it leaves out because they are 0 or beyond its size, and with
\* the sums that leave the range of samples.
InverseIsTransform ==
    Done("inverse") =>
        \E true \in {D!TrueInverse(task.n, task.block)} :
            \A r, c \in 1 .. task.n : Near(result[r][c], true[r][c], 1)

\* The cosine transform keeps the sum of squares: so a block comes back with an error whose
\* square is no more than that of coefficients which are each off by half of their quantization
\* step, and a little for rounding, Rounding at each sample.
Rounding(method) == IF method = "islow" THEN 1 ELSE 3
BlockReturns ==
    LET sum(f(_, _)) == SumOfSquare(f, 8)
        square(r, c) == (result[r][c] - task.samples[r][c]) * (result[r][c] - task.samples[r][c])
        step(r, c) == task.quantval[r][c] * task.quantval[r][c]
        root(q) == CHOOSE n \in 0 .. 2100 : n * n <= q /\ q < (n + 1) * (n + 1)
        e == Rounding(task.method)
    IN  Done("block") =>
            LET quantized == sum(step) \div 4
            IN  sum(square) <= quantized + 16 * e * (root(quantized) + 1) + 64 * e * e

\* The reciprocal of a divisor gives the quotient that a division would, rounded, halves away
\* from 0, for every dividend that a DCT gives and every divisor that is not over 16 bits.
QuotientIsExact ==
    Done("divide") =>
        \A x \in task.dividends :
            LET quotient == ((IF x < 0 THEN -x ELSE x) + task.divisor \div 2) \div task.divisor
            IN  result[x] = IF x < 0 THEN -quotient ELSE quotient

\* The transforms and the division give what they are to give.
TransformsHold == InverseIsTransform /\ BlockReturns /\ QuotientIsExact

\* A color that is converted and back is the same to within 1, and a gray is the same.
ColorsReturn ==
    Done("color") =>
        \A p \in task.colors : \A i \in DOMAIN p :
            Near(result[p][i], p[i], IF p[1] = p[2] /\ p[2] = p[3] THEN 0 ELSE 1)

\* Upsampling and conversion at once give what the replication of the chroma samples and the
\* conversion of each pixel give one after the other, at widths that are odd too, in every
\* layout, and with the same dithering.
MergedIsSeparate ==
    Done("merged") =>
        LET t == task
            wide(plane) == [col \in 1 .. t.width |-> plane[(col + 1) \div 2]]
            planes(y) == <<<<y>>, <<wide(t.cb)>>, <<wide(t.cr)>>>>
            pixels(y) == C!ToPixels(planes(y), "YCbCr", t.layout, t.width)[1]
            sums(y) == [col \in 1 .. t.width |->
                           LET tints == C!Tints(wide(t.cb)[col], wide(t.cr)[col])
                           IN  [i \in 1 .. 3 |-> y[col] + tints[i]]]
            shorts(k) ==
                C!Convert565(<<sums(t.y[k])>>, <<TRUE>>, 2 * t.rowgroup + k - 1, t.dither)[1]
        IN  /\ result.h2v1 = pixels(t.y[1])
            /\ result.h2v2 = <<pixels(t.y[1]), pixels(t.y[2])>>
            /\ result.h2v1_565 = shorts(1)
            /\ result.h2v2_565 = <<shorts(1), shorts(2)>>

\* Colors are converted as they are to be, by both ways that there are.
ColorsConverted == ColorsReturn /\ MergedIsSeparate

\* The rows of planes lie in the buffer that their size was calculated for, none over another,
\* and every one is there.  Each line is decoded from rows that were made of it.  What the
\* library is given to compress are the rows of the planes, and below them the last one.  What it
\* decompresses, at any scale, comes to the row where it belongs, as large as was asked for.
PlanesFilled ==
    LET t == task
        fit(rows, size) ==
            LET places == {w.at : w \in rows}
            IN  /\ Cardinality(places) = Cardinality(rows)
                /\ \A w \in rows : /\ places \cap (w.at .. w.at + w.columns - 1) = {w.at}
                                   /\ w.at + w.columns <= size
        of(rows, i) == {w \in rows : w.plane = i}
        numbers(rows, i) == {w.row : w \in of(rows, i)}
        last(i) == P!tjPlaneHeight(i, t.height, t.subsamp) - 1
        shown(n, i, dim) == P!RoundUp(n * P!Factors(i, t.subsamp)[dim], P!Largest(t.subsamp)[dim])
        planes == P!Components(t.subsamp)
    IN  Done("planes") =>
            /\ fit(result.encoded, P!tjBufSizeYUV2(t.width, t.pad, t.height, t.subsamp))
            /\ \A i \in planes : numbers(result.encoded, i) = 0 .. last(i)
            /\ {d.line : d \in result.decoded} = 0 .. t.height - 1
            /\ \A d \in result.decoded : \A i \in planes :
                   \E w \in of(result.encoded, i) : w.at = d.from[i] /\ d.line \in w.from
            /\ \A i \in planes :
                   LET high == P!Blocks(i, t.width, t.height, t.subsamp).high * 8
                   IN  /\ numbers(result.compressed, i) = 0 .. high - 1
                       /\ \A g \in of(result.compressed, i) :
                              \E w \in of(result.encoded, i) :
                                  /\ w.row = IF g.row < last(i) THEN g.row ELSE last(i)
                                  /\ g.at = w.at /\ g.columns = w.columns
            /\ \A s \in result.decompressed :
                   /\ fit(s.rows, P!tjBufSizeYUV2(s.desired.width, t.pad, s.desired.height,
                                                  t.subsamp))
                   /\ s.out.width <= s.desired.width /\ s.out.height <= s.desired.height
                   /\ \A i \in planes : \A r \in 0 .. shown(s.out.height, i, "v") - 1 :
                          \E m \in of(s.rows, i) :
                              /\ <<m.row, m.from, m.size>> = <<r, r, s.out.size>>
                              /\ m.columns >= shown(s.out.width, i, "h")

\* A dithered square is as bright, in the mean, as it was: within a sixteenth of a level's
\* distance and the errors that leave it at its edges.
KeepsBrightness ==
    LET n == task.levels
        shown(r, c) == output_value(result[r][c], n - 1)
    IN  Done("dither") =>
            Near(SumOfSquare(shown, 16), 256 * task.sample, (256 * 255) \div (16 * (n - 1)))

\* Both quantizers choose colors that show the picture: the nearest of the colormap, all that
\* there are if they are few, and in the mean as bright.
ColorsShown == NearestChosen /\ FewColorsKept /\ KeepsBrightness

\* Of a table that is made of counts every symbol counted has a code of up to 16 bits.  Of a
\* table that they accept the encoder and the decoder make the same: the decoder, with 8 bits at
\* hand or bit by bit, finds every symbol behind its code, whatever follows, and takes what no
\* code begins for 0.
CodesDecode ==
    LET t == result
        sizes == H!HuffSizes(t.htbl)
        width(p) == 2 ^ (17 - sizes[p])
        start[p \in 1 .. Len(sizes) + 1] == IF p = 1 THEN 0 ELSE start[p - 1] + width(p - 1)
        found(bits, symbol, length) ==
            \A ahead \in BOOLEAN :
                H!HUFF_DECODE(t.d, bits, ahead) = [symbol |-> symbol, length |-> length]
    IN  Done("huffman") =>
            /\ task.counts # <<>> /\ ~t.htbl.bad =>
                  /\ ~t.c.bad /\ ~t.d.bad
                  /\ {s \in DOMAIN task.counts : task.counts[s] > 0} = DOMAIN t.c.ehufsi
            /\ ~t.c.bad => ~t.d.bad
            /\ ~t.d.bad =>
                  /\ \A p \in 1 .. Len(sizes) : \A bits \in {start[p], start[p + 1] - 1} :
                         found(bits, t.htbl.huffval[p], sizes[p])
                  /\ found(2 ^ 17 - 1, 0, 17)
            /\ ~t.c.bad =>
                  \A p \in 1 .. Len(sizes) :
                      LET s == t.htbl.huffval[p]
                      IN  t.c.ehufsi[s] = sizes[p] /\ t.c.ehufco[s] * width(p) = start[p]

\* A profile comes back if each of its markers is there once, in whatever order, and they are
\* not more than their numbers count; otherwise nothing does.
ProfilesReturn ==
    LET order == SelectSeq(task.order, LAMBDA m : m # 0)
        markers == 1 .. (task.length + 2) \div 3
        complete == /\ Len(order) = Cardinality(markers) /\ Range(order) = markers
                    /\ Cardinality(markers) <= 255
    IN  Done("profile") => result.read = IF complete THEN result.profile ELSE <<>>

\* What a decompressor knows at a scan is what the compressor was told of it.
KnownAsTold(d, c, scan) ==
    LET told(ci) == c.comps[ci]
        known(ci) == d.comps[ci]
        same(ci) == /\ \A field \in {"component_id", "h_samp_factor", "v_samp_factor",
                                    "quant_tbl_no"} : known(ci)[field] = told(ci)[field]
                    /\ d.quant[known(ci).quant_tbl_no] = c.quant[told(ci).quant_tbl_no]
        dc(ci) == IF c.arith_code
                  THEN /\ d.arith_dc_L[known(ci).dc_tbl_no] = c.arith_dc_L[told(ci).dc_tbl_no]
                       /\ d.arith_dc_U[known(ci).dc_tbl_no] = c.arith_dc_U[told(ci).dc_tbl_no]
                  ELSE d.dc[known(ci).dc_tbl_no] = c.dc[told(ci).dc_tbl_no]
        ac(ci) == IF c.arith_code
                  THEN d.arith_ac_K[known(ci).ac_tbl_no] = c.arith_ac_K[told(ci).ac_tbl_no]
                  ELSE d.ac[known(ci).ac_tbl_no] = c.ac[told(ci).ac_tbl_no]
    IN  /\ \A field \in {"image_width", "image_height", "data_precision"} : d[field] = c[field]
        /\ <<d.progressive_mode, d.arith_code>> = <<c.progressive_mode, c.arith_code>>
        /\ Len(d.comps) = Len(c.comps) /\ \A ci \in DOMAIN c.comps : same(ci)
        /\ d.saw_JFIF_marker = c.write_JFIF_header
        /\ d.JFIF = IF c.write_JFIF_header THEN c.JFIF ELSE <<1, 1, 0, 1, 1>>
        /\ d.saw_Adobe_marker = c.write_Adobe_marker
        /\ d.saw_Adobe_marker => d.Adobe_transform = I!Transform(c.jpeg_color_space)
        /\ d.cur_comp_info = scan.cur_comp_info
        /\ \A field \in {"Ss", "Se", "Ah", "Al", "restart_interval"} : d[field] = scan[field]
        /\ \A ci \in Range(scan.cur_comp_info) :
               (I!UsesDC(scan) => dc(ci)) /\ (I!UsesAC(scan) => ac(ci))

\* Every header that can be written is read as it was meant, scan by scan, whatever other
\* programs have made of it, and also after a comment has been put in; the comments are shown
\* that are to be there, in readable characters if so wanted.  Of a file whose end is missing a
\* decompressor knows what it knows of the whole, as far as it goes, and the programs fail or do
\* what they do with the whole.
HeadersReturn ==
    LET t == task
        c == t.c
        lacks(scan, ci) == /\ ~c.arith_code
                           /\ \/ I!UsesDC(scan) /\ c.dc[c.comps[ci].dc_tbl_no] = I!NoTable
                              \/ I!UsesAC(scan) /\ c.ac[c.comps[ci].ac_tbl_no] = I!NoTable
        refused == \/ c.image_width > 65535 \/ c.image_height > 65535
                   \/ \E ci \in DOMAIN c.comps : c.quant[c.comps[ci].quant_tbl_no] = I!NoTable
                   \/ \E s \in DOMAIN c.scans : \E ci \in Range(c.scans[s].cur_comp_info) :
                          lacks(c.scans[s], ci)
        returns(d) == /\ d.state = "EOI" /\ Len(d.scans) = Len(c.scans)
                      /\ \A s \in DOMAIN c.scans : KnownAsTold(d.scans[s], c, c.scans[s])
        those(out, what) == SelectSeq(out, LAMBDA line : line.what = what)
        shows(e, comments) ==
            LET lines == those(e.out, "COM")
            IN  /\ e.state = "done" /\ Len(lines) = Len(comments)
                /\ \A k \in DOMAIN lines :
                       IF t.raw THEN lines[k].text = Append(comments[k], 10)
                       ELSE \A i \in DOMAIN lines[k].text :
                                I!isprint(lines[k].text[i]) \/ lines[k].text[i] = 10
                /\ [k \in DOMAIN those(e.out, "sizes") |->
                       SubSeq(those(e.out, "sizes")[k].text, 1, 4)] =
                       IF t.verbose
                       THEN <<<<c.image_width, c.image_height, Len(c.comps), c.data_precision>>>>
                       ELSE <<>>
        kept == IF t.keep_COM THEN t.comments ELSE <<>>
        too_long == Len(t.comment) > IF t.from = "argument" THEN 5 ELSE 6
        whole == result.whole
        part(cut) == cut.of
    IN  Done("headers") =>
            /\ result.error = refused
            /\ ~refused =>
                  /\ returns(whole.decoded) /\ shows(whole.shown, t.comments)
                  /\ (whole.copy.state = "error") = too_long
                  /\ ~too_long =>
                        /\ returns(result.copied.decoded)
                        /\ shows(result.copied.shown,
                                 kept \o IF t.comment = <<>> THEN <<>> ELSE <<t.comment>>)
                  /\ \A cut \in result.cuts :
                         /\ part(cut).decoded.state = "suspended"
                         /\ IsPrefix(part(cut).decoded.scans, whole.decoded.scans)
                         /\ part(cut).shown.state = "done" => part(cut).shown.out = whole.shown.out
                         /\ part(cut).copy.state = "done" =>
                                part(cut).copy.out = SubSeq(whole.copy.out, 1,
                                                            Len(whole.copy.out) - cut.lost)

\* The picture of a GIF file comes back: of all colors, sizes of blocks, orders of rows, and with
\* the symbols forgotten on the way.  Of a file without an end all of its whole codes do, and
\* what follows is the first color.
GifsReturn ==
    LET t == task
        width == Len(t.rows[1])
        gray == \A i \in DOMAIN t.colors : Len(t.colors[i]) = 1 \/ F!IsGray(t.colors[i])
        color(c) == IF t.colors = <<>> THEN <<c>>
                    ELSE IF gray THEN <<t.colors[c + 1][1]>> ELSE t.colors[c + 1]
        size == width * Len(t.rows)
        at(rows, i) == rows[((i - 1) \div width) + 1][((i - 1) % width) + 1]
        right == {i \in 1 .. size : at(result.rows, i) = color(at(t.rows, i))}
        lost == {i \in 1 .. size : at(result.rows, i) # color(0)}
    IN  Done("gif") =>
            IF t.kept = 4 THEN right = 1 .. size
            ELSE \E n \in 0 .. size :
                     /\ n >= (8 * result.bytes) \div 12 - 2
                     /\ 1 .. n \subseteq right /\ lost \subseteq 1 .. n

\* The color that is shown by a pixel.
ShownBy(sp, p) ==
    IF sp = "gray" THEN F!Gray(p[1]) ELSE IF sp = "cmyk" THEN F!cmyk_to_rgb(p) ELSE p

\* The image of a file comes back, its first row above: whoever has written and read it, from
\* and to memory that begins above or below, and in the space in which it is wanted, unless that
\* is gray and the colors are not.  The samples of a file of another program become those of 8
\* bits that are nearest to them.
FilesReturn ==
    LET t == task
        upright(rows, bottomup) == IF bottomup THEN Reverse(rows) ELSE rows
        color(p) == IF t.image.colormap # <<>> THEN t.image.colormap[p[1] + 1] ELSE p
        original(p) == ShownBy(t.image.space, color(p))
        nearest(s, v) == 2 * Absolute(s * t.maxval - v * 255) <= t.maxval
        too_large == \E r \in DOMAIN t.pixels : \E col \in DOMAIN t.pixels[r] :
                         \E i \in 1 .. 3 : t.pixels[r][col][i] > t.maxval
    IN  /\ Done("file") =>
              IF t.want = "gray" /\ t.image.space # "gray" /\ t.format # "targa"
              THEN result.space = "refused"
              ELSE LET from == upright(t.image.rows, t.by[1] = "tj" /\ t.bottomup[1])
                       to == upright(result.rows, t.by[2] = "tj" /\ t.bottomup[2])
                   IN  \A r \in DOMAIN from : \A col \in DOMAIN from[r] :
                           ShownBy(result.space, to[r][col]) = original(from[r][col])
        /\ Done("load") =>
              IF too_large THEN result.space = "refused"
              ELSE \A r \in DOMAIN t.pixels : \A col \in DOMAIN t.pixels[r] : \A i \in 1 .. 3 :
                       nearest(ShownBy(result.space, result.rows[r][col])[i], t.pixels[r][col][i])

\* Whatever fails in a native method, it returns with no array of the virtual machine in its
\* hands, each given back once, and no function of the virtual machine is called while there is
\* one, save by a custom filter.  What fails leaves an exception, save the taking of an array.
\* No memory is lost but the parameters of a transform, and a handle that no field is found for;
\* and pointers that were never set are given back only when memory ran out before they were.
NativeCallsReturn ==
    LET steps == task.method.steps
        failing == IF task.failing = 0 THEN J!Release ELSE steps[task.failing]
        calls_back == J!CallBack \in Range(steps)
    IN  Done("native") =>
            /\ result.held = {} /\ ~result.twice
            /\ result.critical => calls_back
            /\ result.left => result.thrown \/ failing.does = "take"
            /\ task.failing # 0 => result.left \/ result.thrown
            /\ result.wild =>
                  failing \in {J!Allocate(b) : b \in {"dstSizes", "t", "params"}}
            /\ "params" \in result.heap => J!Allocate("params") \in Range(steps)
            /\ "handle" \in result.heap => failing = J!Calls
            /\ result.heap \subseteq {"params", "handle"}

\* The rows of the images and planes that are accepted lie within their arrays.
ArraysLargeEnough ==
    LET t == task
        end(x, y, pitch) ==
            (y + t.height - 1) * J!ActualPitch(t.width, pitch, t.ps) + (x + t.width) * t.ps
    IN  Done("lent") =>
            /\ \A at \in DOMAIN result.packed :
                   \A r \in 0 .. t.height - 1 :
                       LET pitch == J!ActualPitch(t.width, at[3], t.ps)
                       IN  (at[2] + r) * pitch + (at[1] + t.width) * t.ps <= result.packed[at]
            /\ \A pitch \in t.pitches : end(0, 0, pitch) <= result.whole[pitch]
            /\ \A p \in result.planes :
                   LET distance == IF p.stride = 0 THEN P!tjPlaneWidth(p.i, t.width, t.subsamp)
                                   ELSE p.stride
                   IN  \A r \in 0 .. P!tjPlaneHeight(p.i, t.height, t.subsamp) - 1 :
                           LET row == p.offset + r * distance
                           IN  /\ row >= 0
                               /\ row + P!tjPlaneWidth(p.i, t.width, t.subsamp) <= p.length

\* The tables of a better quality have no larger numbers, those of quality 50 are the ones of the
\* standard, and of 100 all 1; every number fits where it is to go.
QualityOrdersTables ==
    LET std == [t \in 0 .. 1 |-> IF t = 0 THEN S!std_luminance_quant_tbl
                                 ELSE S!std_chrominance_quant_tbl]
        most == IF task.baseline THEN 255 ELSE 32767
    IN  Done("quality") =>
            \A t \in 0 .. 1 : \A i \in 1 .. 64 :
                LET at(q) == result[q][t][i]
                IN  /\ \A q \in task.qualities :
                           /\ at(q) \in 1 .. most
                           /\ q + 1 \in task.qualities => at(q + 1) <= at(q)
                           /\ q <= 1 => at(q) = at(1)
                           /\ q >= 100 => at(q) = 1
                    /\ at(50) = std[t][i]

\* The scans of a script send every bit of every coefficient of every component once, from the
\* highest on, the DC coefficient's before any of the others; as many scans are made as there was
\* space for.  The script is the same when it is written as text and read; and text that is no
\* script is refused.
ScriptsComplete ==
    LET scans == result.made.scan_info
        those(ci, k) == SelectSeq(scans, LAMBDA s : /\ ci \in Range(s.component_index)
                                                    /\ k \in s.Ss .. s.Se)
        complete(ss) == /\ ss # <<>> /\ ss[1].Ah = 0 /\ ss[Len(ss)].Al = 0
                        /\ \A j \in 2 .. Len(ss) : /\ ss[j].Ah = ss[j - 1].Al
                                                   /\ ss[j].Al = ss[j].Ah - 1
        legal(s) == /\ Len(s.component_index) <= 4
                    /\ Len(s.component_index) > 1 \/ s.Ss = 0 => s.Se = 0
    IN  /\ Done("script") =>
              /\ Len(scans) = result.made.num_scans
              /\ Len(scans) <= result.made.script_space_size
              /\ \A ci \in 0 .. task.components - 1 : \A k \in 0 .. 63 : complete(those(ci, k))
              /\ \A j \in DOMAIN scans :
                     /\ legal(scans[j])
                     /\ \A ci \in Range(scans[j].component_index) : scans[j].Ss > 0 =>
                            \E i \in 1 .. j - 1 : ci \in Range(scans[i].component_index)
                                                  /\ scans[i].Ss = 0
              /\ result.read = [ok |-> TRUE, c |-> result.made]
        /\ Done("text") =>
              IF task.scans = <<>> THEN ~result.ok
              ELSE result.ok /\ result.c.scan_info = task.scans

\* A keyword selects its switch, and so does each of its abbreviations that is long enough, save
\* -rg and -rgb of djpeg, which are short for two keywords.
KeywordsFound ==
    LET keys == KeysOf(task.program)
    IN  Done("keywords") =>
            \A k \in DOMAIN keys : \A n \in keys[k].minchars .. Len(keys[k].keyword) :
                \/ result[k][n] = keys[k].switch
                \/ keys[k].switch = "rgb565" /\ n <= 3 /\ result[k][n] = "rgb"

\* What a command line asks for, in whatever order: the arguments of a switch, the last of them,
\* and the last of several switches that exclude each other.
Asked(switches) == SelectSeq(task.asked, LAMBDA a : a.switch \in switches)
Given(switch) == Asked({switch}) # <<>>
LastOf(switches) == LET those == Asked(switches) IN those[Len(those)]
Argument(switch) == LastOf({switch}).args[1]
Nth(vals, n) == vals[IF n <= Len(vals) THEN n ELSE Len(vals)]

\* The number that is nearest to b * percent / 100 of those from 1 to most.
Nearest(x, b, percent, most) ==
    /\ x \in 1 .. most
    /\ 2 * (b * percent - 100 * x) < 100 \/ x = most
    /\ 2 * (100 * x - b * percent) <= 100 \/ x = 1

\* The scans that are asked for of a file in a color space.
ScansAsked(colorspace, input_components) ==
    LET c == [S!jpeg_create_compress EXCEPT
                  !.jpeg_color_space = colorspace,
                  !.num_components = Len(S!ComponentsOf(colorspace, input_components))]
    IN  IF Given("scans") THEN task.scans
        ELSE IF Given("progressive") THEN S!jpeg_simple_progression(c).scan_info ELSE <<>>

RestartsAsAsked(c) ==
    Given("restart") =>
        LET arg == Argument("restart")
        IN  IF arg.suffix = "B" THEN c.restart_interval = arg.n /\ c.restart_in_rows = 0
            ELSE c.restart_in_rows = arg.n

CjpegAsAsked ==
    LET c == result.s.c
        quality == IF Given("quality") THEN Argument("quality").vals ELSE <<>>
        factor(t, otherwise) ==
            IF quality = <<>> THEN otherwise ELSE S!jpeg_quality_scaling(Nth(quality, t + 1))
        most == IF Given("baseline") THEN 255 ELSE 32767
        basic(t) == IF t = 0 THEN S!std_luminance_quant_tbl ELSE S!std_chrominance_quant_tbl
        table(t) ==
            IF Given("qtables") /\ t < Len(task.tables)
            THEN \A i \in 1 .. 64 :
                     Nearest(c.quant_tbl[t][i], task.tables[t + 1][i], factor(t, 100), most)
            ELSE IF t > 1 THEN c.quant_tbl[t] = <<>>
            ELSE \A i \in 1 .. 64 : Nearest(c.quant_tbl[t][i], basic(t)[i], factor(t, 50), most)
        spaces == {"grayscale", "rgb"}
        colorspace ==
            IF Asked(spaces) # <<>>
            THEN IF LastOf(spaces).switch = "rgb" THEN "RGB" ELSE "gray"
            ELSE IF task.input.space = "RGB" THEN "YCbCr" ELSE task.input.space
        comps == S!ComponentsOf(colorspace, task.input.components)
        slot(ci) == IF Given("qslots") THEN Nth(Argument("qslots").vals, ci)
                    ELSE comps[ci].quant_tbl_no
        sampled(ci) ==
            IF ~Given("sample") THEN <<comps[ci].h_samp_factor, comps[ci].v_samp_factor>>
            ELSE IF ci <= Len(Argument("sample").vals) THEN Argument("sample").vals[ci]
            ELSE <<1, 1>>
        dct == S!Selected(S!DctKeys, IF Given("dct") THEN Argument("dct") ELSE "int").switch
    IN  /\ \A t \in S!Tables : table(t)
        /\ c.jpeg_color_space = colorspace /\ c.num_components = Len(comps)
        /\ \A ci \in DOMAIN comps :
               LET comp == c.comp_info[ci]
               IN  /\ comp.component_id = comps[ci].component_id
                   /\ comp.quant_tbl_no = slot(ci)
                   /\ <<comp.h_samp_factor, comp.v_samp_factor>> = sampled(ci)
        /\ c.scan_info = ScansAsked(colorspace, task.input.components)
        /\ RestartsAsAsked(c)
        /\ c.arith_code = Given("arithmetic") /\ c.optimize_coding = Given("optimize")
        /\ c.dct_method = dct
        /\ c.smoothing_factor = IF Given("smooth") THEN Argument("smooth").n ELSE 0
        /\ c.trace_level = Len(Asked({"debug"}))

DjpegAsAsked ==
    LET s == result.s
        c == s.c
        formats == {"bmp", "gif", "gif0", "os2", "ppm", "targa"}
        spaces == {"grayscale", "rgb", "rgb565"}
        shown(switch) == [grayscale |-> "gray", rgb |-> "RGB", rgb565 |-> "RGB565"][switch]
        of(switch, keys, fast, otherwise) ==
            LET those == Asked({switch, "fast"})
            IN  IF those = <<>> THEN otherwise
                ELSE IF those[Len(those)].switch = "fast" THEN fast
                ELSE S!Selected(keys, those[Len(those)].args[1]).switch
        scale == IF Given("scale") THEN Argument("scale").of ELSE <<1, 1>>
        high == CHOOSE n \in 0 .. 1000 : /\ n * scale[2] >= task.input.height * scale[1]
                                         /\ (n - 1) * scale[2] < task.input.height * scale[1]
        wide == CHOOSE n \in 0 .. 1000 : /\ n * scale[2] >= task.input.width * scale[1]
                                         /\ (n - 1) * scale[2] < task.input.width * scale[1]
        part == IF Given("skip") THEN Argument("skip") ELSE Argument("crop")
        within == IF Given("skip") THEN part.end < high
                  ELSE Given("crop") =>
                           part.y + part.height <= high /\ part.x + part.width <= wide
        wanted(r) == IF Given("skip") THEN r \notin part.start .. part.end
                     ELSE Given("crop") => r \in part.y .. part.y + part.height - 1
        refused == \/ ~within
                   \/ /\ Given("maxscans") /\ ~Given("debug") /\ Argument("maxscans").n # 0
                      /\ task.input.scans > Argument("maxscans").n
                   \/ Given("strict") /\ task.input.warns
        colors == Argument("map").colors
        map == c.colormap
    IN  /\ result.failed = refused
        /\ ~refused =>
              /\ result.image.rows = SelectSeq([k \in 1 .. high |-> k - 1], wanted)
              /\ result.image.header = Len(result.image.rows)
        /\ s.requested_fmt = IF Asked(formats) = <<>> THEN "ppm" ELSE LastOf(formats).switch
        /\ c.out_color_space = IF Asked(spaces) = <<>> THEN task.input.out_color_space
                               ELSE shown(LastOf(spaces).switch)
        /\ c.dct_method = of("dct", S!DctKeys, "ifast", "islow")
        /\ c.dither_mode = of("dither", S!DitherKeys, "ordered", "fs")
        /\ c.two_pass_quantize = (Asked({"fast", "onepass"}) = <<>>)
        /\ c.do_fancy_upsampling = (Asked({"fast", "nosmooth"}) = <<>>)
        /\ c.quantize_colors = (Asked({"colors", "map"}) # <<>>)
        /\ ~Given("map") =>
              c.desired_number_of_colors = IF Given("colors") THEN Argument("colors").n
                                           ELSE IF Given("fast") THEN 216 ELSE 256
        /\ Given("map") => /\ Range(map) = Range(colors)
                           /\ Len(map) = Cardinality(Range(map))
        /\ c.scale = scale
        /\ c.saves_icc = Given("icc")

JpegtranAsAsked ==
    LET s == result.s
        asked(a) == CASE a.switch = "flip" -> S!Selected(S!FlipKeys, a.args[1]).switch
                      [] a.switch = "rotate" -> S!Selected(S!RotateKeys, a.args[1]).switch
                      [] OTHER -> a.switch
        transforms == {asked(a) : a \in Range(Asked({"flip", "rotate", "transpose", "transverse",
                                                     "drop", "wipe"}))}
        regions == Asked({"crop", "drop", "wipe"})
        copy == IF Given("copy") THEN Argument("copy") ELSE "comments"
        kinds == [none |-> {}, comments |-> {"COM"}, icc |-> {"APP2"},
                  all |-> {"COM", "APP2", "APPn"}][copy]
        colorspace == IF Given("grayscale") THEN "gray" ELSE task.input.space
        refused == \/ Given("grayscale") /\ task.input.space \notin {"YCbCr", "gray"}
                   \/ /\ Given("maxscans") /\ ~Given("debug") /\ Argument("maxscans").n # 0
                      /\ task.input.scans > Argument("maxscans").n
                   \/ Given("strict") /\ task.input.warns
                   \/ Given("icc") /\ Argument("icc") = "missing"
        same == {"transform", "perfect", "trim", "force_grayscale", "region", "copyoption",
                 "icc_filename", "outfilename", "dropfilename"}
    IN  IF Cardinality(transforms) > 1 \/ Len(regions) > 1 THEN result.usage
        ELSE /\ result.failed = refused
             /\ s.transform \in (IF transforms = {} THEN {"none"} ELSE transforms)
             /\ s.region.crop = (regions # <<>>)
             /\ regions # <<>> => s.region = task.region
             /\ s.perfect = Given("perfect") /\ s.trim = Given("trim")
             /\ s.force_grayscale = Given("grayscale")
             /\ \A field \in same : s[field] = result.first[field]
             /\ ~refused =>
                   /\ result.markers = (kinds \cap task.input.markers)
                                       \ (IF Given("icc") THEN {"APP2"} ELSE {})
                   /\ s.c.jpeg_color_space = colorspace
                   /\ s.c.scan_info = ScansAsked(colorspace, task.input.components)
                   /\ s.c.arith_code = Given("arithmetic")
                   /\ s.c.optimize_coding = Given("optimize")
                   /\ RestartsAsAsked(s.c)

\* A program does what the switches of its command line ask for, whatever their order, save that
\* the last counts of those that exclude each other: the parameters that come of reading the line
\* twice, before the file is known and after, are those that were meant for this file, with
\* nothing left of the first time.  What is no argument, or too much, is complained of.
CommandsObeyed ==
    Done("program") =>
        IF task.wrong THEN result.usage
        ELSE /\ task.program # "jpegtran" => ~result.usage
             /\ CASE task.program = "cjpeg" -> CjpegAsAsked
                  [] task.program = "djpeg" -> DjpegAsAsked
                  [] task.program = "jpegtran" -> JpegtranAsAsked

\* What is coded comes back: symbols, profiles, pictures; and what is lent, or asked for.
DataReturn ==
    CodesDecode /\ ProfilesReturn /\ HeadersReturn /\ GifsReturn /\ FilesReturn /\ NativeCallsReturn
    /\ ArraysLargeEnough /\ QualityOrdersTables /\ ScriptsComplete /\ KeywordsFound
    /\ CommandsObeyed

=============================================================================
