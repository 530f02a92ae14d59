--------------------------- MODULE MCComputations ---------------------------
(***************************************************************************)
(* The computations that are made: inputs at the ends of their ranges, of  *)
(* every size and layout, and some that are as good as any.                *)
(***************************************************************************)
EXTENDS Computations

\* Numbers of 0 .. n - 1 without an evident order.
Jumble(seed, n) == ((seed * seed + 977 * seed + 13 * (seed % 7)) % 1009) % n

PixelOf(k) == <<(k * 37) % 256, (k * 91 + 20) % 256, (k * 53) % 256>>

Square8(f(_, _)) == [r \in 1 .. 8 |-> [c \in 1 .. 8 |-> f(r - 1, c - 1)]]

-----------------------------------------------------------------------------
\* Coefficients: flat blocks, one column, one row, few terms, many, and sums far out of range.
Flat(dc) == Square8(LAMBDA r, c : IF r = 0 /\ c = 0 THEN dc ELSE 0)
OneColumn == Square8(LAMBDA r, c : IF c = 0 THEN 90 - 40 * r ELSE 0)
OneRow == Square8(LAMBDA r, c : IF r = 0 THEN 33 * c - 120 ELSE 0)
OneTerm(u, v) == Square8(LAMBDA r, c : IF <<r, c>> = <<u, v>> THEN 300 ELSE 0)
Many(seed, n) ==
    Square8(LAMBDA r, c : (Jumble(seed + 8 * r + c, n) - n \div 2) \div (1 + (r + c) \div 3))
Far == Square8(LAMBDA r, c : IF r + c < 2 THEN 900 ELSE 0)

CoefBlocks ==
    {Flat(1016), Flat(-5), OneColumn, OneRow, OneTerm(7, 7), OneTerm(4, 4), OneTerm(0, 4),
     Many(3, 200), Many(5, 500), Far}
InverseTasks == [kind : {"inverse"}, n : 1 .. 16, block : CoefBlocks]

-----------------------------------------------------------------------------
Samples == {Square8(LAMBDA r, c : IF c > 3 THEN 255 ELSE 0),
            Square8(LAMBDA r, c : IF (r + c) % 2 = 0 THEN 255 ELSE 0),
            Square8(LAMBDA r, c : 16 * r + 15 * c),
            Square8(LAMBDA r, c : Jumble(40 + 8 * r + c, 256))}

\* Quantization steps: none, those of a usual table, and the largest of a baseline file.
QuantSteps(method) ==
    {Square8(LAMBDA r, c : 10 + 6 * (r + c)), Square8(LAMBDA r, c : 255)}
    \cup (IF method = "islow" THEN {Square8(LAMBDA r, c : 1)} ELSE {})
BlockTasks ==
    UNION {[kind : {"block"}, method : {m}, samples : Samples, quantval : QuantSteps(m)]
              : m \in {"islow", "ifast"}}

\* Dividends at the multiples of a divisor, halfway between them, and beside both.
Dividends(d) ==
    {s * (k * d + j + e) : s \in {-1, 1}, k \in {0, 1, 2, 3, 32768 \div d}, j \in {0, d \div 2},
                           e \in -1 .. 1} \cap -32767 .. 32767
DivideTasks ==
    {[kind |-> "divide", divisor |-> d, dividends |-> Dividends(d)]
        : d \in 1 .. 40 \cup {k * 8 : k \in 6 .. 255} \cup {1021, 4095, 4096, 4097, 16383, 32767}}

-----------------------------------------------------------------------------
Lattice == {0, 1, 37, 96, 128, 180, 254, 255}
ColorTasks ==
    {[kind |-> "color", from |-> "RGB", to |-> "YCbCr", colors |-> {<<r, g, b>> : g, b \in Lattice}]
        : r \in Lattice}
    \cup {[kind |-> "color", from |-> "CMYK", to |-> "YCCK",
           colors |-> {<<c, m, y, 9>> : m, y \in Lattice}] : c \in Lattice}

MergedTask(width, layout, rowgroup, dither) ==
    [kind |-> "merged", width |-> width, layout |-> layout, rowgroup |-> rowgroup,
     dither |-> dither,
     y |-> [k \in 1 .. 2 |-> [col \in 1 .. width |-> Jumble(90 * k + 11 * col + width, 256)]],
     cb |-> [col \in 1 .. (width + 1) \div 2 |-> Jumble(7 * col + width, 256)],
     cr |-> [col \in 1 .. (width + 1) \div 2 |-> Jumble(31 * col + 2 * width, 256)]]
MergedTasks ==
    {MergedTask(w, l, g, d) : w \in {1, 2, 5, 8}, l \in DOMAIN C!Layout, g \in 0 .. 1,
                              d \in BOOLEAN}

\* Pictures smaller than a block, of whole blocks and of one sample more, at every scale and
\* with buffers that are just as large as the scaled picture or a little larger.
PlaneTasks ==
    {[kind |-> "planes", width |-> w, height |-> h, subsamp |-> s, pad |-> IF x = 1 THEN 4 ELSE 1,
      bottomup |-> x = 1, extra |-> x, factors |-> f] :
        w \in {1, 8, 16, 17}, h \in {1, 8, 9, 15, 16, 33}, s \in P!Subsamplings, x \in 0 .. 1,
        f \in {1 .. 8, 9 .. 16}}

DitherTasks ==
    [kind : {"dither"}, levels : {2, 3, 6, 9}, sample : {0, 20, 77, 128, 200, 255},
     dither : {"fs", "ordered"}]

-----------------------------------------------------------------------------
\* Counts: equal ones, those of a usual picture, and powers of 2, of which codes become longer
\* than 16 bits, and than 32.
Counts(n, f(_)) == [s \in 0 .. n - 1 |-> f(s)]
AllCounts == {Counts(1, LAMBDA s : 7), Counts(2, LAMBDA s : 1), Counts(16, LAMBDA s : 5),
              Counts(12, LAMBDA s : (s * s * s) % 31), Counts(20, LAMBDA s : 2 ^ s),
              Counts(30, LAMBDA s : 2 ^ (s % 15) + 2 ^ (s % 4)), Counts(28, LAMBDA s : 2 ^ s)}

\* Tables of a file: good ones, with and without room, with a symbol twice, and bad ones.
Table(bits, vals) ==
    [bad |-> FALSE, bits |-> bits \o [i \in 1 .. 16 - Len(bits) |-> 0], huffval |-> vals]
Tables == {Table(<<0, 1, 5, 1, 1, 1, 1, 1, 1>>, <<0, 1, 2, 3, 4, 5, 6, 7, 8, 9, 10, 11>>),
           Table(<<0, 2, 1, 3, 3, 0, 0, 0, 0, 1, 0, 0, 0, 0, 0, 2>>,
                 <<1, 2, 3, 0, 4, 17, 5, 18, 33, 49, 65, 6>>),
           Table(<<1, 1>>, <<3, 3>>), Table(<<2>>, <<1, 2>>),
           Table(<<0, 0, 8>>, <<1, 2, 3, 4, 5, 6, 7, 8>>),
           Table(<<0, 0, 0, 0, 0, 0, 0, 0, 0, 0, 0, 0, 0, 0, 0, 2>>, <<1, 2>>)}
HuffmanTasks ==
    [kind : {"huffman"}, isDC : {FALSE}, counts : AllCounts, htbl : {<<>>}]
    \cup [kind : {"huffman"}, isDC : BOOLEAN, counts : {<<>>}, htbl : Tables]

-----------------------------------------------------------------------------
\* Profiles of up to as many markers as can be numbered and of more, that come in order, turned
\* around, in between others, with one twice, and with one missing.
Straight(n) == [i \in 1 .. n |-> i]
Arrangements(n) ==
    {Straight(n), Reverse(Straight(n)), <<0>> \o Straight(n) \o <<0>>, Append(Straight(n), 1),
     Straight(n - 1), Tail(Straight(n))}
ProfileTasks ==
    UNION {[kind : {"profile"}, length : {l}, order : Arrangements((l + 2) \div 3)]
              : l \in {1, 3, 4, 9, 20, 762, 765, 766, 768, 771, 1539}}

-----------------------------------------------------------------------------
\* Headers: of one component and of three, in one scan and in several, with the tables and the
\* restart intervals that change between them; of components that have one id; of too large
\* an image, and one without a table.
Quant(k) == [i \in 1 .. 64 |-> (i * k) % 256]
Huff(k) == [bits |-> [i \in 1 .. 16 |-> IF i \in {2, 3} THEN i - 1 ELSE 0],
            huffval |-> <<k, k + 1, 255>>]
ArithValues(a, b) == [i \in 0 .. 15 |-> IF i % 2 = 0 THEN a ELSE b]
Comp(id, h, tbl) == [component_id |-> id, h_samp_factor |-> h, v_samp_factor |-> 1,
                     quant_tbl_no |-> tbl, dc_tbl_no |-> tbl, ac_tbl_no |-> tbl]
Scan(cis, Ss, Se, Ah, Al, interval) ==
    [cur_comp_info |-> cis, Ss |-> Ss, Se |-> Se, Ah |-> Ah, Al |-> Al,
     restart_interval |-> interval, data |-> <<1, 255, 0, 255, 208, 9, 254>>]

Gray == [comps |-> <<Comp(1, 1, 0)>>, progressive_mode |-> FALSE, space |-> "gray",
         scans |-> <<Scan(<<1>>, 0, 63, 0, 0, 0)>>]
Together == [comps |-> <<Comp(1, 2, 0), Comp(2, 1, 1), Comp(3, 1, 1)>>,
             progressive_mode |-> FALSE, space |-> "YCbCr",
             scans |-> <<Scan(<<1, 2, 3>>, 0, 63, 0, 0, 300)>>]
OneByOne == [Together EXCEPT !.comps[3].ac_tbl_no = 3,
                             !.scans = <<Scan(<<1>>, 0, 63, 0, 0, 5), Scan(<<2>>, 0, 63, 0, 0, 0),
                                         Scan(<<3>>, 0, 63, 0, 0, 5)>>]
Progressive == [Together EXCEPT !.progressive_mode = TRUE,
                                !.scans = <<Scan(<<1, 2, 3>>, 0, 0, 0, 1, 7),
                                            Scan(<<1>>, 1, 5, 0, 2, 7), Scan(<<3>>, 1, 63, 0, 0, 0),
                                            Scan(<<1>>, 6, 63, 1, 0, 0),
                                            Scan(<<1, 2, 3>>, 0, 0, 1, 0, 7)>>]
SameIds == [Together EXCEPT !.comps = <<Comp(0, 1, 0), Comp(0, 2, 1), Comp(0, 1, 0)>>,
                            !.space = "RGB"]

Told(image, arith, wide, none, width, jfif, adobe) ==
    [image_width |-> width, image_height |-> 258, data_precision |-> 8,
     progressive_mode |-> image.progressive_mode, arith_code |-> arith,
     comps |-> image.comps, scans |-> image.scans, jpeg_color_space |-> image.space,
     quant |-> [i \in 0 .. 3 |-> IF i = wide THEN [q \in 1 .. 64 |-> 300 * q]
                                ELSE IF i \in none \cup {2} THEN <<>> ELSE Quant(i + 3)],
     dc |-> [i \in 0 .. 3 |-> IF i \in {2, 3} THEN <<>> ELSE Huff(i)],
     ac |-> [i \in 0 .. 3 |-> IF i = 2 THEN <<>> ELSE Huff(i + 16)],
     arith_dc_L |-> ArithValues(0, 2), arith_dc_U |-> ArithValues(1, 7),
     arith_ac_K |-> ArithValues(5, 63),
     write_JFIF_header |-> jfif, JFIF |-> <<1, 2, 1, 72, 300>>, write_Adobe_marker |-> adobe]

Comments == {<<>>, <<<<72, 105>>>>, <<<<255, 218, 13, 10>>, <<>>, <<92, 10, 13>>>>}
HeaderTasks ==
    [kind : {"headers"},
     c : {Told(image, arith, 9, {}, 517, ~arith, arith) :
             image \in {Gray, Together, OneByOne, Progressive, SameIds}, arith \in BOOLEAN},
     comments : Comments, abbreviated : BOOLEAN, together : BOOLEAN, between : {<<>>, <<7, 255>>},
     comment : {<<104, 255>>}, from : {"file"}, keep_COM : {TRUE}, verbose : {TRUE}, raw : {TRUE},
     lost : {{1, 2, 9, 40, 200}}]
    \cup
    [kind : {"headers"},
     c : {Told(Together, FALSE, 1, {}, 65535, TRUE, TRUE)}, comments : Comments,
     abbreviated : {FALSE}, together : {FALSE}, between : {<<255, 255>>},
     comment : {<<>>, <<1, 2, 3, 4, 5>>, <<6, 5, 4, 3, 2, 1>>, <<6, 5, 4, 3, 2, 1, 0>>},
     from : {"file", "argument"}, keep_COM : BOOLEAN, verbose : BOOLEAN, raw : BOOLEAN,
     lost : {3 .. 9}]
    \cup
    [kind : {"headers"},
     c : {Told(Gray, FALSE, 9, {}, 65536, TRUE, FALSE), Told(Gray, FALSE, 9, {0}, 9, TRUE, FALSE),
          Told([Gray EXCEPT !.comps[1].dc_tbl_no = 2], FALSE, 9, {}, 9, TRUE, FALSE)},
     comments : {<<>>}, abbreviated : {FALSE}, together : {FALSE}, between : {<<>>},
     comment : {<<>>}, from : {"file"}, keep_COM : {TRUE}, verbose : {TRUE}, raw : {TRUE},
     lost : {{}}]

-----------------------------------------------------------------------------
\* Pictures of GIF files: of one color and of many, of 2 colors to 256 and without a colormap, so
\* large that the symbols are forgotten, and small ones cut into blocks of any size.
RowsOf(width, height, seed, n) ==
    [r \in 1 .. height |-> [col \in 1 .. width |-> Jumble(seed + width * r + col, n)]]
ColorsOf(n) == [i \in 1 .. n |-> <<(37 * i) % 256, (91 * i) % 256, 255 - (i % 200)>>]
GraysOf(n) == [i \in 1 .. n |-> <<(37 * i) % 256>>]

GifTask(lzw, colors, rows, packet, interlaced, kept) ==
    [kind |-> "gif", lzw |-> lzw, colors |-> colors, rows |-> rows, packet |-> packet,
     interlaced |-> interlaced, kept |-> kept]
GifTasks ==
    {GifTask(l, c, RowsOf(9, 13, 5, Len(c)), p, i, 4) :
        l \in BOOLEAN, c \in {ColorsOf(1), ColorsOf(2), ColorsOf(5), GraysOf(16), ColorsOf(256)},
        p \in {0, 1, 2, 7}, i \in BOOLEAN}
    \cup {GifTask(TRUE, ColorsOf(4), RowsOf(3, h, h, 4), 0, TRUE, 4) : h \in 1 .. 17}
    \cup {GifTask(l, ColorsOf(3), RowsOf(10, 12, 1, n), 5, FALSE, k) :
              l \in BOOLEAN, n \in {1, 3}, k \in 0 .. 3}
    \cup {GifTask(l, <<>>, [r \in 1 .. 70 |-> [col \in 1 .. 72 |->
                               (Jumble(72 * r + col, 1009) + 3 * r) % 256]], 0, FALSE, 4)
              : l \in BOOLEAN}

-----------------------------------------------------------------------------
\* Images of each space, with and without a colormap, of widths that are no multiple of 4.
Image(sp, map, rows) == [space |-> sp, colormap |-> map, rows |-> rows]
Pixels(width, height, f(_)) ==
    [r \in 1 .. height |-> [col \in 1 .. width |-> f(width * r + col)]]
InkOf(k) == <<(k * 71) % 256, (k * 13) % 256, 255, (k * 97) % 256>>
AllImages ==
    UNION {{Image("gray", <<>>, Pixels(w, 3, LAMBDA k : <<Jumble(k, 256)>>)),
            Image("rgb", <<>>, Pixels(w, 3, LAMBDA k : PixelOf(k))),
            Image("rgb", <<>>, Pixels(w, 2, LAMBDA k : <<k % 3, 2 * (k % 2), 0>>)),
            Image("cmyk", <<>>, Pixels(w, 3, InkOf))} : w \in 1 .. 5}
MappedImages ==
    UNION {{Image("gray", GraysOf(5), Pixels(w, 3, LAMBDA k : <<k % 5>>)),
            Image("rgb", ColorsOf(7), Pixels(w, 3, LAMBDA k : <<k % 7>>))} : w \in {3, 4}}

FileTask(by, format, image, want, bottomup) ==
    [kind |-> "file", by |-> by, format |-> format, image |-> image, want |-> want,
     bottomup |-> bottomup]
FileTasks ==
    {FileTask(<<"djpeg", "cjpeg">>, f, i, w, <<FALSE, FALSE>>) :
        f \in {"bmp", "ppm"}, i \in AllImages \cup MappedImages,
        w \in {"guess", "unknown", "gray", "rgb", "cmyk"}}
    \cup {FileTask(<<"djpeg", "cjpeg">>, "targa", i, "guess", <<FALSE, FALSE>>) :
              i \in {j \in AllImages \cup MappedImages : j.space # "cmyk"}}
    \cup {FileTask(by, f, i, w, b) :
              by \in {<<"tj", "tj">>, <<"tj", "cjpeg">>, <<"djpeg", "tj">>}, f \in {"bmp", "ppm"},
              i \in AllImages, w \in {"unknown", "gray", "rgb", "cmyk"},
              b \in BOOLEAN \X BOOLEAN}

\* Files of other programs: samples of all depths, as bytes, words and text, and one that is too
\* large; Targa files of pixels of 16 and 32 bits, with packets that go on in the next row.
LoadTask(file, want, maxval, pixels) ==
    [kind |-> "load", file |-> file, want |-> want, maxval |-> maxval, pixels |-> pixels]
GrayPixels(maxval, top) ==
    Pixels(6, 2, LAMBDA k : F!Gray(IF k = 9 THEN top ELSE (k * 6554) % (maxval + 1)))
PpmTasks ==
    UNION {{LoadTask([format |-> "ppm", coding |-> c, maxval |-> m, gray |-> TRUE,
                      rows |-> [r \in 1 .. 2 |-> [col \in 1 .. 6 |->
                                   <<GrayPixels(m, top)[r][col][1]>>]]], "guess", m,
                     GrayPixels(m, top)) :
               c \in {"raw", "text"}, top \in {m}}
              : m \in {1, 2, 3, 15, 100, 254, 255, 256, 1023, 65535}}
    \cup {LoadTask([format |-> "ppm", coding |-> c, maxval |-> 300, gray |-> FALSE,
                    rows |-> GrayPixels(300, top)], "rgb", 300, GrayPixels(300, top)) :
              c \in {"raw", "text"}, top \in {0, 301}}

TargaFile(subtype, rle, bottom_up, data) ==
    [format |-> "targa", width |-> 3, height |-> 4, subtype |-> subtype, rle |-> rle,
     bottom_up |-> bottom_up, colormap |-> <<>>, data |-> data]
Fives(k) == <<(k * 11) % 32, (k * 5) % 32, k % 32>>
Pair(p) == LET t == 1024 * p[1] + 32 * p[2] + p[3] IN <<t % 256, t \div 256>>
Quad(p) == F!Backwards(p) \o <<77>>
Turned(rows, bottom_up) == IF bottom_up THEN Reverse(rows) ELSE rows

\* Twelve pixels in packets: one alone, four that are the same, six, and the last one.
Run(k) == IF k \in 2 .. 5 THEN 2 ELSE k
Packets(code(_)) ==
    <<<<0>>, code(Run(1)), <<128 + 3>>, code(Run(2)), <<5>>>>
    \o [k \in 1 .. 6 |-> code(Run(5 + k))] \o <<<<128>>, code(Run(12))>>
InRows(f(_)) == [r \in 1 .. 4 |-> [col \in 1 .. 3 |-> f(Run(3 * (r - 1) + col))]]
TargaTasks ==
    UNION {{LoadTask(TargaFile(2, TRUE, b, Packets(LAMBDA k : Pair(Fives(k)))), "guess", 31,
                     Turned(InRows(Fives), b)),
            LoadTask(TargaFile(2, TRUE, b, Packets(LAMBDA k : Quad(PixelOf(k)))), "guess", 255,
                     Turned(InRows(PixelOf), b)),
            LoadTask(TargaFile(3, FALSE, b, [k \in 1 .. 12 |-> <<9 * Run(k)>>]), "guess", 255,
                     Turned(InRows(LAMBDA k : F!Gray(9 * k)), b))} : b \in BOOLEAN}

LoadTasks == PpmTasks \cup TargaTasks

-----------------------------------------------------------------------------
\* Every native method, for images of one plane and of three and for up to two transforms, with
\* each of its steps failing; and arrays around the sizes at which planes begin to fit.
NativeMethods ==
    {J!TJCompressor_init, J!TJDecompressor_init, J!TJTransformer_init, J!TJCompressor_destroy,
     J!TJ_sizes, J!TJ_getScalingFactors,
     J!TJCompressor_compress, J!TJCompressor_encodeYUV_12, J!TJDecompressor_decompressHeader,
     J!TJDecompressor_decompress, J!TJDecompressor_decompressToYUV_12}
    \cup UNION {{J!TJCompressor_compressFromYUV(n), J!TJCompressor_encodeYUV(n),
                J!TJDecompressor_decompressToYUV(n), J!TJDecompressor_decodeYUV(n)} : n \in {1, 3}}
    \cup {J!TJTransformer_transform(n, f) : n \in 1 .. 2, f \in BOOLEAN}

MayFail(method) ==
    {k \in DOMAIN method.steps : method.steps[k].does \notin {"clear", "hand", "release"}}
MayPass(method) ==
    {k \in DOMAIN method.steps : method.steps[k].does \in {"properties", "callback"}}
NativeTasks ==
    UNION {[kind : {"native"}, method : {m}, failing : {0} \cup MayFail(m), quietly : {FALSE}]
           \cup [kind : {"native"}, method : {m}, failing : MayPass(m), quietly : {TRUE}]
              : m \in NativeMethods}

LentTasks ==
    {[kind |-> "lent", width |-> w, height |-> h, subsamp |-> s, ps |-> 3,
      pitches |-> {0, 3 * w, 3 * w + 2}, strides |-> {-5, -3, 0, 3, 4}, offsets |-> 0 .. 9,
      lengths |-> 1 .. 20] : w \in 1 .. 4, h \in 1 .. 3, s \in {"s444", "s420", "gray"}}

-----------------------------------------------------------------------------
\* Scripts for each number of components, and texts that are almost scripts.
QualityTasks ==
    {[kind |-> "quality", qualities |-> -1 .. 102, baseline |-> b] : b \in BOOLEAN}

ScriptTasks ==
    {[kind |-> "script", components |-> n, space |-> sp, style |-> style] :
        n \in 1 .. 10, sp \in {"YCbCr", "unknown"}, style \in {"spaces", "commas", "lines"}}
Entry(comps) == S!Scan(comps, 0, 63, 0, 0)
TextTasks ==
    {[kind |-> "text", text |-> text, scans |-> <<>>] :
        text \in {"0 1 2 3 4;", "0: 0 0 0", "0: 0 0 0 0 0;", "0: 0 0; 0 0", "a;", "0; x", "0,,1",
                  ": 0 0 0 0;", "0 1,", "0;;1", "0: 0: 0 0 0", "0 a b 1;", "0: 0 63 0 0 x"}}
    \cup
    {[kind |-> "text", text |-> "0 a1;", scans |-> <<Entry(<<0, 1>>)>>],
     [kind |-> "text", text |-> "0;1;2#;3", scans |-> <<Entry(<<0>>), Entry(<<1>>), Entry(<<2>>)>>],
     [kind |-> "text", text |-> "#\n0-1/2 3\n", scans |-> <<Entry(<<0, 1, 2, 3>>)>>],
     [kind |-> "text", text |-> "00 10\t: 1 63 2-1;", scans |-> <<S!Scan(<<0, 10>>, 1, 63, 2, 1)>>],
     [kind |-> "text", text |-> "1:1 5 0 2;#end", scans |-> <<S!Scan(<<1>>, 1, 5, 0, 2)>>]}

KeywordTasks == {[kind |-> "keywords", program |-> p] : p \in {"cjpeg", "djpeg", "jpegtran"}}

\* Command lines: a few switches in all their orders, with what their arguments come to.
Switch(switch) == [switch |-> switch, args |-> <<>>]
With(switch, arg) == [switch |-> switch, args |-> <<arg>>]
Number(n) == [ok |-> TRUE, n |-> n, suffix |-> ""]
Suffixed(n, suffix) == [Number(n) EXCEPT !.suffix = suffix]
Vals(vals) == [vals |-> vals, garbage |-> FALSE]
InAnyOrder(switches) ==
    LET n == Len(switches)
    IN  {[k \in 1 .. n |-> switches[p[k]]] : p \in Permutations(1 .. n)}

Command(program, input, asked) ==
    [kind |-> "program", program |-> program, input |-> input, asked |-> asked,
     wrong |-> FALSE, tables |-> <<>>, scans |-> <<>>, region |-> S!NoRegion]
Commands(program, inputs, lines) ==
    {Command(program, i, a) : i \in inputs, a \in UNION {InAnyOrder(l) : l \in lines}}
Wrong(program, input, lines) ==
    {[Command(program, input, a) EXCEPT !.wrong = TRUE] : a \in lines}

Numbers(table) == FoldLeft(LAMBDA text, n : text \o ToString(n) \o " ", "", table)
TablesOf(n) == [t \in 1 .. n |-> [i \in 1 .. 64 |-> 1 + Jumble(40 * t + i, 900)]]
TableText(n) == FoldLeft(LAMBDA text, t : text \o Numbers(t) \o "# table\n", "", TablesOf(n))
\* A script that is not the simple one, for one component and for more.
FirstScans == <<S!Scan(<<0>>, 0, 0, 0, 0), S!Scan(<<0>>, 1, 63, 0, 0)>>
FirstScansText == "0: 0 0 0 0; # the DC\n0: 1 63 0 0;"

Originals ==
    {[space |-> "RGB", components |-> 3, warns |-> FALSE],
     [space |-> "gray", components |-> 1, warns |-> FALSE],
     [space |-> "CMYK", components |-> 4, warns |-> FALSE]}
RgbPicture == [space |-> "RGB", components |-> 3, warns |-> FALSE]

CjpegTasks ==
    Commands("cjpeg", Originals,
        {<<Switch("grayscale"), Switch("rgb"), Switch("progressive"),
           With("restart", Number(3))>>,
         <<With("sample", Vals(<<<<2, 1>>, <<1, 2>>>>)), With("qslots", Vals(<<0, 3>>)),
           Switch("rgb"), With("dct", "fa")>>,
         <<With("restart", Number(3)), With("restart", Suffixed(5, "B")), Switch("arithmetic"),
           Switch("optimize")>>,
         <<Switch("debug"), Switch("debug"), With("smooth", Number(100)), With("dct", "float"),
           With("maxmemory", Suffixed(2, "M"))>>})
    \cup Commands("cjpeg", {RgbPicture},
        {<<With("quality", Vals(<<90, 20>>)), Switch("baseline"), Switch("grayscale")>>,
         <<With("quality", Vals(<<1>>)), Switch("baseline"), With("quality", Vals(<<3, 30, 40>>))>>,
         <<With("quality", [vals |-> <<60, 70, 80, 90>>, garbage |-> TRUE]), Switch("targa")>>,
         <<With("icc", "profile"), With("outfile", "out"), Switch("report"), Switch("memdst"),
           Switch("strict")>>})
    \cup {[t EXCEPT !.tables = TablesOf(3)] :
            t \in Commands("cjpeg", {RgbPicture},
                    {<<With("qtables", TableText(3)), With("quality", Vals(<<4, 80>>)),
                       Switch("baseline")>>, <<With("qtables", TableText(3))>>})}
    \cup {[t EXCEPT !.scans = FirstScans] :
            t \in Commands("cjpeg", Originals,
                    {<<With("scans", FirstScansText), Switch("progressive"),
                       Switch("grayscale")>>})}
    \cup Wrong("cjpeg", RgbPicture,
        {<<With("sample", Vals(<<<<5, 1>>>>))>>, <<With("sample", Vals(<<<<1, 0>>>>))>>,
         <<With("sample", [vals |-> <<>>, garbage |-> TRUE])>>,
         <<With("qslots", Vals(<<0, 4>>)), Switch("rgb")>>,
         <<With("quality", [vals |-> <<50>>, garbage |-> TRUE])>>,
         <<With("smooth", Number(101))>>, <<With("restart", Number(65536))>>,
         <<With("restart", [Number(0) EXCEPT !.ok = FALSE])>>, <<With("dct", "f")>>,
         <<With("qtables", "1 2 3")>>, <<With("qtables", TableText(5))>>,
         <<With("qtables", Numbers(TablesOf(1)[1]) \o "x")>>, <<With("scans", "0 1 2 3 4;")>>,
         <<Switch("version")>>, <<Switch("ma")>>, <<Switch("optimum")>>, <<Switch("quality")>>})

Decoded == [out_color_space |-> "RGB", width |-> 7, height |-> 5, scans |-> 3, warns |-> FALSE]
Skip(start, end) == With("skip", [ok |-> TRUE, start |-> start, end |-> end])
CropTo(width, height, x, y) ==
    With("crop", [ok |-> TRUE, width |-> width, height |-> height, x |-> x, y |-> y])
ScaledBy(m, n) == With("scale", [ok |-> TRUE, of |-> <<m, n>>])
MapOf(kind, colors) == With("map", [kind |-> kind, maxval |-> 255, colors |-> colors])
SomeColors == <<PixelOf(1), PixelOf(2), PixelOf(1), PixelOf(3), PixelOf(2)>>
Greys(n) == [k \in 1 .. n |-> <<k % 256, k % 256, k \div 256>>]

DjpegTasks ==
    Commands("djpeg", {Decoded, [Decoded EXCEPT !.out_color_space = "gray", !.warns = TRUE]},
        {<<Switch("fast"), With("dct", "float"), With("dither", "none"),
           With("colors", Number(16))>>,
         <<Switch("grayscale"), Switch("rgb"), Switch("rgb565"), Switch("strict")>>,
         <<Switch("onepass"), Switch("nosmooth"), Switch("bmp"), Switch("gif0")>>,
         <<With("maxscans", Number(2)), Switch("debug"), Switch("report")>>,
         <<With("maxscans", Number(3)), With("icc", "profile"), Switch("memsrc"),
           With("outfile", "out")>>,
         <<MapOf("P6", SomeColors), Switch("fast"), With("maxmemory", Number(9))>>,
         <<MapOf("gif", Greys(256)), Switch("targa")>>})
    \cup Commands("djpeg", {Decoded},
        {<<ScaledBy(m, 8), part, Switch("ppm")>> :
            m \in {1, 3, 8, 16},
            part \in {Skip(0, 0), Skip(1, 3), Skip(0, 4), Skip(4, 4), Skip(3, 5), Skip(0, 1),
                      CropTo(7, 5, 0, 0), CropTo(2, 2, 5, 3), CropTo(3, 1, 5, 1),
                      CropTo(1, 1, 0, 0), CropTo(1, 3, 0, 3)}})
    \cup Wrong("djpeg", Decoded,
        {<<MapOf("gif", Greys(257))>>, <<MapOf("P6", <<>>)>>, <<MapOf("P5", SomeColors)>>,
         <<Switch("fast"), With("map", [kind |-> "P3", maxval |-> 127, colors |-> SomeColors])>>,
         <<Skip(3, 2)>>, <<CropTo(0, 1, 0, 0)>>, <<With("dither", "n")>>, <<Switch("version")>>,
         <<With("colors", [Number(0) EXCEPT !.ok = FALSE])>>, <<Switch("scale")>>})

Source ==
    [space |-> "YCbCr", components |-> 3, markers |-> {"COM", "APP2", "APPn"}, scans |-> 3,
     warns |-> FALSE]
Sources ==
    {Source, [Source EXCEPT !.space = "gray", !.components = 1, !.markers = {"COM"}],
     [Source EXCEPT !.space = "RGB", !.warns = TRUE]}
Region(spec, width, height, xoffset, yoffset) ==
    [spec |-> spec, is |-> [crop |-> TRUE, width |-> width, height |-> height,
                            xoffset |-> xoffset, yoffset |-> yoffset]]
Regions ==
    {Region("16x8+0+24", <<"pos", 16>>, <<"pos", 8>>, <<"pos", 0>>, <<"pos", 24>>),
     Region("100f", <<"force", 100>>, <<>>, <<>>, <<>>),
     Region("x8r-3", <<>>, <<"reflect", 8>>, <<"neg", 3>>, <<>>),
     Region("7rx9f+10-2", <<"reflect", 7>>, <<"force", 9>>, <<"pos", 10>>, <<"neg", 2>>)}
Place == Region("+8-16", <<>>, <<>>, <<"pos", 8>>, <<"neg", 16>>)
Drop(file) == [switch |-> "drop", args |-> <<Place.spec, file>>]

JpegtranTasks ==
    Commands("jpegtran", Sources,
        {<<With("flip", "horizontal"), With("rotate", "180"), Switch("perfect")>>,
         <<With("flip", "v"), Switch("trim"), With("flip", "vertical")>>,
         <<Switch("transpose"), Switch("transpose"), Switch("arithmetic")>>,
         <<Switch("transverse"), Switch("transpose")>>,
         <<With("rotate", "90"), Switch("grayscale"), Switch("progressive"),
           With("restart", Suffixed(4, "B"))>>,
         <<With("icc", "missing"), Switch("optimize")>>,
         <<With("maxscans", Number(2)), Switch("debug")>>, <<With("maxscans", Number(2))>>,
         <<Switch("strict"), Switch("report"), With("maxmemory", Suffixed(1, "M"))>>}
        \cup {<<With("copy", option), With("icc", "profile"), With("outfile", "out")>> :
                option \in {"none", "comments", "icc", "all"}}
        \cup {<<With("copy", option)>> : option \in {"none", "comments", "icc", "all"}})
    \cup {[t EXCEPT !.scans = FirstScans] :
            t \in Commands("jpegtran", Sources,
                    {<<With("scans", FirstScansText), Switch("progressive"),
                       Switch("grayscale")>>})}
    \cup UNION {{[t EXCEPT !.region = r.is] :
                   t \in Commands("jpegtran", {Source},
                           {<<With("crop", r.spec), With("rotate", "270")>>,
                            <<With("wipe", r.spec), Switch("trim")>>,
                            <<With("wipe", r.spec), With("crop", "1x1")>>,
                            <<With("wipe", r.spec), Switch("transpose")>>})} : r \in Regions}
    \cup {[t EXCEPT !.region = Place.is] :
            t \in Commands("jpegtran", {Source}, {<<Drop("file"), Switch("perfect")>>,
                                                  <<Drop("file"), With("wipe", "1x1")>>})}
    \cup Wrong("jpegtran", Source,
        {<<With("crop", spec)>> : spec \in {"x", "8x", "8y9", "8+", "8+1+2+3", "8g", "8ff", "+-1"}}
        \cup {<<With("drop", "8x8+0+0")>>, <<[Drop("file") EXCEPT !.args[1] = "8x8+0+0"]>>,
              <<With("copy", "some")>>, <<With("flip", "90")>>, <<With("rotate", "18")>>,
              <<With("scans", "0: 0 0 0")>>, <<Switch("fast")>>, <<Switch("crop")>>})

ProgramTasks == CjpegTasks \cup DjpegTasks \cup JpegtranTasks

-----------------------------------------------------------------------------
\* Passes over two small pictures: one has as many colors as are desired, the other has more,
\* some of them near to each other.
FewColors == <<<<PixelOf(1), PixelOf(2), PixelOf(3)>>,
               <<PixelOf(4), PixelOf(5), PixelOf(6)>>,
               <<PixelOf(2), PixelOf(7), PixelOf(1)>>>>
ManyColors == <<<<PixelOf(8), <<3, 250, 128>>, <<3, 245, 131>>>>,
                <<PixelOf(10), PixelOf(11), PixelOf(12)>>,
                <<PixelOf(14), PixelOf(15), <<0, 0, 0>>>>>>

MCPictures == {FewColors, ManyColors}
MCMaps == {<<<<0, 0, 0>>, <<255, 255, 255>>, <<250, 30, 20>>>>,
           <<<<200, 200, 30>>, <<10, 120, 240>>, <<127, 127, 127>>, <<0, 255, 0>>>>}

-----------------------------------------------------------------------------
\* A memory of 112 bytes, in which chunks of up to 64 can be had: small objects share blocks,
\* rows do not fit one chunk, and for the virtual arrays there is too little as soon as the
\* application sets its limit.
FirstSlop == [pool \in Pools |-> IF pool = JPOOL_PERMANENT THEN 9 ELSE 12]
ExtraSlop == [pool \in Pools |-> IF pool = JPOOL_PERMANENT THEN 5 ELSE 7]
MCObjects == {[of |-> "small", pool |-> JPOOL_PERMANENT, size |-> 6],
              [of |-> "large", pool |-> JPOOL_IMAGE, size |-> 12],
              [of |-> "large", pool |-> JPOOL_IMAGE, size |-> 60]}
MCArrays == {[of |-> "samples", pool |-> JPOOL_IMAGE, width |-> 9, rows |-> 4],
             [of |-> "samples", pool |-> JPOOL_IMAGE, width |-> 70, rows |-> 1]}
MCVirtualArrays == {[of |-> "samples", width |-> 3, rows |-> 5, maxaccess |-> 2],
                    [of |-> "blocks", width |-> 1, rows |-> 3, maxaccess |-> 1]}

AllTasks == {[kind |-> "passes"], [kind |-> "pools"]}
            \cup InverseTasks \cup BlockTasks \cup DivideTasks
            \cup ColorTasks \cup MergedTasks \cup PlaneTasks \cup DitherTasks \cup HuffmanTasks
            \cup ProfileTasks \cup HeaderTasks \cup GifTasks \cup FileTasks \cup LoadTasks
            \cup NativeTasks \cup LentTasks
            \cup QualityTasks \cup ScriptTasks \cup TextTasks \cup KeywordTasks
            \cup ProgramTasks

=============================================================================
