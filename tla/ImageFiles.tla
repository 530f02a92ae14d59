----------------------------- MODULE ImageFiles -----------------------------
(***************************************************************************)
(* Image files.  BMP, PPM and Targa: what djpeg and tjSaveImage() write    *)
(* (wrbmp.c, wrppm.c, wrtarga.c), and what cjpeg and tjLoadImage() read    *)
(* (rdbmp.c, rdppm.c, rdtarga.c).  GIF: what djpeg writes, compressed      *)
(* (put_LZW_pixel_rows()) or not (put_raw_pixel_rows() of wrgif.c), and    *)
(* what cjpeg reads (rdgif.c).                                             *)
(*                                                                         *)
(* An image is [space, colormap, rows]: its color space, "gray", "rgb" (in *)
(* any of the orders that the tables of rgb_red[] and so on are for) or    *)
(* "cmyk", its colormap if its colors are quantized, and its rows, of      *)
(* pixels that are tuples of samples, or of the number of a color.  What   *)
(* is read may be wanted in one of these spaces, in any ("unknown"), or in *)
(* RGB unless it is gray ("guess", what cjpeg begins with).  Opaque alpha  *)
(* samples and bytes that are not used are left out.                       *)
(*                                                                         *)
(* A GIF file is [maps, code_size, interlaced, blocks]: its colormaps, the *)
(* global one and a local one, the initial code size, whether its rows are *)
(* interlaced, and its data blocks without their counts.  The hash table   *)
(* of the writer is a function of a code and the pixel that follows, and a *)
(* symbol of the reader is the sequence of pixels that it expands to.      *)
(***************************************************************************)
EXTENDS Integers, Sequences, CodedData, SequencesExt

MAXJSAMPLE == 255

\* An error of a reader.
Refused == [space |-> "refused", rows |-> <<>>]

Gray(v) == <<v, v, v>>
IsGray(p) == p[1] = p[2] /\ p[2] = p[3]
Backwards(p) == <<p[3], p[2], p[1]>>

Rounded(n, d) == (2 * n + d) \div (2 * d)

\* The color with its black taken out, and with it put in again (cmyk.h).
rgb_to_cmyk(p) ==
    LET k == Biggest(p[1], Biggest(p[2], p[3]))
        ink(v) == IF k = 0 THEN MAXJSAMPLE ELSE Rounded(v * MAXJSAMPLE, k)
    IN  <<ink(p[1]), ink(p[2]), ink(p[3]), k>>

cmyk_to_rgb(p) == [i \in 1 .. 3 |-> Rounded(p[i] * p[4], MAXJSAMPLE)]

\* A color in the space in which it is wanted; that of a gray one is its level.
InSpace(space, p) ==
    IF space = "gray" THEN <<p[1]>> ELSE IF space = "cmyk" THEN rgb_to_cmyk(p) ELSE p

-----------------------------------------------------------------------------
\* Rows of a BMP file are of a multiple of 4 bytes, and pixels are blue, green and red.
Padded(bytes) == bytes \o [i \in 1 .. (-Len(bytes)) % 4 |-> 0]

BmpRow(image, row) ==
    LET color(p) == Backwards(IF image.space = "cmyk" THEN cmyk_to_rgb(p) ELSE p)
    IN  IF image.colormap # <<>> \/ image.space = "gray"
        THEN Padded([i \in DOMAIN row |-> row[i][1]])
        ELSE Padded([i \in 1 .. 3 * Len(row) |->
                        color(row[((i - 1) \div 3) + 1])[((i - 1) % 3) + 1]])

\* A colormap of 256 colors, which gray rows have too.
write_colormap(image) ==
    LET entry(p) == IF Len(p) = 1 THEN Gray(p[1]) ELSE Backwards(p)
    IN  [i \in 1 .. 256 |->
            IF image.colormap = <<>> THEN Gray(i - 1)
            ELSE IF i <= Len(image.colormap) THEN entry(image.colormap[i]) ELSE Gray(0)]

\* With an inversion array the rows come from the top and are kept for the end; without one the
\* caller has turned them already.
WriteBmp(image, use_inversion_array) ==
    LET mapped == image.colormap # <<>> \/ image.space = "gray"
        rows == [r \in DOMAIN image.rows |-> BmpRow(image, image.rows[r])]
    IN  [format |-> "bmp", width |-> Len(image.rows[1]),
         bits_per_pixel |-> IF mapped THEN 8 ELSE 24,
         colormap |-> IF mapped THEN write_colormap(image) ELSE <<>>,
         rows |-> IF use_inversion_array THEN Reverse(rows) ELSE rows]

\* The space that the colors of a BMP file are given in.
BmpSpace(file, want) ==
    LET gray == file.colormap # <<>> /\ \A i \in DOMAIN file.colormap : IsGray(file.colormap[i])
    IN  IF gray /\ want \in {"unknown", "guess"} THEN "gray"
        ELSE IF want = "gray" /\ ~gray THEN "refused"
        ELSE IF want \in {"unknown", "guess"} THEN "rgb" ELSE want

ReadBmp(file, want, use_inversion_array) ==
    LET space == BmpSpace(file, want)
        size == file.bits_per_pixel \div 8
        in_range(row) == \A col \in 1 .. file.width : row[col] < Len(file.colormap)
        pixel(row, col) ==
            IF file.bits_per_pixel = 8 THEN Backwards(file.colormap[row[col] + 1])
            ELSE Backwards(SubSeq(row, (col - 1) * size + 1, (col - 1) * size + 3))
        rows == [r \in DOMAIN file.rows |->
                    [col \in 1 .. file.width |-> InSpace(space, pixel(file.rows[r], col))]]
    IN  IF space = "refused" THEN Refused
        ELSE IF file.bits_per_pixel = 8 /\ \E r \in DOMAIN file.rows : ~in_range(file.rows[r])
        THEN Refused
        ELSE [space |-> space, rows |-> IF use_inversion_array THEN Reverse(rows) ELSE rows]

-----------------------------------------------------------------------------
\* Colors of a colormap are written as such.
WritePpm(image) ==
    LET sample(p) == IF image.colormap # <<>> THEN image.colormap[p[1] + 1]
                     ELSE IF image.space = "cmyk" THEN cmyk_to_rgb(p) ELSE p
    IN  [format |-> "ppm", coding |-> "raw", maxval |-> MAXJSAMPLE,
         gray |-> image.space = "gray",
         rows |-> [r \in DOMAIN image.rows |->
                      [col \in DOMAIN image.rows[r] |-> sample(image.rows[r][col])]]]

\* A sample of 0 .. maxval as one of 0 .. 255.
Rescaled(maxval, v) == (v * MAXJSAMPLE + maxval \div 2) \div maxval

\* Samples are bytes, words or text.  One that is too large is an error, but a byte and a text of
\* one digit, which read_pbm_integer() takes as it is, are 0: the table that rescales has 256
\* entries at least.
ReadPpm(file, want) ==
    LET space == IF want = "unknown" \/ (want = "guess" /\ file.gray)
                 THEN IF file.gray THEN "gray" ELSE "rgb"
                 ELSE IF want = "guess" THEN "rgb" ELSE want
        words == file.coding = "raw" /\ file.maxval > MAXJSAMPLE
        can == /\ space = "gray" => file.gray
               /\ words => space = IF file.gray THEN "gray" ELSE "rgb"
        sample(v) == IF v <= file.maxval THEN Rescaled(file.maxval, v) ELSE 0
        color(p) == LET samples == [i \in DOMAIN p |-> sample(p[i])]
                    IN  IF file.gray THEN Gray(samples[1]) ELSE samples
        checked(v) == words \/ (file.coding = "text" /\ v > 9)
        too_large(row) == \E col \in DOMAIN row : \E i \in DOMAIN row[col] :
                              checked(row[col][i]) /\ row[col][i] > file.maxval
    IN  IF ~can \/ \E r \in DOMAIN file.rows : too_large(file.rows[r]) THEN Refused
        ELSE [space |-> space,
              rows |-> [r \in DOMAIN file.rows |-> [col \in DOMAIN file.rows[r] |->
                           InSpace(space, color(file.rows[r][col]))]]]

-----------------------------------------------------------------------------
\* The data of a Targa file are a sequence of pixels, each a tuple of bytes, and in between, if
\* they are run-length coded, the headers of packets, tuples of one byte.
WriteTarga(image) ==
    LET mapped == image.colormap # <<>> /\ image.space # "gray"
        pixel(p) == IF mapped THEN p
                    ELSE IF image.space # "gray" THEN Backwards(p)
                    ELSE IF image.colormap # <<>> THEN image.colormap[p[1] + 1] ELSE p
        width == Len(image.rows[1])
    IN  [format |-> "targa", width |-> width, height |-> Len(image.rows),
         subtype |-> IF mapped THEN 1 ELSE IF image.space = "gray" THEN 3 ELSE 2,
         rle |-> FALSE, bottom_up |-> FALSE,
         colormap |-> IF mapped THEN [i \in DOMAIN image.colormap |-> Backwards(image.colormap[i])]
                      ELSE <<>>,
         data |-> [i \in 1 .. width * Len(image.rows) |->
                      pixel(image.rows[((i - 1) \div width) + 1][((i - 1) % width) + 1])]]

NextPixel(s) == [s EXCEPT !.pixel = Head(s.data), !.data = Tail(@)]

\* A packet is one pixel, several times, or several pixels; it goes on in the next row.
read_rle_pixel(s) ==
    LET started(x, header) ==
            IF header >= 128 THEN [x EXCEPT !.dup_pixel_count = header % 128, !.block_count = 0]
            ELSE [x EXCEPT !.block_count = header]
        counted == [s EXCEPT !.block_count = @ - 1]
    IN  IF s.dup_pixel_count > 0 THEN [s EXCEPT !.dup_pixel_count = @ - 1]
        ELSE IF counted.block_count >= 0 THEN NextPixel(counted)
        ELSE NextPixel(started([counted EXCEPT !.data = Tail(@)], Head(s.data)[1]))

\* Levels of 5 bits as levels of 8.
c5to8bits ==
    <<0, 8, 16, 25, 33, 41, 49, 58, 66, 74, 82, 90, 99, 107, 115, 123,
      132, 140, 148, 156, 165, 173, 181, 189, 197, 206, 214, 222, 230, 239, 247, 255>>

\* The color of a pixel of 1, 2, 3 or 4 bytes.
TargaColor(file, p) ==
    LET t == p[1] + 256 * p[2]
        five(n) == c5to8bits[((t \div 32 ^ n) % 32) + 1]
    IN  IF file.subtype = 3 THEN p
        ELSE IF file.subtype = 1 THEN Backwards(file.colormap[p[1] + 1])
        ELSE IF Len(p) = 2 THEN <<five(2), five(1), five(0)>> ELSE Backwards(p)

\* All pixels are read in the order of the file, and the rows of a file that begins at the
\* bottom are turned.
ReadTarga(file) ==
    LET taken(s) == [s EXCEPT !.pixels = Append(@, s.pixel)]
        read(s, k) == taken(IF file.rle THEN read_rle_pixel(s) ELSE NextPixel(s))
        all == Through(read, [data |-> file.data, block_count |-> 0, dup_pixel_count |-> 0,
                              pixel |-> <<>>, pixels |-> <<>>], 1, file.width * file.height).pixels
        in_range(p) == file.subtype = 1 => p[1] < Len(file.colormap)
        rows(pixels) == [r \in 1 .. file.height |-> [col \in 1 .. file.width |->
                            TargaColor(file, pixels[(r - 1) * file.width + col])]]
        turned(x) == IF file.bottom_up THEN Reverse(x) ELSE x
        result(pixels) ==
            IF \E i \in DOMAIN pixels : ~in_range(pixels[i]) THEN Refused
            ELSE [space |-> IF file.subtype = 3 THEN "gray" ELSE "rgb",
                  rows |-> turned(rows(pixels))]
    IN  result(all)

-----------------------------------------------------------------------------
\* Whether the first row of a file is the last one in memory: BMP files begin at the bottom.
Inverted(format, bottomup) == IF format = "bmp" THEN ~bottomup ELSE bottomup

\* Rows of memory go to the file in the order that it has.
tjSaveImage(image, format, bottomup) ==
    LET rows == IF Inverted(format, bottomup) THEN Reverse(image.rows) ELSE image.rows
        saved == [image EXCEPT !.rows = rows]
    IN  IF format = "bmp" THEN WriteBmp(saved, FALSE) ELSE WritePpm(saved)

tjLoadImage(file, want, bottomup) ==
    LET loaded == IF file.format = "bmp" THEN ReadBmp(file, want, FALSE) ELSE ReadPpm(file, want)
    IN  IF Inverted(file.format, bottomup) THEN [loaded EXCEPT !.rows = Reverse(@)] ELSE loaded

\* djpeg and cjpeg have their rows from the top.
WriteFile(image, format) ==
    CASE format = "bmp" -> WriteBmp(image, TRUE)
      [] format = "ppm" -> WritePpm(image)
      [] format = "targa" -> WriteTarga(image)

ReadFile(file, want) ==
    CASE file.format = "bmp" -> ReadBmp(file, want, TRUE)
      [] file.format = "ppm" -> ReadPpm(file, want)
      [] file.format = "targa" -> ReadTarga(file)

-----------------------------------------------------------------------------
\* GIF files.

MAX_LZW_BITS == 12
LZW_TABLE_SIZE == 2 ^ MAX_LZW_BITS
CENTERJSAMPLE == 128
MAXCODE(n_bits) == 2 ^ n_bits - 1

\* No symbol waits to be written.
None == -1

-----------------------------------------------------------------------------
\* A byte of a packet, which has up to 255 of them.
CHAR_OUT(d, c) ==
    IF Len(d.packet) + 1 < 255 THEN [d EXCEPT !.packet = Append(@, c)]
    ELSE [d EXCEPT !.packet = <<>>, !.blocks = Append(@, Append(d.packet, c))]

\* Codes become longer as soon as the next symbol has no room in them.
GrownCode(d) ==
    IF d.free_code <= d.maxcode THEN d
    ELSE [d EXCEPT !.n_bits = @ + 1,
                   !.maxcode = IF d.n_bits + 1 = MAX_LZW_BITS THEN LZW_TABLE_SIZE
                               ELSE MAXCODE(d.n_bits + 1)]

\* A code of n_bits goes to the file, as far as it fills bytes.
output(d, code) ==
    LET packed(accum, bits) ==
            LET put(x, k) == CHAR_OUT(x, (accum \div 256 ^ (k - 1)) % 256)
            IN  [Through(put, d, 1, bits \div 8)
                    EXCEPT !.cur_accum = accum \div 256 ^ (bits \div 8), !.cur_bits = bits % 8]
    IN  GrownCode(packed(d.cur_accum + code * 2 ^ d.cur_bits, d.cur_bits + d.n_bits))

\* The reader is told to forget all symbols, with a code as long as the last one.
clear_block(d) ==
    [output([d EXCEPT !.table = <<>>, !.free_code = d.ClearCode + 2], d.ClearCode)
        EXCEPT !.n_bits = d.init_bits, !.maxcode = MAXCODE(d.init_bits)]

compress_init(i_bits) ==
    LET clear == 2 ^ (i_bits - 1)
    IN  output([n_bits |-> i_bits, init_bits |-> i_bits, maxcode |-> MAXCODE(i_bits),
                ClearCode |-> clear, EOFCode |-> clear + 1, free_code |-> clear + 2,
                code_counter |-> clear + 2, waiting_code |-> None, table |-> <<>>,
                packet |-> <<>>, cur_accum |-> 0, cur_bits |-> 0, blocks |-> <<>>], clear)

compress_term(d) ==
    LET last(x) == IF x.waiting_code = None THEN x ELSE output(x, x.waiting_code)
        rest(x) == IF x.cur_bits > 0 THEN CHAR_OUT(x, x.cur_accum % 256) ELSE x
        flush_packet(x) == IF x.packet = <<>> THEN x.blocks ELSE Append(x.blocks, x.packet)
    IN  flush_packet(rest(output(last(d), d.EOFCode)))

\* A pixel prolongs the symbol that waits, or the symbol is written, and with the pixel becomes
\* a new one while there is room.
put_LZW_pixel(d, c) ==
    LET longer == d.waiting_code * 256 + c
        written(o) ==
            IF o.free_code < LZW_TABLE_SIZE
            THEN [o EXCEPT !.table = (longer :> o.free_code) @@ @, !.free_code = @ + 1,
                           !.waiting_code = c]
            ELSE [clear_block(o) EXCEPT !.waiting_code = c]
    IN  IF d.waiting_code = None THEN [d EXCEPT !.waiting_code = c]
        ELSE IF longer \in DOMAIN d.table THEN [d EXCEPT !.waiting_code = d.table[longer]]
        ELSE written(output(d, d.waiting_code))

\* Each pixel is a code, and the reader is told to forget before its codes become longer.
put_raw_pixel(d, c) ==
    LET counted(o) ==
            IF o.code_counter < o.maxcode THEN [o EXCEPT !.code_counter = @ + 1]
            ELSE [output(o, o.ClearCode) EXCEPT !.code_counter = o.ClearCode + 2]
    IN  counted(output(d, c))

-----------------------------------------------------------------------------
BitsPerPixel(num_colors) ==
    CHOOSE b \in 1 .. 8 : num_colors <= 2 ^ b /\ \A a \in 1 .. b - 1 : num_colors > 2 ^ a

InitCodeSize(num_colors) == Biggest(BitsPerPixel(num_colors), 2)

\* The colormap of a file: the colors, those of gray ones three times, and gray up to a power
\* of 2; without colors 256 levels of gray.
ColorMap(colors) ==
    LET num == IF colors = <<>> THEN 256 ELSE Len(colors)
        gray(v) == <<v, v, v>>
        color(i) == IF colors = <<>> THEN gray((i * 255 + (num - 1) \div 2) \div (num - 1))
                    ELSE IF Len(colors[i + 1]) = 1 THEN gray(colors[i + 1][1])
                    ELSE colors[i + 1]
    IN  [c \in 1 .. 2 ^ BitsPerPixel(num) |->
            IF c > num THEN gray(CENTERJSAMPLE) ELSE color(c - 1)]

\* The file of a picture, whose pixels are numbers of its colors or levels of gray.
WriteGif(lzw, colors, rows) ==
    LET size == InitCodeSize(IF colors = <<>> THEN 256 ELSE Len(colors))
        pixel(d, c) == IF lzw THEN put_LZW_pixel(d, c) ELSE put_raw_pixel(d, c)
        row(d, r) == Through(LAMBDA x, col : pixel(x, rows[r][col]), d, 1, Len(rows[r]))
    IN  [maps |-> <<ColorMap(colors)>>, code_size |-> size, interlaced |-> FALSE,
         blocks |-> compress_term(Through(row, compress_init(size + 1), 1, Len(rows)))]

-----------------------------------------------------------------------------
\* All symbols are forgotten.
ReInitLZW(s) ==
    [s EXCEPT !.code_size = s.input_code_size + 1, !.limit_code = 2 * s.clear_code,
              !.max_code = s.clear_code + 2, !.stack = <<>>]

InitLZWCode(file) ==
    LET clear == 2 ^ file.code_size
    IN  ReInitLZW([blocks |-> file.blocks, buf |-> <<0, 0>>, last_bit |-> 0, cur_bit |-> 0,
                   first_time |-> TRUE, out_of_blocks |-> FALSE,
                   input_code_size |-> file.code_size, clear_code |-> clear,
                   end_code |-> clear + 1, code_size |-> 0, limit_code |-> 0, max_code |-> 0,
                   code |-> 0, old |-> <<0>>, first |-> 0, value |-> 0, stack |-> <<>>,
                   row |-> <<>>, rows |-> <<>>,
                   symbols |-> [k \in 0 .. LZW_TABLE_SIZE - 1 |-> <<>>]])

Short(s) == s.cur_bit + s.code_size > s.last_bit

\* The next block is read behind the last two bytes of the one before.
Reloaded(s) ==
    LET buf == SubSeq(s.buf, Len(s.buf) - 1, Len(s.buf)) \o Head(s.blocks)
    IN  [s EXCEPT !.buf = buf, !.blocks = Tail(@), !.last_bit = 8 * Len(buf),
                  !.cur_bit = (@ - s.last_bit) + 16]

\* The bits of a code; those of bytes behind the last one are not among them.
NextBits(s) ==
    LET byte(i) == IF i \in DOMAIN s.buf THEN s.buf[i] ELSE 0
        at == s.cur_bit \div 8 + 1
        accum == byte(at) + 256 * byte(at + 1) + 65536 * byte(at + 2)
    IN  (accum \div 2 ^ (s.cur_bit % 8)) % 2 ^ s.code_size

\* The next code.  The first call gives a Clear code that the file need not have, and when the
\* data have ended there is nothing but End codes.  A code of up to 12 bits takes two blocks at
\* most, though these be of one byte.
GetCode(s) ==
    LET reload(x, k) == IF Short(x) /\ x.blocks # <<>> THEN Reloaded(x) ELSE x
        after(x) == IF Short(x) THEN [x EXCEPT !.out_of_blocks = TRUE, !.code = x.end_code]
                    ELSE [x EXCEPT !.code = NextBits(x), !.cur_bit = @ + x.code_size]
    IN  IF Short(s) /\ s.first_time THEN [s EXCEPT !.first_time = FALSE, !.code = s.clear_code]
        ELSE IF Short(s) /\ s.out_of_blocks THEN [s EXCEPT !.code = s.end_code]
        ELSE after(Through(reload, s, 1, 2))

\* More Clear codes than follow one another in a file.
MostClears == 3

\* The pixel after a Clear code stands for itself.
AfterClear(s) ==
    LET next(x, k) == IF k = 1 \/ x.code = x.clear_code THEN GetCode(x) ELSE x
        begun(x, value) == [x EXCEPT !.old = <<value>>, !.first = value, !.value = value]
        raw(x) == begun(x, IF x.code > x.clear_code THEN 0 ELSE x.code)
    IN  raw(Through(next, ReInitLZW(s), 1, MostClears))

\* A symbol is expanded, which may be the one that is made at this moment, and one is made of
\* the symbol before and its first pixel.
AtSymbol(s) ==
    LET made(x) == [x EXCEPT !.max_code = @ + 1]
        grown(x) == IF x.max_code >= x.limit_code /\ x.code_size < MAX_LZW_BITS
                    THEN [x EXCEPT !.code_size = @ + 1, !.limit_code = @ * 2] ELSE x
        expanded(all) ==
            [s EXCEPT !.value = Head(all), !.first = Head(all), !.stack = Tail(all),
                      !.old = IF s.code > s.max_code THEN <<0>> ELSE all,
                      !.symbols = IF s.max_code >= LZW_TABLE_SIZE THEN @
                                  ELSE [@ EXCEPT ![s.max_code] = Append(s.old, Head(all))]]
        defined(x) == IF s.max_code < LZW_TABLE_SIZE THEN grown(made(x)) ELSE x
    IN  defined(expanded(IF s.code < s.clear_code THEN <<s.code>>
                         ELSE IF s.code < s.max_code THEN s.symbols[s.code]
                         ELSE Append(s.old, s.first)))

\* The next pixel, 0 where there is none.
LZWReadByte(s) ==
    LET read(x) == IF x.code = x.clear_code THEN AfterClear(x)
                   ELSE IF x.code # x.end_code THEN AtSymbol(x)
                   ELSE [x EXCEPT !.blocks = <<>>, !.out_of_blocks = TRUE, !.value = 0]
    IN  IF s.stack # <<>> THEN [s EXCEPT !.value = Head(s.stack), !.stack = Tail(@)]
        ELSE read(GetCode(s))

-----------------------------------------------------------------------------
\* Where in an interlaced file a row of the picture is.
InterlacedRow(height, row) ==
    LET pass2 == (height + 7) \div 8
        pass3 == pass2 + (height + 3) \div 8
        pass4 == pass3 + (height + 1) \div 4
    IN  CASE row % 8 = 0 -> row \div 8
          [] row % 8 = 4 -> row \div 8 + pass2
          [] row % 8 \in {2, 6} -> row \div 4 + pass3
          [] OTHER -> row \div 2 + pass4

\* The color of a pixel: that of the last map, which is filled up with a medium gray; only its
\* level if a map was all of gray.
ColorOf(maps, c) ==
    LET gray == \E m \in DOMAIN maps : \A i \in DOMAIN maps[m] :
                    maps[m][i][1] = maps[m][i][2] /\ maps[m][i][2] = maps[m][i][3]
        last == IF maps = <<>> THEN <<>> ELSE maps[Len(maps)]
        color == IF c < Len(last) THEN last[c + 1]
                 ELSE <<CENTERJSAMPLE, CENTERJSAMPLE, CENTERJSAMPLE>>
    IN  IF gray THEN <<color[1]>> ELSE color

\* The rows of a picture, in the order in which they are to be shown.
ReadGif(file, width, height) ==
    LET taken(s) == [s EXCEPT !.row = Append(@, s.value)]
        ended(s) == [s EXCEPT !.rows = Append(@, s.row), !.row = <<>>]
        row(s, r) == ended(Through(LAMBDA x, col : taken(LZWReadByte(x)), s, 1, width))
        at(r) == IF file.interlaced THEN InterlacedRow(height, r - 1) + 1 ELSE r
        shown(rows) == [r \in 1 .. height |-> [col \in 1 .. width |->
                           ColorOf(file.maps, rows[at(r)][col])]]
    IN  shown(Through(row, InitLZWCode(file), 1, height).rows)

=============================================================================
