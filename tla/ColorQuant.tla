----------------------------- MODULE ColorQuant -----------------------------
(***************************************************************************)
(* Color quantization: in one pass, to a grid of colors (jquant1.c), and   *)
(* in two, to colors that are selected from a histogram (jquant2.c), each  *)
(* with and without dithering.  After the arithmetic of both quantizers    *)
(* comes a system of its own: the output passes of a buffered image whose  *)
(* colors are quantized (jdmaster.c).                                      *)
(*                                                                         *)
(* A pixel is a tuple of samples and a colormap a sequence of such tuples, *)
(* of which the first has the index 0.  The histogram and the inverse      *)
(* colormap, which share their memory in the program, are functions on the *)
(* cells that are not 0 there.                                             *)
(***************************************************************************)
EXTENDS Integers, Sequences, FiniteSets, CodedData, TLC

Top == 255
Within(v, low, high) == IF v < low THEN low ELSE IF v > high THEN high ELSE v

\* The product of n[from], ..., n[Len(n)].
ProductFrom(n, from) ==
    LET p[k \in from .. Len(n) + 1] == IF k > Len(n) THEN 1 ELSE n[k] * p[k + 1] IN p[from]

\* f, every value of which TLC computes once.
Known(f) == f @@ <<>>

-----------------------------------------------------------------------------
(***************************************************************************)
(* One pass: the levels of the components, and the grid of colors.         *)
(***************************************************************************)
\* The same number of levels for all components, as large as max_colors allows, and then one
\* more for a component after the other, in this order, from the first again when one more
\* does not fit, until it is the first for which it does not; <<>> where the number is under 2.
select_ncolors(max_colors, order) ==
    LET same(r) == [k \in 1 .. Len(order) |-> r]
        root == CHOOSE r \in 1 .. 256 : /\ ProductFrom(same(r), 1) <= max_colors
                                        /\ ProductFrom(same(r + 1), 1) > max_colors
        more(n, k) == [n EXCEPT ![order[k]] = @ + 1]
        Raise[k \in 1 .. Len(order), n \in Seq(Nat)] ==
            IF ProductFrom(more(n, k), 1) <= max_colors
            THEN Raise[(k % Len(order)) + 1, more(n, k)]
            ELSE IF k > 1 THEN Raise[1, n] ELSE n
    IN  IF root < 2 THEN <<>> ELSE Raise[1, same(root)]

\* Level j of 0 .. maxj, and the largest sample that is mapped to it.
output_value(j, maxj) == (j * Top + maxj \div 2) \div maxj
largest_input_value(j, maxj) == ((2 * j + 1) * Top + maxj) \div (2 * maxj)

\* create_colormap(): the colors of the grid, the last component varying fastest.
Grid(n) ==
    LET level(i, index) == (index \div ProductFrom(n, i + 1)) % n[i]
    IN  [c \in 1 .. ProductFrom(n, 1) |->
            [i \in 1 .. Len(n) |-> output_value(level(i, c - 1), n[i] - 1)]]

\* create_colorindex(): what a sample of component i adds to the index.  With padding it is
\* told for samples outside of 0 .. 255 too.
colorindex(n, i, sample) ==
    LET s == Within(sample, 0, Top)
        val == CHOOSE v \in 0 .. n[i] - 1 :
                   /\ s <= largest_input_value(v, n[i] - 1)
                   /\ \A u \in 0 .. v - 1 : s > largest_input_value(u, n[i] - 1)
    IN  val * ProductFrom(n, i + 1)

Index(n, pixel) ==
    LET sum[i \in 0 .. Len(n)] == IF i = 0 THEN 0 ELSE sum[i - 1] + colorindex(n, i, pixel[i])
    IN  sum[Len(n)]

\* color_quantize()
QuantizedRow(n, row) == [col \in 1 .. Len(row) |-> Index(n, row[col])] \o <<>>

-----------------------------------------------------------------------------
(***************************************************************************)
(* Ordered dithering: what is added before the level is looked up depends  *)
(* on the place in a square of 16 by 16.                                   *)
(***************************************************************************)
ODITHER_SIZE == 16

\* base_dither_matrix: every bit of the coordinates weighs a quarter of the one below it.
Bayer(j, k) ==
    LET cell(b) == LET x == (j \div 2 ^ b) % 2  y == (k \div 2 ^ b) % 2
                   IN  IF x = 0 THEN 3 * y ELSE 2 - y
    IN  64 * cell(0) + 16 * cell(1) + 4 * cell(2) + cell(3)

\* make_odither_array(), rounding towards 0.
odither(ncolors, j, k) ==
    LET num == (255 - 2 * Bayer(j, k)) * Top
        den == 2 * 256 * (ncolors - 1)
    IN  IF num < 0 THEN -((-num) \div den) ELSE num \div den

\* quantize_ord_dither() for the row row_index of the square.
OrderedRow(n, row, row_index) ==
    LET raised(col) == [i \in 1 .. Len(n) |->
                           row[col][i] + odither(n[i], row_index, (col - 1) % ODITHER_SIZE)]
    IN  [col \in 1 .. Len(row) |-> Index(n, raised(col))] \o <<>>

-----------------------------------------------------------------------------
(***************************************************************************)
(* Floyd-Steinberg dithering, of both quantizers.  errors holds, in 16ths, *)
(* what the row above has left for each column, with a place beyond either *)
(* end; the rows are worked on in turn from the left and from the right.   *)
(* Limit is what becomes of an error before it is added, and Pick what     *)
(* finds a color: it gives the index, the color and the cache after that.  *)
(***************************************************************************)
Times(k, v) == [c \in 1 .. Len(v) |-> k * v[c]] \o <<>>
Plus(u, v) == [c \in 1 .. Len(v) |-> u[c] + v[c]] \o <<>>
Zeros(width, nc) == Known([i \in 0 .. width + 1 |-> Times(0, [c \in 1 .. nc |-> 0])])

FSPixel(e, row, dir, Limit(_), Pick(_, _)) ==
    LET nc == Len(row[1])
        took == [c \in 1 .. nc |-> (e.cur[c] + e.errors[e.at + dir][c] + 8) \div 16] \o <<>>
        wanted == [c \in 1 .. nc |-> Within(Limit(took[c]) + row[e.at + dir][c], 0, Top)] \o <<>>
        shown(picked, err) ==
            [e EXCEPT !.out[e.at + dir] = picked.index,
                      !.errors[e.at] = Plus(e.bpreverr, Times(3, err)),
                      !.bpreverr = Plus(e.belowerr, Times(5, err)),
                      !.belowerr = err,
                      !.cur = Times(7, err),
                      !.cache = picked.cache,
                      !.at = e.at + dir]
        found(picked, pixel) ==
            shown(picked, [c \in 1 .. nc |-> pixel[c] - picked.color[c]] \o <<>>)
        pick(pixel) == found(Pick(e.cache, pixel), pixel)
    IN  pick(wanted)

\* A row; the errors at the last column are stored when it ends.
FSRow(q, row, Limit(_), Pick(_, _)) ==
    LET width == Len(row)
        nc == Len(row[1])
        none == [c \in 1 .. nc |-> 0]
        dir == IF q.on_odd_row THEN -1 ELSE 1
        begun == [at |-> IF q.on_odd_row THEN width + 1 ELSE 0, errors |-> q.fserrors,
                  cur |-> none, belowerr |-> none, bpreverr |-> none, cache |-> q.cache,
                  out |-> [col \in 1 .. width |-> 0] \o <<>>]
        step(e, k) == FSPixel(e, row, dir, Limit, Pick)
        ended(e) == [q EXCEPT !.fserrors = [e.errors EXCEPT ![e.at] = e.bpreverr],
                              !.on_odd_row = ~@,
                              !.cache = e.cache,
                              !.out = Append(@, e.out)]
    IN  ended(Through(step, begun, 1, width))

\* quantize_fs_dither()
quantize_fs_dither(q, n, row) ==
    LET colormap == Grid(n)
        Limit(e) == e
        Pick(cache, v) ==
            LET i == Index(n, v) IN [index |-> i, color |-> colormap[i + 1], cache |-> cache]
    IN  FSRow(q, row, Limit, Pick)

-----------------------------------------------------------------------------
(***************************************************************************)
(* Two passes: the histogram, and the boxes that it is cut into.           *)
(***************************************************************************)
SHIFT == <<3, 2, 3>>
LastCell == <<31, 63, 31>>
MAX_COUNT == 65535

CellOf(pixel) == [k \in 1 .. 3 |-> pixel[k] \div 2 ^ SHIFT[k]] \o <<>>

\* The middle of a cell.
Center(cell) == [k \in 1 .. 3 |-> cell[k] * 2 ^ SHIFT[k] + 2 ^ (SHIFT[k] - 1)] \o <<>>

\* A count that would come round to 0 stays.
prescan_quantize(histogram, row) ==
    LET count(h, col) == LET cell == CellOf(row[col])
                         IN  IF cell \notin DOMAIN h THEN (cell :> 1) @@ h
                             ELSE IF h[cell] = MAX_COUNT THEN h ELSE [h EXCEPT ![cell] = @ + 1]
    IN  Through(count, histogram, 1, Len(row))

\* The weights of the components: 2, 3, 1 for red, green and blue.
Spread(b, k, scale) == (b.max[k] - b.min[k]) * 2 ^ SHIFT[k] * scale[k]

CellsIn(histogram, b) ==
    {cell \in DOMAIN histogram : \A k \in 1 .. 3 : cell[k] \in b.min[k] .. b.max[k]}

\* A box shrinks to the cells that are in it.
update_box(histogram, b, scale) ==
    LET cells == CellsIn(histogram, b)
        low(k) == CHOOSE v \in {c[k] : c \in cells} : \A c \in cells : c[k] >= v
        high(k) == CHOOSE v \in {c[k] : c \in cells} : \A c \in cells : c[k] <= v
        shrunk == IF cells = {} THEN b
                  ELSE [b EXCEPT !.min = <<low(1), low(2), low(3)>>,
                                 !.max = <<high(1), high(2), high(3)>>]
        square(k) == Spread(shrunk, k, scale) * Spread(shrunk, k, scale)
    IN  [shrunk EXCEPT !.volume = square(1) + square(2) + square(3),
                       !.colorcount = Cardinality(cells)]

\* The first of the boxes that can be split and whose value is the greatest; 0 if there is none.
Biggest1(boxes, value(_)) ==
    LET able == {i \in DOMAIN boxes : boxes[i].volume > 0}
    IN  IF able = {} THEN 0
        ELSE CHOOSE i \in able : /\ \A j \in able : value(boxes[j]) <= value(boxes[i])
                                 /\ \A j \in able : j < i => value(boxes[j]) < value(boxes[i])

find_biggest_color_pop(boxes) == LET value(b) == b.colorcount IN Biggest1(boxes, value)
find_biggest_volume(boxes) == LET value(b) == b.volume IN Biggest1(boxes, value)

\* The component to split at: the one of the greatest spread, green before red before blue.
Longest(b, scale) ==
    LET order == IF scale[1] = 2 THEN <<2, 1, 3>> ELSE <<2, 3, 1>>
        better(x, y) == IF Spread(b, y, scale) > Spread(b, x, scale) THEN y ELSE x
    IN  better(better(order[1], order[2]), order[3])

median_cut(histogram, boxes, desired, scale) ==
    LET halves(bs, b1, n, lb) ==
            Append([bs EXCEPT ![b1] = update_box(histogram, [@ EXCEPT !.max[n] = lb], scale)],
                   update_box(histogram, [bs[b1] EXCEPT !.min[n] = lb + 1], scale))
        along(bs, b1, n) == halves(bs, b1, n, (bs[b1].max[n] + bs[b1].min[n]) \div 2)
        split(bs, b1) == IF b1 = 0 THEN bs ELSE along(bs, b1, Longest(bs[b1], scale))
        next(bs, k) == split(bs, IF Len(bs) * 2 <= desired THEN find_biggest_color_pop(bs)
                                 ELSE find_biggest_volume(bs))
    IN  Through(next, boxes, Len(boxes) + 1, desired)

\* The mean of the cells of a box.
compute_color(histogram, b) ==
    LET cells == CellsIn(histogram, b)
        Sum[s \in SUBSET cells] ==
            IF s = {} THEN <<0, 0, 0, 0>>
            ELSE LET c == CHOOSE c \in s : TRUE
                     m == Center(c)
                 IN  Plus(Sum[s \ {c}], Times(histogram[c], <<m[1], m[2], m[3], 1>>))
        total == Sum[cells]
    IN  [k \in 1 .. 3 |-> (total[k] + total[4] \div 2) \div total[4]] \o <<>>

\* The boxes and their colors.
Boxes(histogram, desired, scale) ==
    LET whole == [min |-> <<0, 0, 0>>, max |-> LastCell, volume |-> 0, colorcount |-> 0]
    IN  median_cut(histogram, <<update_box(histogram, whole, scale)>>, desired, scale)
select_colors(histogram, boxes) ==
    [i \in 1 .. Len(boxes) |-> compute_color(histogram, boxes[i])] \o <<>>

-----------------------------------------------------------------------------
(***************************************************************************)
(* The inverse colormap is filled in boxes of 4 x 8 x 4 cells, as pixels   *)
(* ask for them.                                                           *)
(***************************************************************************)
BOX_LOG == <<2, 3, 2>>
BoxOf(cell) == [k \in 1 .. 3 |-> cell[k] \div 2 ^ BOX_LOG[k]] \o <<>>
CellsOfBox(bx) ==
    LET cells(k) == bx[k] * 2 ^ BOX_LOG[k] .. (bx[k] + 1) * 2 ^ BOX_LOG[k] - 1
    IN  {<<a, b, c>> : a \in cells(1), b \in cells(2), c \in cells(3)}

Square(v) == v * v

\* The colors that can be the nearest of some cell of the box: those that are not farther
\* from the box than some color is from all of it.
find_nearby_colors(colormap, bx, scale) ==
    LET minc(k) == Center(Times(1, [i \in 1 .. 3 |-> bx[i] * 2 ^ BOX_LOG[i]]))[k]
        maxc(k) == minc(k) + 2 ^ (SHIFT[k] + BOX_LOG[k]) - 2 ^ SHIFT[k]
        centerc(k) == (minc(k) + maxc(k)) \div 2
        near(x, k) == IF x < minc(k) THEN x - minc(k) ELSE IF x > maxc(k) THEN x - maxc(k) ELSE 0
        far(x, k) == IF x <= centerc(k) THEN x - maxc(k) ELSE x - minc(k)
        dist(i, d(_, _)) == Square(d(colormap[i][1], 1) * scale[1])
                            + Square(d(colormap[i][2], 2) * scale[2])
                            + Square(d(colormap[i][3], 3) * scale[3])
        all == DOMAIN colormap
        minmaxdist == CHOOSE m \in {dist(i, far) : i \in all} : \A i \in all : m <= dist(i, far)
    IN  {i \in all : dist(i, near) <= minmaxdist}

\* For each cell the first of the nearest of these colors.  The distances are those of the
\* first cell, to which every step along a component adds a difference that grows.
find_best_colors(colormap, bx, nearby, scale) ==
    LET first == [k \in 1 .. 3 |-> bx[k] * 2 ^ BOX_LOG[k]]
        STEP(k) == 2 ^ SHIFT[k] * scale[k]
        inc(i, k) == (Center(first)[k] - colormap[i][k]) * scale[k]
        xx(i, k, s) == inc(i, k) * 2 * STEP(k) + STEP(k) * STEP(k) + s * 2 * STEP(k) * STEP(k)
        moved(i, k, steps) ==
            LET d[s \in 0 .. steps] == IF s = 0 THEN 0 ELSE d[s - 1] + xx(i, k, s - 1) IN d[steps]
        along == Known([i \in nearby |-> Known([k \in 1 .. 3 |->
                     Known([s \in 0 .. 2 ^ BOX_LOG[k] - 1 |->
                               Square(inc(i, k)) + moved(i, k, s)])])])
        dist(i, cell) == along[i][1][cell[1] - first[1]] + along[i][2][cell[2] - first[2]]
                         + along[i][3][cell[3] - first[3]]
    IN  [cell \in CellsOfBox(bx) |->
            CHOOSE i \in nearby :
                \A j \in nearby : \/ dist(i, cell) < dist(j, cell)
                                  \/ i <= j /\ dist(i, cell) = dist(j, cell)]

fill_inverse_cmap(cache, colormap, cell, scale) ==
    LET bx == BoxOf(cell)
    IN  find_best_colors(colormap, bx, find_nearby_colors(colormap, bx, scale), scale) @@ cache

\* The entry of a color's cell, after the box has been filled where it is empty.
Lookup(cache, colormap, pixel, scale) ==
    LET found(cell, filled) ==
            [index |-> filled[cell] - 1, color |-> colormap[filled[cell]], cache |-> filled]
        entry(cell) == found(cell, IF cell \in DOMAIN cache THEN cache
                                   ELSE fill_inverse_cmap(cache, colormap, cell, scale))
    IN  entry(CellOf(pixel))

pass2_no_dither(q, row, scale) ==
    LET shown(e, p) == [e EXCEPT !.cache = p.cache, !.row = Append(@, p.index)]
        pixel(e, col) == shown(e, Lookup(e.cache, q.colormap, row[col], scale))
        ended(e) == [q EXCEPT !.cache = e.cache, !.out = Append(@, e.row)]
    IN  ended(Through(pixel, [cache |-> q.cache, row |-> <<>>], 1, Len(row)))

\* init_error_limit(): errors are halved from 16 on, and are not more than 32.
error_limit(e) ==
    LET a == Absolute(e)
        limited == IF a < 16 THEN a ELSE IF a < 48 THEN 16 + (a - 16) \div 2 ELSE 32
    IN  IF e < 0 THEN -limited ELSE limited

pass2_fs_dither(q, row, scale) ==
    LET Pick(cache, v) == Lookup(cache, q.colormap, v, scale)
    IN  FSRow(q, row, error_limit, Pick)

-----------------------------------------------------------------------------
(***************************************************************************)
(* The output passes: between passes the application may install a         *)
(* colormap of its own, have another one selected, and change the          *)
(* dithering.  The two quantizers keep much from pass to pass; the         *)
(* histogram of a prescan lies in the memory of the inverse colormap.      *)
(*                                                                         *)
(* A picture, what one pass puts out before quantization, is a sequence of *)
(* rows; an application that displays a progressive file shows different   *)
(* ones.  The colormap <<>> is NULL.                                       *)
(***************************************************************************)
CONSTANTS Pictures,    \* the pictures of the passes
          Maps,        \* the colormaps the application has
          Desired,     \* desired_number_of_colors
          Width,       \* output_width
          MaxPasses    \* a bound: the passes of an application

ASSUME PassesAssumption == /\ Desired \in 8 .. 256
                           /\ Width \in Nat \ {0}
                           /\ MaxPasses \in Nat
                           /\ \A p \in Pictures : \A r \in DOMAIN p : Len(p[r]) = Width

VARIABLES colormap,    \* cinfo->colormap
          cquantize,   \* the quantizer that is selected
          pass,        \* the pass: its kind, dithering and picture, and the rows put out
          one, two,    \* the private states of the quantizers
          passes,      \* how many passes have been started
          done         \* the output passes of which all rows were put out
passVars == <<colormap, cquantize, pass, one, two, passes, done>>

Scale == <<2, 3, 1>>
Levels == select_ncolors(Desired, <<2, 1, 3>>)
Modes == {"none", "ordered", "fs"}

Between ==
    [kind |-> "none", dither |-> "none", picture |-> <<>>, scanned |-> FALSE, rows |-> 0,
     out |-> <<>>]

PassesInit ==
    /\ colormap \in {<<>>} \cup Maps
    /\ cquantize = "two"
    /\ pass = Between
    /\ one = [fserrors |-> <<>>, on_odd_row |-> FALSE, row_index |-> 0]
    /\ two = [table |-> <<>>, needs_zeroed |-> TRUE, fserrors |-> <<>>, on_odd_row |-> FALSE]
    /\ passes = 0
    /\ done = {}

-----------------------------------------------------------------------------
\* start_pass_1_quant(): what is kept is reset for the dithering that is to be done.
start_pass_1_quant(q, dither) ==
    CASE dither = "none"    -> q
      [] dither = "ordered" -> [q EXCEPT !.row_index = 0]
      [] dither = "fs"      -> [q EXCEPT !.on_odd_row = FALSE, !.fserrors = Zeros(Width, 3)]

\* Mutant of start_pass_2_quant: rows go on in the direction of the last pass.
start_pass_2_quant_KeepingDirection(q, is_pre_scan, dither) ==
    LET prepared == IF ~is_pre_scan /\ dither = "fs"
                    THEN [q EXCEPT !.fserrors = Zeros(Width, 3)] ELSE q
    IN  [prepared EXCEPT !.table = IF is_pre_scan \/ q.needs_zeroed THEN <<>> ELSE @,
                         !.needs_zeroed = FALSE]

\* start_pass_2_quant()
start_pass_2_quant(q, is_pre_scan, dither) ==
    LET prepared == IF ~is_pre_scan /\ dither = "fs"
                    THEN [q EXCEPT !.fserrors = Zeros(Width, 3), !.on_odd_row = FALSE] ELSE q
    IN  [prepared EXCEPT !.table = IF is_pre_scan \/ q.needs_zeroed THEN <<>> ELSE @,
                         !.needs_zeroed = FALSE]

\* The second quantizer has one way of dithering.
DitherOf(quantizer, mode) == IF quantizer = "two" /\ mode = "ordered" THEN "fs" ELSE mode

\* prepare_for_output_pass() when the last pass was no prescan.  Without a colormap one of the
\* quantizers is selected, as two_pass_quantize says.
StartPass(picture, mode, two_pass_quantize) ==
    LET selected == IF colormap # <<>> THEN cquantize
                    ELSE IF two_pass_quantize THEN "two" ELSE "one"
        is_dummy_pass == colormap = <<>> /\ selected = "two"
        dither == DitherOf(selected, mode)
    IN  /\ pass.kind = "none"
        /\ passes < MaxPasses
        /\ passes' = passes + 1
        /\ cquantize' = selected
        /\ pass' = [kind |-> IF is_dummy_pass THEN "prescan" ELSE "output",
                    dither |-> dither, picture |-> picture, scanned |-> is_dummy_pass,
                    rows |-> 0, out |-> <<>>]
        /\ IF selected = "one"
           THEN /\ one' = start_pass_1_quant(one, dither)
                /\ colormap' = Grid(Levels)
                /\ UNCHANGED two
           ELSE /\ two' = start_pass_2_quant(two, is_dummy_pass, dither)
                /\ UNCHANGED <<one, colormap>>
        /\ UNCHANGED done

-----------------------------------------------------------------------------
NextRow == pass.picture[pass.rows + 1]
RowsLeft == pass.rows < Len(pass.picture)
Shown(row) == pass' = [pass EXCEPT !.rows = @ + 1, !.out = Append(@, row)]

\* color_quantize() of the prescan.
Prescan ==
    /\ pass.kind = "prescan" /\ RowsLeft
    /\ two' = [two EXCEPT !.table = prescan_quantize(@, NextRow)]
    /\ pass' = [pass EXCEPT !.rows = @ + 1]
    /\ UNCHANGED <<colormap, cquantize, one, passes, done>>

\* The prescan ends: finish_pass1() selects the colors, and prepare_for_output_pass() starts
\* the pass that shows the same picture.
FinishPrescan ==
    LET needing == [two EXCEPT !.needs_zeroed = TRUE]
    IN  /\ pass.kind = "prescan" /\ ~RowsLeft
        /\ colormap' = select_colors(two.table, Boxes(two.table, Desired, Scale))
        /\ two' = start_pass_2_quant(needing, FALSE, pass.dither)
        /\ pass' = [pass EXCEPT !.kind = "output", !.rows = 0]
        /\ UNCHANGED <<cquantize, one, passes, done>>

\* color_quantize() of the first quantizer.
QuantizeOne ==
    LET q == [fserrors |-> one.fserrors, on_odd_row |-> one.on_odd_row, out |-> <<>>,
              cache |-> <<>>]
    IN  /\ pass.kind = "output" /\ cquantize = "one" /\ RowsLeft
        /\ CASE pass.dither = "none" ->
                  /\ Shown(QuantizedRow(Levels, NextRow))
                  /\ UNCHANGED one
             [] pass.dither = "ordered" ->
                  /\ Shown(OrderedRow(Levels, NextRow, one.row_index))
                  /\ one' = [one EXCEPT !.row_index = (@ + 1) % ODITHER_SIZE]
             [] pass.dither = "fs" ->
                  \E dithered \in {quantize_fs_dither(q, Levels, NextRow)} :
                      /\ Shown(dithered.out[1])
                      /\ one' = [one EXCEPT !.fserrors = dithered.fserrors,
                                            !.on_odd_row = dithered.on_odd_row]
        /\ UNCHANGED <<colormap, cquantize, two, passes, done>>

\* color_quantize() of the second one.
QuantizeTwo ==
    LET q == [cache |-> two.table, colormap |-> colormap, out |-> <<>>,
              fserrors |-> two.fserrors, on_odd_row |-> two.on_odd_row]
    IN  /\ pass.kind = "output" /\ cquantize = "two" /\ RowsLeft
        /\ \E ended \in {IF pass.dither = "none" THEN pass2_no_dither(q, NextRow, Scale)
                         ELSE pass2_fs_dither(q, NextRow, Scale)} :
              /\ Shown(ended.out[1])
              /\ two' = [two EXCEPT !.table = ended.cache, !.fserrors = ended.fserrors,
                                    !.on_odd_row = ended.on_odd_row]
        /\ UNCHANGED <<colormap, cquantize, one, passes, done>>

\* finish_output_pass(), which jpeg_finish_output() calls after any number of rows.
FinishPass ==
    /\ pass.kind = "output"
    /\ pass' = Between
    /\ done' = IF RowsLeft THEN done
               ELSE done \cup {[colormap |-> colormap, by |-> cquantize, dither |-> pass.dither,
                                picture |-> pass.picture, out |-> pass.out]}
    /\ UNCHANGED <<colormap, cquantize, one, two, passes>>

-----------------------------------------------------------------------------
\* The application installs a colormap and calls jpeg_new_colormap().
\* Mutant of new_color_map_2_quant: the inverse colormap stays.
new_color_map_2_quant_Forgotten(q) == q

new_color_map_2_quant(q) == [q EXCEPT !.needs_zeroed = TRUE]

NewColormap(map) ==
    /\ pass.kind = "none"
    /\ colormap' = map
    /\ cquantize' = "two"
    /\ two' = new_color_map_2_quant(two)
    /\ UNCHANGED <<pass, one, passes, done>>

\* It has the colors selected anew.
ForgetColormap ==
    /\ pass.kind = "none" /\ colormap # <<>>
    /\ colormap' = <<>>
    /\ UNCHANGED <<cquantize, pass, one, two, passes, done>>

PassesNext ==
    \/ \E picture \in Pictures, mode \in Modes, two_pass \in BOOLEAN :
           StartPass(picture, mode, two_pass)
    \/ Prescan \/ FinishPrescan \/ QuantizeOne \/ QuantizeTwo \/ FinishPass
    \/ \E map \in Maps : NewColormap(map)
    \/ ForgetColormap

-----------------------------------------------------------------------------
\* The weighted distance of two colors.
Distance(u, v) ==
    Square((u[1] - v[1]) * Scale[1]) + Square((u[2] - v[2]) * Scale[2])
    + Square((u[3] - v[3]) * Scale[3])

\* Without dithering the second quantizer shows each pixel in a color of the colormap that is in
\* force, and no other color of it is nearer to the middle of the pixel's cell: the inverse
\* colormap is never that of an earlier colormap, nor the histogram it shares its memory with,
\* and the colors left out when a box of it is filled are none that any cell needs.
NearestChosen ==
    pass.kind = "output" /\ cquantize = "two" /\ pass.dither = "none" =>
        \A r \in DOMAIN pass.out : \A col \in 1 .. Width :
            LET middle == Center(CellOf(pass.picture[r][col]))
            IN  /\ pass.out[r][col] + 1 \in DOMAIN colormap
                /\ \A i \in DOMAIN colormap : Distance(colormap[pass.out[r][col] + 1], middle)
                                              <= Distance(colormap[i], middle)

\* When the second quantizer has selected the colors for this pass, there are no more of them
\* than desired; and when the picture has no more colors, in cells of the histogram, than that,
\* every pixel that is not dithered is shown in a color of its own cell: no count of an earlier
\* picture is left in the histogram, and the boxes are cut until each cell has its own.
FewColorsKept ==
    LET p == pass.picture
        cells == {CellOf(p[r][col]) : r \in DOMAIN p, col \in 1 .. Width}
    IN  pass.kind = "output" /\ pass.scanned =>
            /\ Len(colormap) <= Desired
            /\ pass.dither = "none" /\ Cardinality(cells) <= Desired =>
                   \A r \in DOMAIN pass.out : \A col \in 1 .. Width :
                       CellOf(colormap[pass.out[r][col] + 1]) = CellOf(p[r][col])

\* Two passes over the same picture with the same colormap, quantizer and dithering put out the
\* same: no pass goes on with the errors, the direction or the row of the one before it.
SamePassSameOutput ==
    \A a, b \in done :
        (a # b) => <<a.colormap, a.by, a.dither, a.picture>>
                   # <<b.colormap, b.by, b.dither, b.picture>>

=============================================================================
