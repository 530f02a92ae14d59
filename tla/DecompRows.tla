----------------------------- MODULE DecompRows -----------------------------
(***************************************************************************)
(* The rows of an image on their way to the application: the main buffer   *)
(* controller with its "funny" pointer lists (jdmainct.c), the upsamplers  *)
(* (jdsample.c, jdmerge.c), the postprocessor (jdpostct.c), and the calls  *)
(* that drive them, jpeg_read_scanlines and jpeg_skip_scanlines            *)
(* (jdapistd.c).                                                           *)
(*                                                                         *)
(* There are two components: luma has max_v_samp_factor sample rows in a   *)
(* row group, chroma has setup.rgroup.  A sample row is worth its number   *)
(* in the component, or Padding below the bottom; a scanline is worth the  *)
(* sample rows it is made from.  Columns are left out.                     *)
(***************************************************************************)
EXTENDS Integers, Sequences

CONSTANTS Setups,        \* the images and output parameters considered
          MaxLines,      \* bound on max_lines of jpeg_read_scanlines
          AnyCalls       \* see ReadsCleanly and SkipsCleanly

Kinds == {"simple", "context", "merged"}

(* kind: the upsampler, sep_upsample without or with context rows or the   *)
(* merged one; M: min_DCT_scaled_size; V: max_v_samp_factor; quant: color  *)
(* quantization in no, one or two passes.  Context rows are asked for by   *)
(* the 1:2 fancy upsamplers only, and not if M = 1.                        *)
ASSUME RowsAssumption ==
    /\ \A s \in Setups :
          /\ s.kind \in Kinds
          /\ s.M \in Nat \ {0} /\ s.V \in 1 .. 4 /\ s.rgroup \in 1 .. s.V
          /\ s.output_height \in Nat \ {0}
          /\ s.quant \in {"none", "one", "two"}
          /\ s.kind = "context" => s.M > 1 /\ s.V = 2 * s.rgroup
          /\ s.kind = "merged" => s.V <= 2 /\ s.rgroup = 1
    /\ MaxLines \in Nat \ {0}
    /\ AnyCalls \in BOOLEAN

VARIABLES setup,     \* fixed during decompression
          pass,      \* the pass: "read", or "dummy" and then "crank"
          d          \* the decompressor, see Fresh; d.rows is what the
                     \* last call handed out

vars == <<setup, pass, d>>

M == setup.M
max_v_samp_factor == setup.V
output_height == setup.output_height
need_context_rows == setup.kind = "context"
using_merged_upsample == setup.kind = "merged"

Components == {"luma", "chroma"}
rgroup(c) == IF c = "luma" THEN max_v_samp_factor ELSE setup.rgroup
lines_per_iMCU_row == M * max_v_samp_factor
CeilDiv(a, b) == (a + b - 1) \div b
total_iMCU_rows == CeilDiv(output_height, lines_per_iMCU_row)
downsampled_height(c) == CeilDiv(output_height * rgroup(c), max_v_samp_factor)
Min2(a, b) == IF a < b THEN a ELSE b
Min3(a, b, c) == Min2(a, Min2(b, c))

(***************************************************************************)
(* Sample rows and scanlines.                                              *)
(***************************************************************************)
Padding == -1
Sample(c, r) == IF r < downsampled_height(c) THEN r ELSE Padding
Clamp(r, top) == IF r < 0 THEN 0 ELSE IF r > top THEN top ELSE r

(* The line the application is to get as line y of the image: its own luma *)
(* row with the chroma row it lies in, and with context rows also the      *)
(* chroma row on its other side, the last one inside the image standing in *)
(* for those outside it.                                                   *)
Scanline(y) ==
    LET near == (y * setup.rgroup) \div max_v_samp_factor
        other == IF y % 2 = 0 THEN near - 1 ELSE near + 1
    IN  IF need_context_rows
          THEN <<y, near, Clamp(other, downsampled_height("chroma") - 1)>>
          ELSE <<y, near>>

(***************************************************************************)
(* The pointer lists.  With context rows the workspace has M+2 row groups  *)
(* and xbuffer[w][c] maps the row numbers -rgroup .. (M+3)*rgroup-1 to     *)
(* rows of the workspace.                                                  *)
(***************************************************************************)
GroupsInBuffer == IF need_context_rows THEN M + 2 ELSE M
WorkRows(c) == 0 .. GroupsInBuffer * rgroup(c) - 1
ListRows(c) == -rgroup(c) .. (M + 3) * rgroup(c) - 1

(* NULL pointers before they are set: no row at all.                       *)
Unset == -99

(* Row i of the second list: the last four row groups in swapped order.    *)
Swapped(c, i) ==
    LET g == i \div rgroup(c)
    IN  IF g \in {M - 2, M - 1} THEN i + 2 * rgroup(c)
        ELSE IF g \in {M, M + 1} THEN i - 2 * rgroup(c) ELSE i

make_funny_pointers ==
    [w \in 0 .. 1 |-> [c \in Components |-> [i \in ListRows(c) |->
        IF i \in WorkRows(c) THEN IF w = 0 THEN i ELSE Swapped(c, i)
        ELSE IF w = 0 /\ i < 0 THEN 0
        ELSE Unset]]]

set_wraparound_pointers(xbuffer) ==
    [w \in 0 .. 1 |-> [c \in Components |-> [i \in ListRows(c) |->
        IF i < 0 THEN xbuffer[w][c][i + (M + 2) * rgroup(c)]
        ELSE IF i >= (M + 2) * rgroup(c)
               THEN xbuffer[w][c][i - (M + 2) * rgroup(c)]
        ELSE xbuffer[w][c][i]]]]

(* Sample rows of the component in the last iMCU row.                      *)
rows_left(c) ==
    LET rest == downsampled_height(c) % (M * rgroup(c))
    IN  IF rest = 0 THEN M * rgroup(c) ELSE rest

set_bottom_pointers_NoPad(x) == x
set_bottom_pointers(x) ==
    LET duplicated(c, i) ==
            i \in rows_left(c) .. rows_left(c) + 2 * rgroup(c) - 1
    IN  [x EXCEPT
           !.xbuffer[x.whichptr] = [c \in Components |-> [i \in ListRows(c) |->
               IF duplicated(c, i) THEN @[c][rows_left(c) - 1] ELSE @[c][i]]],
           !.rowgroups_avail = (rows_left("luma") - 1) \div rgroup("luma") + 1]

(* The row of the workspace behind row i of the buffer the upsampler sees. *)
WorkRow(x, w, c, i) == IF need_context_rows THEN x.xbuffer[w][c][i] ELSE i
RowOf(x, w, c, i) ==
    LET r == WorkRow(x, w, c, i)
    IN  IF r = Unset THEN Padding ELSE x.buffer[c][r]

(***************************************************************************)
(* coef->decompress_data: the next iMCU row into the buffer.               *)
(***************************************************************************)
decompress_data(x) ==
    LET first(c) == x.output_iMCU_row * M * rgroup(c)
        target(c, k) == WorkRow(x, x.whichptr, c, k)
        Filled(c) == 0 .. M * rgroup(c) - 1
    IN  [x EXCEPT
           !.buffer = [c \in Components |-> [r \in WorkRows(c) |->
               IF \E k \in Filled(c) : target(c, k) = r
                 THEN Sample(c, first(c) + CHOOSE k \in Filled(c) :
                                               target(c, k) = r)
                 ELSE x.buffer[c][r]]],
           !.output_iMCU_row = @ + 1,
           !.iMCU_row_ctr = IF need_context_rows THEN @ + 1 ELSE @,
           !.buffer_full = TRUE]

(***************************************************************************)
(* The upsamplers.  They add scanlines to x.rows, at most room of them.    *)
(***************************************************************************)
(* h1v2 and h2v2_fancy_upsample, and int_upsample: chroma rows of line v   *)
(* of row group g.                                                         *)
ChromaRows(x, g, v) ==
    LET near == g * setup.rgroup + (v * setup.rgroup) \div max_v_samp_factor
        other == IF v % 2 = 0 THEN near - 1 ELSE near + 1
        row(i) == RowOf(x, x.whichptr, "chroma", i)
    IN  IF need_context_rows THEN <<row(near), row(other)>> ELSE <<row(near)>>

Lines == 0 .. max_v_samp_factor - 1

(* fullsize_upsample copies nothing: color_buf points into the buffer.     *)
FillColorBuf(x) ==
    [x EXCEPT
       !.color_buf = [luma   |-> <<x.whichptr,
                                   x.rowgroup_ctr * max_v_samp_factor>>,
                      chroma |-> [v \in Lines |->
                                     ChromaRows(x, x.rowgroup_ctr, v)]],
       !.next_row_out = 0]

color_convert(x, v) ==
    <<RowOf(x, x.color_buf.luma[1], "luma", x.color_buf.luma[2] + v)>>
        \o x.color_buf.chroma[v]

EmitRows(x, room) ==
    LET num_rows == Min3(max_v_samp_factor - x.next_row_out, x.rows_to_go, room)
        emptied == x.next_row_out + num_rows >= max_v_samp_factor
    IN  [x EXCEPT
           !.rows = @ \o [i \in 1 .. num_rows |->
                             color_convert(x, x.next_row_out + i - 1)],
           !.rows_to_go = @ - num_rows,
           !.next_row_out = @ + num_rows,
           !.rowgroup_ctr = IF emptied THEN @ + 1 ELSE @]

sep_upsample(x, room) ==
    EmitRows(IF x.next_row_out >= max_v_samp_factor THEN FillColorBuf(x) ELSE x,
             room)

MergedLine(x, v) ==
    <<RowOf(x, 0, "luma", x.rowgroup_ctr * max_v_samp_factor + v)>>
        \o ChromaRows(x, x.rowgroup_ctr, v)

merged_1v_upsample(x) ==
    [x EXCEPT !.rows = Append(@, MergedLine(x, 0)), !.rowgroup_ctr = @ + 1]

(* The second line of the row group goes to spare_row if there is no room. *)
merged_2v_upsample(x, room) ==
    LET num_rows == Min3(2, x.rows_to_go, room)
    IN  IF x.spare_full
          THEN [x EXCEPT !.rows = Append(@, x.spare_row),
                         !.spare_full = FALSE,
                         !.rows_to_go = @ - 1,
                         !.rowgroup_ctr = @ + 1]
          ELSE [x EXCEPT !.rows = @ \o [i \in 1 .. num_rows |->
                                           MergedLine(x, i - 1)],
                         !.spare_full = num_rows <= 1,
                         !.spare_row = IF num_rows <= 1 THEN MergedLine(x, 1)
                                                        ELSE @,
                         !.rows_to_go = @ - num_rows,
                         !.rowgroup_ctr = IF num_rows <= 1 THEN @ ELSE @ + 1]

upsample(x, room) ==
    IF ~using_merged_upsample THEN sep_upsample(x, room)
    ELSE IF max_v_samp_factor = 2 THEN merged_2v_upsample(x, room)
    ELSE merged_1v_upsample(x)

(***************************************************************************)
(* The postprocessor.  x.out_row_ctr counts up to avail (out_rows_avail).  *)
(***************************************************************************)
(* post_process_1pass, or the upsampler itself; y is x after upsampling.    *)
Emitted(x, y) == Len(y.rows) - Len(x.rows)
CountRows(x, y) == [y EXCEPT !.out_row_ctr = @ + Emitted(x, y)]
post_process_1pass(x, avail) ==
    CountRows(x, upsample(x,
        IF setup.quant = "none" THEN avail - x.out_row_ctr
        ELSE Min2(avail - x.out_row_ctr, max_v_samp_factor)))

AdvanceStrip(x, num_rows) ==
    IF x.next_row + num_rows >= max_v_samp_factor
      THEN [x EXCEPT !.starting_row = @ + max_v_samp_factor, !.next_row = 0]
      ELSE [x EXCEPT !.next_row = @ + num_rows]

(* The dummy pass: upsampled lines go to the strip of the whole image.     *)
StoreRows(x, y) ==
    LET first == x.starting_row + x.next_row
    IN  [y EXCEPT
           !.rows = << >>,
           !.whole_image = [r \in DOMAIN @ |->
               IF r \in first .. first + Emitted(x, y) - 1
                 THEN y.rows[r - first + 1] ELSE @[r]]]
KeepRows(x, y) == AdvanceStrip(StoreRows(x, CountRows(x, y)), Emitted(x, y))
post_process_prepass(x) ==
    KeepRows(x, upsample(x, max_v_samp_factor - x.next_row))

post_process_2pass(x, avail) ==
    LET num_rows == Min3(max_v_samp_factor - x.next_row,
                         avail - x.out_row_ctr,
                         output_height - x.starting_row)
        first == x.starting_row + x.next_row
        z == [x EXCEPT
                !.rows = @ \o [i \in 1 .. num_rows |->
                                  x.whole_image[first + i - 1]],
                !.out_row_ctr = @ + num_rows]
    IN  AdvanceStrip(z, num_rows)

post_process_data(x, avail) ==
    IF pass = "dummy" THEN post_process_prepass(x)
                      ELSE post_process_1pass(x, avail)

(***************************************************************************)
(* The main buffer controller.                                             *)
(***************************************************************************)
Consume(x) == IF x.rowgroup_ctr >= M
                THEN [x EXCEPT !.buffer_full = FALSE, !.rowgroup_ctr = 0] ELSE x
process_data_simple_main(x, avail) == Consume(post_process_data(x, avail))

Finished(x) == x.rowgroup_ctr >= x.rowgroups_avail

SetBottom(x) ==
    IF x.iMCU_row_ctr = total_iMCU_rows THEN set_bottom_pointers(x) ELSE x
PrepareForIMCU(x) ==
    SetBottom([x EXCEPT !.rowgroup_ctr = 0, !.rowgroups_avail = M - 1,
                        !.context_state = "CTX_PROCESS_IMCU"])

(* All but the last row group are out.  That one is at index M+1 of the    *)
(* other list and waits for the next iMCU row, its context below.          *)
PostponeLastGroup_SameList(x) ==
    [x EXCEPT
       !.xbuffer = IF x.iMCU_row_ctr = 1 THEN set_wraparound_pointers(@) ELSE @,
       !.buffer_full = FALSE,
       !.rowgroup_ctr = M + 1, !.rowgroups_avail = M + 2,
       !.context_state = "CTX_POSTPONED_ROW"]
PostponeLastGroup(x) ==
    [x EXCEPT
       !.xbuffer = IF x.iMCU_row_ctr = 1 THEN set_wraparound_pointers(@) ELSE @,
       !.whichptr = 1 - @,
       !.buffer_full = FALSE,
       !.rowgroup_ctr = M + 1, !.rowgroups_avail = M + 2,
       !.context_state = "CTX_POSTPONED_ROW"]

Postpone(x) == IF Finished(x) THEN PostponeLastGroup(x) ELSE x
ProcessIMCU(x, avail) == Postpone(post_process_data(x, avail))

FinishPostponed(x, avail) ==
    IF ~Finished(x) THEN x
    ELSE IF x.out_row_ctr >= avail
           THEN [x EXCEPT !.context_state = "CTX_PREPARE_FOR_IMCU"]
    ELSE ProcessIMCU(PrepareForIMCU(x), avail)

process_data_context_main(x, avail) ==
    IF x.context_state = "CTX_POSTPONED_ROW"
      THEN FinishPostponed(post_process_data(x, avail), avail)
      ELSE ProcessIMCU(IF x.context_state = "CTX_PREPARE_FOR_IMCU"
                         THEN PrepareForIMCU(x) ELSE x, avail)

(* main->process_data; data: can the coefficient controller deliver?       *)
FillBuffer(x) == IF x.buffer_full THEN x ELSE decompress_data(x)
process_data(x, avail, data) ==
    IF pass = "crank" THEN post_process_2pass(x, avail)
    ELSE IF ~x.buffer_full /\ ~data THEN x
    ELSE IF need_context_rows THEN process_data_context_main(FillBuffer(x), avail)
    ELSE process_data_simple_main(FillBuffer(x), avail)

(* One call of jpeg_read_scanlines.                                        *)
AddScanlines(x) == [x EXCEPT !.output_scanline = @ + x.out_row_ctr]
ReadLines(x, max_lines, data) ==
    IF x.output_scanline >= output_height THEN x
    ELSE AddScanlines(process_data([x EXCEPT !.rows = << >>, !.out_row_ctr = 0],
                                   max_lines, data))

(***************************************************************************)
(* jpeg_skip_scanlines above the bottom of the image.                      *)
(***************************************************************************)
read_and_discard_scanlines(x, num_lines) ==
    LET after[n \in 0 .. num_lines] ==
            IF n = 0 THEN x ELSE ReadLines(after[n - 1], 1, TRUE)
    IN  [after[num_lines] EXCEPT !.rows = << >>]

(* Whole row groups are stepped over, the rows that are left are read.     *)
spare_row_used == using_merged_upsample /\ max_v_samp_factor = 2
increment_simple_rowgroup_ctr_All(x, rows) ==
    read_and_discard_scanlines(
        [x EXCEPT !.rowgroup_ctr = @ + rows \div max_v_samp_factor,
                  !.output_scanline = @ + rows], rows % max_v_samp_factor)
increment_simple_rowgroup_ctr(x, rows) ==
    LET rows_left_over == rows % max_v_samp_factor
        y == [x EXCEPT !.rowgroup_ctr = @ + rows \div max_v_samp_factor,
                       !.output_scanline = @ + rows - rows_left_over]
    IN  read_and_discard_scanlines(IF spare_row_used THEN x ELSE y,
                                   IF spare_row_used THEN rows
                                                     ELSE rows_left_over)

(* rows_to_go belongs to sep_upsample here.                                *)
ResetUpsampler(x) ==
    IF using_merged_upsample THEN x
    ELSE [x EXCEPT !.next_row_out = max_v_samp_factor,
                   !.rows_to_go = output_height - x.output_scanline]
CountRowsToGo(x) ==
    IF using_merged_upsample THEN x
    ELSE [x EXCEPT !.rows_to_go = output_height - x.output_scanline]

lines_left_in_iMCU_row(x) ==
    (-x.output_scanline) % lines_per_iMCU_row

(* Whole iMCU rows are passed over, the rest is read or stepped over.      *)
SkipIMCURows(x, lines_after, lines_to_skip) ==
    LET rows == lines_to_skip \div lines_per_iMCU_row
        y == [x EXCEPT !.output_scanline = @ + lines_to_skip,
                       !.output_iMCU_row = @ + rows]
        lines_to_read == lines_after - lines_to_skip
    IN  CountRowsToGo(
          IF need_context_rows
            THEN read_and_discard_scanlines([y EXCEPT !.iMCU_row_ctr = @ + rows],
                                            lines_to_read)
            ELSE increment_simple_rowgroup_ctr(y, lines_to_read))

(* At the end of an iMCU row the next one may be in the buffer already.    *)
NextRowDecoded(x) == lines_left_in_iMCU_row(x) <= 1 /\ x.buffer_full

WholeIMCURows(lines) == (lines \div lines_per_iMCU_row) * lines_per_iMCU_row

(* The target line needs the iMCU row before it for its context, unless it *)
(* is the second line of its own or lies below.                            *)
ContextLinesToSkip(lines) == WholeIMCURows(lines - 1)

SkipWithContext(x, num_lines) ==
    LET left == lines_left_in_iMCU_row(x)
        gone == IF NextRowDecoded(x) THEN left + lines_per_iMCU_row ELSE left
        y == [x EXCEPT
                !.output_scanline = @ + gone,
                !.xbuffer = IF \/ x.iMCU_row_ctr = 0
                               \/ x.iMCU_row_ctr = 1 /\ left > 2
                              THEN set_wraparound_pointers(@) ELSE @,
                !.buffer_full = FALSE,
                !.rowgroup_ctr = 0,
                !.context_state = "CTX_PREPARE_FOR_IMCU"]
    IN  IF \/ num_lines < left + 1
           \/ NextRowDecoded(x) /\ num_lines - left < lines_per_iMCU_row + 1
          THEN read_and_discard_scanlines(x, num_lines)
          ELSE SkipIMCURows(ResetUpsampler(y), num_lines - gone,
                            ContextLinesToSkip(num_lines - gone))

SkipSimple(x, num_lines) ==
    LET left == lines_left_in_iMCU_row(x)
        y == [x EXCEPT !.output_scanline = @ + left,
                       !.buffer_full = FALSE,
                       !.rowgroup_ctr = 0]
    IN  IF num_lines < left THEN increment_simple_rowgroup_ctr(x, num_lines)
        ELSE SkipIMCURows(ResetUpsampler(y), num_lines - left,
                          WholeIMCURows(num_lines - left))

SkipLines(x, num_lines) ==
    LET y == [x EXCEPT !.rows = << >>]
    IN  IF x.output_scanline + num_lines >= output_height
          THEN [y EXCEPT !.output_scanline = output_height]
        ELSE IF num_lines = 0 THEN y
        ELSE IF need_context_rows THEN SkipWithContext(y, num_lines)
        ELSE SkipSimple(y, num_lines)
(***************************************************************************)
(* Passes and calls.                                                       *)
(***************************************************************************)
Image == 0 .. CeilDiv(output_height, max_v_samp_factor) * max_v_samp_factor - 1

(* After jinit_d_main_controller, jinit_upsampler, jinit_merged_upsampler  *)
(* and jinit_d_post_controller.                                            *)
Fresh ==
    [buffer |-> [c \in Components |-> [r \in WorkRows(c) |-> Padding]],
     xbuffer |-> IF need_context_rows THEN make_funny_pointers ELSE << >>,
     buffer_full |-> FALSE, rowgroup_ctr |-> 0, rowgroups_avail |-> 0,
     whichptr |-> 0, context_state |-> "CTX_PREPARE_FOR_IMCU",
     iMCU_row_ctr |-> 0, output_iMCU_row |-> 0,
     color_buf |-> [luma |-> <<0, 0>>, chroma |-> [v \in Lines |-> << >>]],
     next_row_out |-> max_v_samp_factor, rows_to_go |-> output_height,
     spare_full |-> FALSE, spare_row |-> << >>,
     starting_row |-> 0, next_row |-> 0,
     whole_image |-> [r \in Image |-> << >>],
     output_scanline |-> 0, out_row_ctr |-> 0, rows |-> << >>]

(* quant "two" makes both quantizers ready, and in buffered-image mode each *)
(* pass chooses one of them.                                               *)
Passes == IF setup.quant = "two" THEN {"dummy", "read"} ELSE {"read"}

Init ==
    /\ setup \in Setups
    /\ pass \in Passes
    /\ d = Fresh

(* The start_pass methods of the main controller, the upsampler and the    *)
(* postprocessor.  color_buf, the spare row and the samples stay.          *)
start_output_pass(x) ==
    [Fresh EXCEPT !.buffer = x.buffer, !.color_buf = x.color_buf,
                  !.spare_row = x.spare_row, !.whole_image = x.whole_image]

(* The final pass of two-pass quantization reads whole_image only.         *)
start_crank_pass(x) ==
    [x EXCEPT !.starting_row = 0, !.next_row = 0, !.output_scanline = 0,
              !.rows = << >>]

(* The reads that come out right.  post_process_2pass takes the bottom of  *)
(* the image to be as far from next_row as it is from starting_row: once   *)
(* the last strip is read in part, as many lines must not be asked for as  *)
(* would go below the bottom.                                              *)
ReadsCleanly(max_lines) ==
    \/ AnyCalls
    \/ pass = "crank" /\ d.next_row > 0 =>
          \/ max_lines <= output_height - d.output_scanline
          \/ max_v_samp_factor - d.next_row <= output_height - d.output_scanline

jpeg_read_scanlines(max_lines, data) ==
    /\ pass \in {"read", "crank"}
    /\ d.output_scanline < output_height
    /\ ReadsCleanly(max_lines)
    /\ d' = ReadLines(d, max_lines, data)
    /\ UNCHANGED <<setup, pass>>

(* The skips that come out right.  Some do not, unless they begin at a row *)
(* group: with context rows and max_v_samp_factor 4 a decoded iMCU row is  *)
(* taken for one that is not (with 2, the code is prepared for it), and    *)
(* without context rows the conversion buffer of sep_upsample or the spare *)
(* row of the merged upsampler is left behind.  A skip to the middle of an *)
(* iMCU row does not decode it, and a second skip takes it for decoded.    *)
(* The merged upsampler's rows_to_go is not updated, nor is that of the    *)
(* others when row groups are stepped over without leaving the iMCU row,   *)
(* which tells if the last row group is cut: lines below the bottom are    *)
(* handed out.  AnyCalls allows all these calls.                           *)
AtRowGroup == d.output_scanline % max_v_samp_factor = 0
SkippedIntoIMCURow == d.rowgroup_ctr > 0 /\ ~d.buffer_full
CutAtBottom == output_height % max_v_samp_factor # 0
SkipsCleanly(num_lines) ==
    \/ AnyCalls
    \/ need_context_rows /\ (max_v_samp_factor = 2 \/ AtRowGroup)
    \/ /\ ~need_context_rows /\ AtRowGroup /\ ~SkippedIntoIMCURow
       /\ CutAtBottom =>
             /\ ~using_merged_upsample
             /\ \/ num_lines < max_v_samp_factor
                \/ num_lines >= lines_left_in_iMCU_row(d)

jpeg_skip_scanlines(num_lines) ==
    /\ pass = "read"
    /\ d.output_scanline < output_height
    /\ SkipsCleanly(num_lines)
    /\ d' = SkipLines(d, num_lines)
    /\ UNCHANGED <<setup, pass>>

(* output_pass_setup: the dummy pass counts in output_scanline.            *)
DummyPassRows(data) ==
    /\ pass = "dummy" /\ d.output_scanline < output_height
    /\ LET x == process_data([d EXCEPT !.out_row_ctr = d.output_scanline],
                             0, data)
       IN  d' = [x EXCEPT !.output_scanline = x.out_row_ctr]
    /\ UNCHANGED <<setup, pass>>

DummyPassDone ==
    /\ pass = "dummy" /\ d.output_scanline >= output_height
    /\ pass' = "crank"
    /\ d' = start_crank_pass(d)
    /\ UNCHANGED setup

(* jpeg_start_output in buffered-image mode, in the middle of a pass too.  *)
jpeg_start_output ==
    /\ pass # "dummy"
    /\ pass' \in Passes
    /\ d' = start_output_pass(d)
    /\ UNCHANGED setup

Next ==
    \/ \E n \in 1 .. MaxLines, data \in BOOLEAN : jpeg_read_scanlines(n, data)
    \/ \E n \in 0 .. output_height : jpeg_skip_scanlines(n)
    \/ \E data \in BOOLEAN : DummyPassRows(data)
    \/ DummyPassDone
    \/ jpeg_start_output

Spec == Init /\ [][Next]_vars

(***************************************************************************)
(* Properties.                                                             *)
(***************************************************************************)
(* The counters of the controllers stay in range, the pointer lists point  *)
(* into the workspace, and no iMCU row is asked for below the last.        *)
TypeOK ==
    /\ setup \in Setups /\ pass \in {"read", "dummy", "crank"}
    /\ \A c \in Components :
          /\ d.buffer[c] \in
                [WorkRows(c) -> 0 .. downsampled_height(c) - 1 \cup {Padding}]
          /\ need_context_rows => \A w \in 0 .. 1, i \in ListRows(c) :
                d.xbuffer[w][c][i] \in WorkRows(c) \cup {Unset}
    /\ d.rowgroup_ctr \in 0 .. M + 2 /\ d.rowgroups_avail \in 0 .. M + 2
    /\ d.whichptr \in 0 .. 1
    /\ d.iMCU_row_ctr \in 0 .. total_iMCU_rows
    /\ d.output_iMCU_row \in 0 .. total_iMCU_rows
    /\ d.next_row_out \in 0 .. max_v_samp_factor
    /\ d.rows_to_go \in 0 .. output_height
    /\ d.next_row \in 0 .. max_v_samp_factor - 1
    /\ d.output_scanline \in 0 .. output_height

(* The line of the image a row of the output is, -1 if it is none.         *)
LineOf(row) ==
    IF \E y \in 0 .. output_height - 1 : Scanline(y) = row
      THEN CHOOSE y \in 0 .. output_height - 1 : Scanline(y) = row ELSE -1

SR == INSTANCE ScanlineReader WITH
    height <- output_height,
    line   <- IF pass = "dummy" THEN 0 ELSE d.output_scanline,
    given  <- [i \in 1 .. Len(d.rows) |-> LineOf(d.rows[i])]

(* Whatever the application asks for, it gets the lines of the image in    *)
(* order, made from the right sample rows: the swapped pointer lists, the  *)
(* postponed row group, the spare row, the duplicated rows at the top and  *)
(* at the bottom, and the jumps of jpeg_skip_scanlines all come out even.  *)
ImplementsReader == SR!Spec

(* A read or a step of the dummy pass that is not held up by the data      *)
(* source gets somewhere: the loops of jpeg_read_scanlines' callers and of *)
(* output_pass_setup rely on it.                                           *)
ReadsAdvance ==
    [][(\/ \E n \in 1 .. MaxLines : jpeg_read_scanlines(n, TRUE)
        \/ DummyPassRows(TRUE))
         => d'.output_scanline > d.output_scanline]_vars

(* jpeg_skip_scanlines "will always skip all of the input rows requested"  *)
(* or go to the bottom.                                                    *)
SkipsAsAsked ==
    [][\A n \in 0 .. output_height : jpeg_skip_scanlines(n) =>
          d'.output_scanline = Min2(d.output_scanline + n, output_height)]_vars

(* The calls get as far as they say, no less and no more.                  *)
CallsAsAsked == ReadsAdvance /\ SkipsAsAsked
=============================================================================
