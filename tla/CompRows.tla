------------------------------ MODULE CompRows ------------------------------
(***************************************************************************)
(* The rows of an image on their way into the compressor: the calls of     *)
(* jpeg_write_scanlines (jcapistd.c), the main buffer controller with its  *)
(* suspension hack (jcmainct.c), the preprocessor with its wrapped-around  *)
(* conversion buffer (jcprepct.c), and what the downsamplers (jcsample.c)  *)
(* take from it.                                                           *)
(*                                                                         *)
(* Two components: luma has max_v_samp_factor sample rows in a row group,  *)
(* chroma has setup.rgroup.  An input row is worth its line number, and a  *)
(* sample row the sequence of input rows it is made from.  Columns are     *)
(* left out.                                                               *)
(***************************************************************************)
EXTENDS Integers, Sequences

CONSTANTS DCTSIZE,     \* row groups of an iMCU row, 8 in the code
          Setups,      \* the images considered
          MaxLines,    \* bound on num_lines of jpeg_write_scanlines
          Suspending   \* may the data destination suspend?

(* V: max_v_samp_factor; context: are context rows wanted for smoothing?   *)
ASSUME RowsAssumption ==
    /\ DCTSIZE \in Nat \ {0} /\ MaxLines \in Nat \ {0} /\ Suspending \in BOOLEAN
    /\ \A s \in Setups :
          /\ s.V \in Nat \ {0} /\ s.rgroup \in 1 .. s.V
          /\ s.V % s.rgroup = 0
          /\ s.image_height \in Nat \ {0}
          /\ s.context \in BOOLEAN

VARIABLES
    setup,           \* fixed during compression
    color_buf,       \* conversion buffer of one row group, or of three
    rows_to_go, next_buf_row,            \* the preprocessor's counters,
    this_row_group, next_buf_stop,       \* the latter two for context rows
    buffer,          \* the main controller's iMCU row, by row group
    rowgroup_ctr, cur_iMCU_row, suspended,
    next_scanline,
    in_call, in_row_ctr, in_rows_avail,  \* jpeg_write_scanlines in progress
    last             \* the last iMCU row compressed, as it was

prep == <<color_buf, rows_to_go, next_buf_row, this_row_group, next_buf_stop>>
main == <<buffer, rowgroup_ctr, cur_iMCU_row, suspended, last>>
api == <<setup, next_scanline, in_call, in_rows_avail>>
vars == <<prep, main, api, in_row_ctr>>

max_v_samp_factor == setup.V
image_height == setup.image_height
need_context_rows == setup.context
lines_per_iMCU_row == DCTSIZE * max_v_samp_factor
CeilDiv(a, b) == (a + b - 1) \div b
total_iMCU_rows == CeilDiv(image_height, lines_per_iMCU_row)
Min2(a, b) == IF a < b THEN a ELSE b
Components == {"luma", "chroma"}
rgroup(c) == IF c = "luma" THEN max_v_samp_factor ELSE setup.rgroup

(***************************************************************************)
(* The conversion buffer.  With context rows three row groups, and the row *)
(* pointers above and below them wrap around.                              *)
(***************************************************************************)
buf_height == IF need_context_rows THEN 3 * max_v_samp_factor
                                   ELSE max_v_samp_factor
color_row(buf, i) == buf[i % buf_height]
NoRow == -1

(* Rows first .. last of the buffer from input rows in_row, in_row+1 ...   *)
color_convert(buf, first, numrows, in_row) ==
    [i \in DOMAIN buf |-> IF i \in first .. first + numrows - 1
                            THEN in_row + i - first ELSE buf[i]]

expand_bottom_edge(buf, input_rows, output_rows) ==
    [i \in DOMAIN buf |-> IF i \in input_rows .. output_rows - 1
                            THEN color_row(buf, input_rows - 1) ELSE buf[i]]

(* The context above the first row: rows -1 .. -max_v_samp_factor.         *)
pad_top(buf) ==
    [i \in DOMAIN buf |-> IF i \in 2 * max_v_samp_factor .. buf_height - 1
                            THEN buf[0] ELSE buf[i]]

(* Sample row j of the row group at row base: the input rows it covers,    *)
(* with smoothing also one above and one below.  (Not every downsampler    *)
(* uses them.)                                                             *)
SampleRow(buf, base, c, j) ==
    LET height == max_v_samp_factor \div rgroup(c)
        first == base + j * height
    IN  IF need_context_rows
          THEN [i \in 1 .. height + 2 |-> color_row(buf, first + i - 2)]
          ELSE [i \in 1 .. height |-> color_row(buf, first + i - 1)]

downsample(buf, base) ==
    [c \in Components |-> [j \in 0 .. rgroup(c) - 1 |->
                              SampleRow(buf, base, c, j)]]

Empty == [c \in Components |-> [j \in 0 .. rgroup(c) - 1 |-> << >>]]

Init ==
    /\ setup \in Setups
    /\ color_buf = [i \in 0 .. buf_height - 1 |-> NoRow]
    /\ rows_to_go = image_height /\ next_buf_row = 0
    /\ this_row_group = 0 /\ next_buf_stop = 2 * max_v_samp_factor
    /\ buffer = [g \in 0 .. DCTSIZE - 1 |-> Empty]
    /\ rowgroup_ctr = 0 /\ cur_iMCU_row = 0 /\ suspended = FALSE
    /\ next_scanline = 0
    /\ in_call = FALSE /\ in_row_ctr = 0 /\ in_rows_avail = 0
    /\ last = << >>

(* Extra lines at the bottom are ignored; a call past it takes none.       *)
jpeg_write_scanlines(num_lines) ==
    /\ ~in_call
    /\ in_call' = TRUE
    /\ in_row_ctr' = 0
    /\ in_rows_avail' = Min2(num_lines, image_height - next_scanline)
    /\ UNCHANGED <<prep, main, setup, next_scanline>>

(* The loops of process_data_simple_main and of the preprocessor go on.    *)
Processing == in_call /\ cur_iMCU_row < total_iMCU_rows
MoreRows == in_row_ctr < in_rows_avail
CanPreProcess ==
    /\ rowgroup_ctr < DCTSIZE
    /\ MoreRows \/ (need_context_rows /\ rows_to_go = 0)

(* The next rows of the application's buffer, as many as are wanted.       *)
Wanted(stop) == Min2(stop - next_buf_row, in_rows_avail - in_row_ctr)
Converted(numrows) ==
    color_convert(color_buf, next_buf_row, numrows, next_scanline + in_row_ctr)
TakeRows(numrows) ==
    /\ in_row_ctr' = in_row_ctr + numrows
    /\ rows_to_go' = rows_to_go - numrows

(* A full row group goes to the main buffer.  At the bottom of the image   *)
(* the downsampled rows are repeated until the iMCU row is full.           *)
PadOutput(buf, filled) ==
    [g \in 0 .. DCTSIZE - 1 |->
        IF g < filled THEN buf[g]
        ELSE [c \in Components |-> [j \in 0 .. rgroup(c) - 1 |->
                 buf[filled - 1][c][rgroup(c) - 1]]]]

PreProcessRows ==
    LET numrows == Wanted(max_v_samp_factor)
        bottom == rows_to_go - numrows = 0
        filled == next_buf_row + numrows
        padded == IF bottom
                    THEN expand_bottom_edge(Converted(numrows), filled,
                                            max_v_samp_factor)
                    ELSE Converted(numrows)
        full == bottom \/ filled = max_v_samp_factor
        emptied == [buffer EXCEPT ![rowgroup_ctr] = downsample(padded, 0)]
    IN  /\ Processing /\ CanPreProcess /\ ~need_context_rows
        /\ TakeRows(numrows)
        /\ color_buf' = padded
        /\ next_buf_row' = IF full THEN 0 ELSE filled
        /\ buffer' = IF bottom THEN PadOutput(emptied, rowgroup_ctr + 1)
                     ELSE IF full THEN emptied ELSE buffer
        /\ rowgroup_ctr' = IF bottom THEN DCTSIZE
                           ELSE IF full THEN rowgroup_ctr + 1 ELSE rowgroup_ctr
        /\ UNCHANGED <<api, this_row_group, next_buf_stop,
                       cur_iMCU_row, suspended, last>>

(* With context rows the buffer wraps around; a row group is downsampled   *)
(* when the one below it has been read.                                    *)
StopAfter_TwoGroups(row) == row + 2 * max_v_samp_factor
StopAfter(row) == row + max_v_samp_factor
AdvanceContext(buf, filled) ==
    IF filled = next_buf_stop
      THEN /\ buffer' = [buffer EXCEPT ![rowgroup_ctr] =
                                          downsample(buf, this_row_group)]
           /\ rowgroup_ctr' = rowgroup_ctr + 1
           /\ this_row_group' = (this_row_group + max_v_samp_factor) % buf_height
           /\ next_buf_row' = filled % buf_height
           /\ next_buf_stop' = StopAfter(filled % buf_height)
      ELSE /\ next_buf_row' = filled
           /\ UNCHANGED <<buffer, rowgroup_ctr, this_row_group, next_buf_stop>>

PreProcessContext ==
    LET numrows == Wanted(next_buf_stop)
        top == rows_to_go = image_height
        converted == IF top THEN pad_top(Converted(numrows))
                            ELSE Converted(numrows)
    IN  /\ Processing /\ CanPreProcess /\ need_context_rows
        /\ IF MoreRows
             THEN /\ TakeRows(numrows)
                  /\ color_buf' = converted
                  /\ AdvanceContext(converted, next_buf_row + numrows)
             ELSE /\ color_buf' = expand_bottom_edge(color_buf, next_buf_row,
                                                     next_buf_stop)
                  /\ AdvanceContext(color_buf', next_buf_stop)
                  /\ UNCHANGED <<in_row_ctr, rows_to_go>>
        /\ UNCHANGED <<api, cur_iMCU_row, suspended, last>>

(* The completed iMCU row goes to the coefficient controller.  If that had *)
(* been suspended, the last input row is taken now.                        *)
RowsTaken_NotAgain == in_row_ctr
RowsTaken == IF suspended THEN in_row_ctr + 1 ELSE in_row_ctr
CompressRow ==
    /\ Processing /\ rowgroup_ctr = DCTSIZE
    /\ last' = buffer
    /\ in_row_ctr' = RowsTaken
    /\ suspended' = FALSE
    /\ rowgroup_ctr' = 0
    /\ cur_iMCU_row' = cur_iMCU_row + 1
    /\ UNCHANGED <<prep, api, buffer>>

Return(rows) ==
    /\ in_call' = FALSE
    /\ next_scanline' = next_scanline + rows
    /\ in_row_ctr' = 0 /\ in_rows_avail' = 0
    /\ UNCHANGED <<prep, setup, buffer, rowgroup_ctr, cur_iMCU_row, last>>

(* It suspends instead: the last input row is taken back, so that the      *)
(* application calls again even if it was the last of the image.           *)
RowsTakenWhenSuspended ==
    IF suspended THEN in_row_ctr ELSE in_row_ctr - 1
SuspendRow ==
    /\ Suspending
    /\ Processing /\ rowgroup_ctr = DCTSIZE
    /\ suspended' = TRUE
    /\ Return(RowsTakenWhenSuspended)

ReturnForMore ==
    /\ in_call
    /\ \/ cur_iMCU_row = total_iMCU_rows
       \/ (rowgroup_ctr < DCTSIZE /\ ~CanPreProcess)
    /\ Return(in_row_ctr)
    /\ UNCHANGED suspended

CallStep == PreProcessRows \/ PreProcessContext \/ CompressRow
               \/ SuspendRow \/ ReturnForMore

Next ==
    \/ \E n \in 0 .. MaxLines : jpeg_write_scanlines(n)
    \/ PreProcessRows \/ PreProcessContext
    \/ CompressRow \/ SuspendRow \/ ReturnForMore

Spec == Init /\ [][Next]_vars

(* The library runs on; the application goes on with at least one line at  *)
(* a time; a destination that suspends does not do so for ever.            *)
Fairness ==
    /\ WF_vars(CallStep)
    /\ SF_vars(CompressRow)
    /\ SF_vars(\E n \in 1 .. MaxLines : jpeg_write_scanlines(n))

FairSpec == Spec /\ Fairness

(***************************************************************************)
(* Properties.                                                             *)
(***************************************************************************)
Lines == 0 .. image_height - 1
FlagsOK == suspended \in BOOLEAN /\ in_call \in BOOLEAN

(* The counters stay in range: row indexes inside the conversion buffer    *)
(* and the iMCU row, and in_row_ctr, which suspension takes back, not      *)
(* below 0.                                                                *)
TypeOK ==
    /\ setup \in Setups
    /\ color_buf \in [0 .. buf_height - 1 -> Lines \cup {NoRow}]
    /\ rows_to_go \in 0 .. image_height
    /\ next_buf_row \in 0 .. buf_height
    /\ this_row_group \in 0 .. buf_height - 1
    /\ need_context_rows => next_buf_row < next_buf_stop
    /\ need_context_rows => next_buf_stop \in 1 .. buf_height
    /\ DOMAIN buffer = 0 .. DCTSIZE - 1
    /\ rowgroup_ctr \in 0 .. DCTSIZE
    /\ cur_iMCU_row \in 0 .. total_iMCU_rows
    /\ FlagsOK
    /\ next_scanline \in 0 .. image_height
    /\ in_row_ctr \in 0 .. MaxLines /\ in_rows_avail \in 0 .. MaxLines

(* The rows the preprocessor has counted are those the application was     *)
(* told were taken, but for the one held back while suspended.             *)
RowsAccountedFor ==
    image_height - rows_to_go =
        next_scanline + in_row_ctr + (IF suspended THEN 1 ELSE 0)

(* The invariant: every counter in its range, and all of them in accord.   *)
CountersAgree == TypeOK /\ RowsAccountedFor

(* Sample row k of a component as it should be: lines outside the image    *)
(* are the nearest inside.                                                 *)
Clamp(y) == IF y < 0 THEN 0 ELSE Min2(y, image_height - 1)
ImageRow(c, k) ==
    LET height == max_v_samp_factor \div rgroup(c)
    IN  IF need_context_rows
          THEN [i \in 1 .. height + 2 |-> Clamp(k * height + i - 2)]
          ELSE [i \in 1 .. height |-> Clamp(k * height + i - 1)]

sample_rows(c) == CeilDiv(image_height * rgroup(c), max_v_samp_factor)

(* What was compressed is iMCU row r; padding below the bottom is free.    *)
IsIMCURow(rows, r) ==
    \A g \in 0 .. DCTSIZE - 1, c \in Components :
        \A j \in 0 .. rgroup(c) - 1 :
            LET k == (r * DCTSIZE + g) * rgroup(c) + j
            IN  k < sample_rows(c) => rows[g][c][j] = ImageRow(c, k)

IMCURowOf(rows) ==
    IF \E r \in 0 .. total_iMCU_rows - 1 : IsIMCURow(rows, r)
      THEN CHOOSE r \in 0 .. total_iMCU_rows - 1 : IsIMCURow(rows, r) ELSE -1

SW == INSTANCE ScanlineWriter WITH
    height   <- image_height,
    per_row  <- lines_per_iMCU_row,
    supplied <- image_height - rows_to_go,
    line     <- next_scanline,
    done     <- cur_iMCU_row,
    out      <- IF cur_iMCU_row = 0 THEN -1 ELSE IMCURowOf(last)

(* The compressor is given every iMCU row once, in order, made of the      *)
(* right lines and their neighbours, whatever number of lines the calls    *)
(* bring and wherever it suspends; and it has had all of them when the     *)
(* application is told that its last line was taken.                       *)
ImplementsWriter == SW!Spec

(* "This should be less than the supplied num_lines only in case that the  *)
(* data destination module has requested suspension" (jcapistd.c).         *)
TakesAllUnlessSuspended ==
    [][ReturnForMore => next_scanline' >= next_scanline + in_rows_avail]_vars

(* An application that calls until next_scanline is image_height gets      *)
(* there.                                                                  *)
AllLinesTaken == <>(next_scanline = image_height)

(* The application's lines are taken, all of a call's and all of an        *)
(* image's.                                                                *)
LinesTaken == TakesAllUnlessSuspended /\ AllLinesTaken
=============================================================================
