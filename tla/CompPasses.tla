----------------------------- MODULE CompPasses -----------------------------
(***************************************************************************)
(* The passes of the compressor over an image: jpeg_start_compress,        *)
(* jpeg_write_coefficients and jpeg_finish_compress (jcapistd.c, jctrans.c,*)
(* jcapimin.c), the master control that chooses the passes (jcmaster.c),   *)
(* the coefficient controllers that form MCUs and may be suspended         *)
(* (jccoefct.c, jctrans.c), the Huffman tables they are coded with and the *)
(* headers that tell the decoder of them (jchuff.c, jcphuff.c, jcmarker.c).*)
(*                                                                         *)
(* An image is measured in DCT blocks, the input comes in iMCU rows, a     *)
(* Huffman table is worth what it was computed for.                        *)
(***************************************************************************)
EXTENDS Integers, Sequences, FiniteSets

CONSTANTS Images,      \* the images and parameters the application chooses
          MaxImages,   \* bound on the images compressed with one object
          Suspending,  \* may the data destination suspend?
          FreshTables  \* does the application define all Huffman tables anew
                       \* before each image that is not optimized?

(* comps: the components, with sampling factors and table numbers; width   *)
(* and height: blocks of a component of full size; scan_info: the script,  *)
(* empty for none.  A scan has its components, Ss, Se and Ah.              *)
progressive_mode(i) ==
    i.scan_info # << >> /\ (i.scan_info[1].Ss # 0 \/ i.scan_info[1].Se # 63)

(* What initial_setup and validate_script let pass, of components that use *)
(* the tables of jpeg_set_defaults.                                        *)
Components == [h : 1 .. 4, v : 1 .. 4, dc : {0, 1}, ac : {0, 1}]
ScansOf(i) == [comps : Seq(DOMAIN i.comps) \ {<< >>},
               Ss : 0 .. 63, Se : 0 .. 63, Ah : Nat]
Valid(i, s) ==
    IF progressive_mode(i) THEN s.Ss <= s.Se /\ (s.Ss = 0 => s.Se = 0)
                           ELSE s.Ss = 0 /\ s.Se = 63 /\ s.Ah = 0
IsImage(i) ==
    /\ i.comps \in Seq(Components) \ {<< >>}
    /\ i.width \in Nat \ {0} /\ i.height \in Nat \ {0}
    /\ {i.optimize, i.arith, i.transcode} \subseteq BOOLEAN
    /\ i.restart_in_rows \in Nat
    /\ i.scan_info \in Seq(ScansOf(i))
    /\ \A k \in DOMAIN i.scan_info : Valid(i, i.scan_info[k])
ASSUME ImagesAssumption ==
    /\ MaxImages \in Nat
    /\ Suspending \in BOOLEAN /\ FreshTables \in BOOLEAN
    /\ \A i \in Images : IsImage(i)

VARIABLES
    global_state, step,        \* where the object is; where the library is
    img, images,               \* image being compressed, how many there were
    optimize_coding,
    pass_type, pass_number, scan_number, total_passes,
    is_last_pass, call_pass_startup,           \* the master control
    scan, restart_interval, gather,            \* set up for the pass
    iMCU_row_num, mcu_ctr, MCU_vert_offset,    \* the coefficient controller
    yoffset, MCU_col_num,                      \* its loops, during a call
    whole_image,               \* block rows saved by the first pass
    mcus,                      \* MCUs coded in this pass
    huff,                      \* Huffman tables: made for what, sent or not
    last_restart_interval,     \* the marker writer's
    phase, scans, written, marked,             \* the datastream so far
    told                       \* what it has told the decoder

master == <<pass_type, pass_number, scan_number, total_passes,
            is_last_pass, call_pass_startup>>
params == <<img, images, optimize_coding>>
setup == <<scan, restart_interval, gather>>
coef == <<iMCU_row_num, mcu_ctr, MCU_vert_offset>>
loops == <<yoffset, MCU_col_num>>
stream == <<phase, scans, written, marked>>
vars == <<global_state, step, params, master, setup, coef, loops,
          whole_image, mcus, huff, last_restart_interval, stream, told>>

-----------------------------------------------------------------------------
(* Sizes.                                                                  *)
CeilDiv(a, b) == (a + b - 1) \div b
MaxOf(S) == CHOOSE m \in S : \A n \in S : n <= m
max_h(i) == MaxOf({i.comps[c].h : c \in DOMAIN i.comps})
max_v(i) == MaxOf({i.comps[c].v : c \in DOMAIN i.comps})
width_in_blocks(i, c) == CeilDiv(i.width * i.comps[c].h, max_h(i))
height_in_blocks(i, c) == CeilDiv(i.height * i.comps[c].v, max_v(i))
total_iMCU_rows(i) == CeilDiv(i.height, max_v(i))

AllComponents(i) == [comps |-> [c \in DOMAIN i.comps |-> c],
                     Ss |-> 0, Se |-> 63, Ah |-> 0]
(* Past the script, which TypeOK excludes, any entry would do.              *)
num_scans(i) == IF i.scan_info = << >> THEN 1 ELSE Len(i.scan_info)
select_scan_parameters(i, n) ==
    IF i.scan_info = << >> THEN AllComponents(i)
    ELSE i.scan_info[IF n < num_scans(i) THEN n + 1 ELSE 1]

interleaved(s) == Len(s.comps) > 1
MCU_width(i, s, c) == IF interleaved(s) THEN i.comps[c].h ELSE 1
MCU_height(i, s, c) == IF interleaved(s) THEN i.comps[c].v ELSE 1
MCUs_per_row(i, s) ==
    IF interleaved(s) THEN CeilDiv(i.width, max_h(i))
                      ELSE width_in_blocks(i, s.comps[1])
(* What is left over in the last one, or a full one.                       *)
Left_NotFull(n, size) == n % size
Left(n, size) == IF n % size = 0 THEN size ELSE n % size
last_col_width(i, s, c) == Left(width_in_blocks(i, c), MCU_width(i, s, c))
last_row_height(i, s, c) == Left(height_in_blocks(i, c), i.comps[c].v)

(* The MCU rows of an iMCU row; in a scan of one component, its block rows.*)
MCU_rows_per_iMCU_row ==
    IF interleaved(scan) THEN 1
    ELSE IF iMCU_row_num < total_iMCU_rows(img) - 1
      THEN img.comps[scan.comps[1]].v
      ELSE last_row_height(img, scan, scan.comps[1])

(* restart_in_rows, when set, decides the restart interval of each scan.   *)
RestartInterval(i, s) ==
    IF i.restart_in_rows = 0 THEN restart_interval
    ELSE i.restart_in_rows * MCUs_per_row(i, s)

-----------------------------------------------------------------------------
(* Blocks.  A dummy block has no AC coefficients, and the DC coefficient   *)
(* of the block before it in the MCU.                                      *)
Real(y, x) == [ac |-> TRUE, y |-> y, x |-> x]
Dummy(y, x) == [ac |-> FALSE, y |-> y, x |-> x]

(* The blocks of component c in the MCU at the given column and the given  *)
(* MCU row of the current iMCU row, dummy blocks made on the fly.          *)
BlocksMade(c, row, col) ==
    LET blockcnt == IF col < MCUs_per_row(img, scan) - 1
                      THEN MCU_width(img, scan, c)
                      ELSE last_col_width(img, scan, c)
        real_rows == IF iMCU_row_num < total_iMCU_rows(img) - 1
                       THEN MCU_height(img, scan, c)
                       ELSE last_row_height(img, scan, c) - row
        y0 == iMCU_row_num * img.comps[c].v + row
        x0 == col * MCU_width(img, scan, c)
    IN  [yi \in 0 .. MCU_height(img, scan, c) - 1 |->
          [xi \in 0 .. MCU_width(img, scan, c) - 1 |->
             IF yi < real_rows
               THEN IF xi < blockcnt THEN Real(y0 + yi, x0 + xi)
                    ELSE Dummy(y0 + yi, x0 + blockcnt - 1)
               ELSE Dummy(y0 + real_rows - 1, x0 + blockcnt - 1)]]

(* The same from the virtual arrays, where the first pass has put them.    *)
BlocksSaved(c, row, col) ==
    [yi \in 0 .. MCU_height(img, scan, c) - 1 |->
      [xi \in 0 .. MCU_width(img, scan, c) - 1 |->
         whole_image[c][iMCU_row_num * img.comps[c].v + row + yi]
                       [col * MCU_width(img, scan, c) + xi]]]

(* The virtual array of a component once the first pass has saved iMCU row *)
(* r: what it saves goes by the sampling factors alone, not by the scan.   *)
Padded(n, size) == CeilDiv(n, size) * size
SaveRows(i, c, r) ==
    LET v == i.comps[c].v
        h == i.comps[c].h
        block_rows == IF r < total_iMCU_rows(i) - 1 THEN v
                      ELSE Left(height_in_blocks(i, c), v)
        across == width_in_blocks(i, c)
        LastInMCU(x) == (x \div h) * h + h - 1
        RowBlock(y, x) == IF x < across THEN Real(y, x) ELSE Dummy(y, across - 1)
    IN  [y \in DOMAIN whole_image[c] |->
           IF y \notin r * v .. r * v + v - 1 THEN whole_image[c][y]
           ELSE [x \in 0 .. Padded(across, h) - 1 |->
                   IF y < r * v + block_rows THEN RowBlock(y, x)
                   ELSE Dummy(r * v + block_rows - 1,
                              RowBlock(y, LastInMCU(x)).x)]]

EmptyArrays(i) ==
    [c \in DOMAIN i.comps |->
        [y \in 0 .. Padded(height_in_blocks(i, c), i.comps[c].v) - 1 |-> << >>]]

-----------------------------------------------------------------------------
(* Huffman tables, by kind and number; each was made for something, and    *)
(* has codes for all symbols or for those of some MCUs of one scan.        *)
Slots == {"dc", "ac"} \X {0, 1}
Standard == [image |-> 0, scan |-> 0, codes |-> -1]
ThisScan == [image |-> images, scan |-> scan_number, codes |-> mcus]

(* The tables that a scan is coded with: the sequential coder uses both    *)
(* kinds, the progressive one goes by the band.                            *)
CodedWith(i, s) ==
    LET C == {i.comps[s.comps[k]] : k \in DOMAIN s.comps}
    IN  IF i.arith THEN {}
        ELSE IF ~progressive_mode(i)
          THEN {<<"dc", c.dc>> : c \in C} \cup {<<"ac", c.ac>> : c \in C}
        ELSE IF s.Ss # 0 THEN {<<"ac", c.ac>> : c \in C}
        ELSE IF s.Ah = 0 THEN {<<"dc", c.dc>> : c \in C}
        ELSE {}

(* The tables that the scan header brings, unless they are sent already.   *)
HeaderTables_NotAC(i, s) ==
    LET C == {i.comps[s.comps[k]] : k \in DOMAIN s.comps}
    IN  IF i.arith THEN {} ELSE {<<"dc", c.dc>> : c \in C}
HeaderTables(i, s) ==
    LET C == {i.comps[s.comps[k]] : k \in DOMAIN s.comps}
    IN  IF i.arith THEN {}
        ELSE (IF s.Ss = 0 /\ s.Ah = 0 THEN {<<"dc", c.dc>> : c \in C} ELSE {})
               \cup (IF s.Se # 0 THEN {<<"ac", c.ac>> : c \in C} ELSE {})

(* jpeg_set_defaults fills the tables that are not there, and after the    *)
(* first image they are there.  An application that knows puts them back.  *)
Define(tables, i) ==
    [t \in Slots |->
        IF FreshTables /\ ~i.optimize /\ tables[t].for # Standard
          THEN [for |-> Standard, sent |-> FALSE] ELSE tables[t]]
jpeg_suppress_tables(tables, suppress) ==
    [t \in Slots |-> [tables[t] EXCEPT !.sent = suppress]]

NoImage == [comps |-> <<[h |-> 1, v |-> 1, dc |-> 0, ac |-> 0]>>,
            width |-> 1, height |-> 1, scan_info |-> << >>,
            optimize |-> FALSE, arith |-> FALSE, transcode |-> FALSE,
            restart_in_rows |-> 0]
NoScan == [comps |-> << >>, Ss |-> 0, Se |-> 63, Ah |-> 0]

Init ==
    /\ global_state = "START" /\ step = "app"
    /\ img = NoImage /\ images = 0 /\ optimize_coding = FALSE
    /\ pass_type = "main" /\ pass_number = 0 /\ scan_number = 0
    /\ total_passes = 0 /\ is_last_pass = FALSE /\ call_pass_startup = FALSE
    /\ scan = NoScan /\ restart_interval = 0 /\ gather = FALSE
    /\ iMCU_row_num = 0 /\ mcu_ctr = 0 /\ MCU_vert_offset = 0
    /\ yoffset = 0 /\ MCU_col_num = 0
    /\ whole_image = << >> /\ mcus = 0
    /\ huff = [t \in Slots |-> [for |-> Standard, sent |-> FALSE]]
    /\ last_restart_interval = 0
    /\ phase = "none" /\ scans = 0 /\ written = 0 /\ marked = FALSE
    /\ told = [tables |-> [t \in Slots |-> << >>], restart_interval |-> 0]

-----------------------------------------------------------------------------
(* Steps that operations share.                                            *)

Fail == step' = "failed"

(* start_pass of the entropy coder and of the coefficient controller.      *)
StartPass(statistics) ==
    /\ gather' = statistics
    /\ iMCU_row_num' = 0 /\ mcu_ctr' = 0 /\ MCU_vert_offset' = 0
    /\ mcus' = 0

SetUpScan(i, s) ==
    /\ scan' = s
    /\ restart_interval' = RestartInterval(i, s)

(* write_frame_header for the first scan, write_scan_header.               *)
WriteHeaders(tables, i, s, interval) ==
    LET new == {t \in HeaderTables(i, s) : ~tables[t].sent}
    IN  /\ told' = [tables |-> [t \in Slots |-> IF t \in new
                                  THEN tables[t].for ELSE told.tables[t]],
                    restart_interval |->
                       IF interval # last_restart_interval
                         THEN interval ELSE told.restart_interval]
        /\ last_restart_interval' = interval
        /\ huff' = [t \in Slots |->
                      [tables[t] EXCEPT !.sent = @ \/ t \in new]]
        /\ phase' = "frame" /\ scans' = scans + 1 /\ written' = 0
        /\ UNCHANGED marked

(* jinit_c_master_control, write_file_header.                              *)
StartImage(i, write_all_tables) ==
    LET optimize == i.optimize \/ (progressive_mode(i) /\ ~i.arith)
    IN  /\ global_state = "START" /\ step = "app" /\ images < MaxImages
        /\ img' = i /\ images' = images + 1
        /\ optimize_coding' = optimize
        /\ pass_number' = 0 /\ scan_number' = 0
        /\ total_passes' = IF optimize THEN 2 * num_scans(i) ELSE num_scans(i)
        /\ huff' = IF write_all_tables
                     THEN jpeg_suppress_tables(Define(huff, i), FALSE)
                     ELSE Define(huff, i)
        /\ phase' = "header" /\ scans' = 0 /\ written' = 0 /\ marked' = FALSE
        /\ last_restart_interval' = 0
        /\ told' = [told EXCEPT !.restart_interval = 0]
        /\ whole_image' = EmptyArrays(i)
        /\ UNCHANGED loops

(* The main pass of the full compressor is set up at once; the arithmetic  *)
(* coder refuses to gather statistics.                                     *)
jpeg_start_compress(i, write_all_tables) ==
    /\ ~i.transcode
    /\ StartImage(i, write_all_tables)
    /\ pass_type' = "main"
    /\ SetUpScan(i, select_scan_parameters(i, 0))
    /\ StartPass(optimize_coding')
    /\ is_last_pass' = (total_passes' = 1)
    /\ call_pass_startup' = ~optimize_coding'
    /\ IF i.arith /\ optimize_coding'
         THEN Fail /\ UNCHANGED global_state
         ELSE step' = "app" /\ global_state' = "SCANNING"

(* Transcoding has no main pass, and waits for jpeg_finish_compress.       *)
jpeg_write_coefficients(i) ==
    /\ i.transcode
    /\ StartImage(i, TRUE)
    /\ pass_type' = IF optimize_coding' THEN "huff_opt" ELSE "output"
    /\ is_last_pass' = FALSE /\ call_pass_startup' = FALSE
    /\ global_state' = "WRCOEFS"
    /\ iMCU_row_num' = 0 /\ mcu_ctr' = 0 /\ MCU_vert_offset' = 0
    /\ UNCHANGED <<step, setup, mcus>>

(* Documented to come before any line of the image.                        *)
jpeg_write_marker ==
    /\ step = "app"
    /\ \/ global_state = "WRCOEFS"
       \/ /\ global_state = "SCANNING" /\ iMCU_row_num = 0
          /\ call_pass_startup \/ (optimize_coding /\ mcus = 0)
    /\ marked' = TRUE
    /\ UNCHANGED <<global_state, step, params, master, setup, coef, loops,
          whole_image, mcus, huff, last_restart_interval, told,
          phase, scans, written>>

(* The first call of jpeg_write_scanlines or jpeg_write_raw_data.          *)
pass_startup ==
    /\ step = "app" /\ global_state = "SCANNING" /\ call_pass_startup
    /\ call_pass_startup' = FALSE
    /\ WriteHeaders(huff, img, scan, restart_interval)
    /\ UNCHANGED <<global_state, step, params, setup, coef, loops, mcus,
          whole_image, pass_type, pass_number, scan_number, total_passes,
          is_last_pass>>

(* compress_data of the coefficient controller is called for an iMCU row,  *)
(* by the application's calls in the main pass, else by the loop of        *)
(* jpeg_finish_compress.  A first pass of several saves the row.           *)
first_pass == pass_type = "main" /\ total_passes > 1
CallCompress ==
    /\ \/ step = "app" /\ global_state = "SCANNING" /\ ~call_pass_startup
       \/ step = "pass"
    /\ iMCU_row_num < total_iMCU_rows(img)
    /\ step' = IF step = "app" THEN "compress" ELSE "compress in pass"
    /\ yoffset' = MCU_vert_offset
    /\ MCU_col_num' = mcu_ctr
    /\ whole_image' = IF first_pass
                        THEN [c \in DOMAIN img.comps |->
                                 SaveRows(img, c, iMCU_row_num)]
                        ELSE whole_image
    /\ UNCHANGED <<global_state, params, master, setup, coef, mcus, huff,
                   last_restart_interval, stream, told>>

Compressing == step \in {"compress", "compress in pass"}
MoreMCUs == yoffset < MCU_rows_per_iMCU_row

(* mcu_ctr only counts for the MCU row that was suspended.                 *)
mcu_ctr_at_end_NotReset == mcu_ctr
mcu_ctr_at_end == 0
EncodeMCU ==
    LET row_ends == MCU_col_num + 1 >= MCUs_per_row(img, scan)
    IN  /\ Compressing /\ MoreMCUs
        /\ mcus' = mcus + 1
        /\ written' = IF gather THEN written ELSE written + 1
        /\ mcu_ctr' = IF row_ends THEN mcu_ctr_at_end ELSE mcu_ctr
        /\ MCU_col_num' = IF row_ends THEN mcu_ctr' ELSE MCU_col_num + 1
        /\ yoffset' = IF row_ends THEN yoffset + 1 ELSE yoffset
        /\ UNCHANGED <<global_state, step, params, master, setup, iMCU_row_num,
              MCU_vert_offset, whole_image, huff, last_restart_interval,
              phase, scans, marked, told>>

(* The iMCU row is complete; start_iMCU_row.                               *)
EndRow ==
    /\ Compressing /\ ~MoreMCUs
    /\ iMCU_row_num' = iMCU_row_num + 1
    /\ mcu_ctr' = 0 /\ MCU_vert_offset' = 0
    /\ step' = IF step = "compress" THEN "app" ELSE "pass"
    /\ UNCHANGED <<global_state, params, master, setup, loops, whole_image,
          mcus, huff, last_restart_interval, stream, told>>

(* The destination has no room for the MCU.  Only the sequential Huffman   *)
(* coder backs up, and jpeg_finish_compress cannot be suspended.           *)
CanSuspend_InFinish == ~img.arith /\ ~progressive_mode(img)
CanSuspend == step = "compress" /\ ~img.arith /\ ~progressive_mode(img)
SuspendMCU ==
    /\ Suspending /\ Compressing /\ MoreMCUs /\ ~gather
    /\ IF CanSuspend
         THEN /\ step' = "app"
              /\ MCU_vert_offset' = yoffset /\ mcu_ctr' = MCU_col_num
         ELSE Fail /\ UNCHANGED <<MCU_vert_offset, mcu_ctr>>
    /\ UNCHANGED <<global_state, params, master, setup, loops, iMCU_row_num,
          whole_image, mcus, huff, last_restart_interval, stream, told>>

-----------------------------------------------------------------------------
(* finish_pass: the statistics become tables, and the pass is counted.     *)
finish_pass_entropy ==
    huff' = [t \in Slots |->
               IF gather /\ t \in CodedWith(img, scan)
                 THEN [for |-> ThisScan, sent |-> FALSE] ELSE huff[t]]

scan_is_output == pass_type = "output" \/ (pass_type = "main" /\ ~optimize_coding)
finish_pass_master ==
    /\ finish_pass_entropy
    /\ scan_number' = IF scan_is_output THEN scan_number + 1 ELSE scan_number
    /\ pass_type' = IF pass_type = "output" /\ optimize_coding
                      THEN "huff_opt" ELSE "output"
    /\ pass_number' = pass_number + 1
    /\ step' = "next"
    /\ UNCHANGED <<global_state, params, setup, coef, loops, whole_image, mcus,
          total_passes, is_last_pass, call_pass_startup,
          last_restart_interval, stream, told>>

TooLittleData == iMCU_row_num < total_iMCU_rows(img)
jpeg_finish_compress ==
    /\ step = "app" /\ global_state = "SCANNING"
    /\ IF TooLittleData
         THEN /\ Fail
              /\ UNCHANGED <<global_state, params, master, setup, coef, loops,
                    whole_image, mcus, huff, last_restart_interval, stream, told>>
         ELSE finish_pass_master

jpeg_finish_compress_coefs ==
    /\ step = "app" /\ global_state = "WRCOEFS"
    /\ step' = "next"
    /\ UNCHANGED <<global_state, params, master, setup, coef, loops,
          whole_image, mcus, huff, last_restart_interval, stream, told>>

FinishPass ==
    /\ step = "pass" /\ iMCU_row_num = total_iMCU_rows(img)
    /\ finish_pass_master

(* What is left of a scan, headers and the trailer cannot be suspended.    *)
EmitFails ==
    /\ Suspending
    /\ \/ /\ step = "pass" \/ (step = "app" /\ global_state = "SCANNING")
          /\ iMCU_row_num = total_iMCU_rows(img) /\ ~gather
       \/ step = "app" /\ global_state = "SCANNING" /\ call_pass_startup
       \/ step = "next" /\ (is_last_pass \/ pass_type = "output")
    /\ Fail
    /\ UNCHANGED <<global_state, params, master, setup, coef, loops,
          whole_image, mcus, huff, last_restart_interval, stream, told>>

(* prepare_for_pass.  A DC refinement scan needs no Huffman table, and no  *)
(* pass to make one.                                                       *)
OptimizeScan(s) == s.Ss # 0 \/ s.Ah = 0 \/ img.arith
PrepareOptimization ==
    LET s == select_scan_parameters(img, scan_number)
    IN  /\ step = "next" /\ ~is_last_pass /\ pass_type = "huff_opt"
        /\ OptimizeScan(s)
        /\ SetUpScan(img, s)
        /\ StartPass(TRUE)
        /\ is_last_pass' = (pass_number = total_passes - 1)
        /\ call_pass_startup' = FALSE
        /\ step' = IF img.arith THEN "failed" ELSE "pass"
        /\ UNCHANGED <<global_state, params, loops, whole_image, huff,
              pass_type, pass_number, scan_number, total_passes,
              last_restart_interval, stream, told>>

passes_skipped == IF pass_type = "huff_opt" THEN 1 ELSE 0
PrepareOutput ==
    LET s == select_scan_parameters(img, scan_number)
    IN  /\ step = "next" /\ ~is_last_pass
        /\ pass_type = "output" \/ ~OptimizeScan(s)
        /\ IF optimize_coding /\ pass_type = "output"
             THEN UNCHANGED <<scan, restart_interval>> ELSE SetUpScan(img, s)
        /\ StartPass(FALSE)
        /\ pass_type' = "output"
        /\ pass_number' = pass_number + passes_skipped
        /\ is_last_pass' = (pass_number' = total_passes - 1)
        /\ call_pass_startup' = FALSE
        /\ WriteHeaders(huff, img, scan', restart_interval')
        /\ step' = "pass"
        /\ UNCHANGED <<global_state, params, loops, whole_image,
              scan_number, total_passes>>

(* write_file_trailer, and the object is ready for another image.          *)
FinishImage ==
    /\ step = "next" /\ is_last_pass
    /\ phase' = "ended"
    /\ global_state' = "START" /\ step' = "app"
    /\ UNCHANGED <<params, master, setup, coef, loops, whole_image, mcus, huff,
          last_restart_interval, scans, written, marked, told>>

(* At any time between calls, and after an error.                          *)
jpeg_abort_compress ==
    /\ step \in {"app", "failed"}
    /\ global_state' = "START" /\ step' = "app"
    /\ phase' = IF step = "app" /\ global_state = "START" THEN phase ELSE "none"
    /\ UNCHANGED <<params, master, setup, coef, loops, whole_image, mcus, huff,
          last_restart_interval, scans, written, marked, told>>

Next ==
    \/ \E i \in Images, all \in BOOLEAN : jpeg_start_compress(i, all)
    \/ \E i \in Images : jpeg_write_coefficients(i)
    \/ jpeg_write_marker
    \/ pass_startup \/ CallCompress \/ EncodeMCU \/ EndRow \/ SuspendMCU
    \/ jpeg_finish_compress \/ jpeg_finish_compress_coefs
    \/ PrepareOptimization \/ PrepareOutput \/ FinishPass \/ EmitFails
    \/ FinishImage \/ jpeg_abort_compress

Spec == Init /\ [][Next]_vars

(* A call that has begun goes on.                                          *)
InLibrary == step \notin {"app", "failed"}
FairSpec == Spec /\ WF_vars(InLibrary /\ Next)

-----------------------------------------------------------------------------
(* Properties.                                                             *)

(* No pass beyond total_passes and no scan beyond the script; suspension   *)
(* leaves a place inside the iMCU row.                                     *)
TypeOK ==
    /\ global_state \in {"START", "SCANNING", "WRCOEFS"}
    /\ step \in {"app", "compress", "compress in pass", "pass", "next", "failed"}
    /\ img \in Images \cup {NoImage} /\ images \in 0 .. MaxImages
    /\ {optimize_coding, is_last_pass, call_pass_startup, gather, marked}
          \subseteq BOOLEAN
    /\ pass_type \in {"main", "huff_opt", "output"}
    /\ pass_number \in 0 .. total_passes
    /\ scan_number \in 0 .. num_scans(img)
    /\ InLibrary /\ step # "next" => /\ pass_number < total_passes
                                     /\ scan_number < num_scans(img)
    /\ iMCU_row_num \in 0 .. total_iMCU_rows(img)
    /\ {mcu_ctr, MCU_vert_offset, yoffset, MCU_col_num, mcus, written, scans,
        restart_interval, last_restart_interval} \subseteq Nat
    /\ DOMAIN huff = Slots /\ DOMAIN told.tables = Slots
    /\ phase \in {"none", "header", "frame", "ended"}

(* MCU k of a scan, as the standard has it: left to right, top to bottom,  *)
(* a dummy block where a component has none.                               *)
RefBlocks(c, k) ==
    LET h == MCU_width(img, scan, c)
        v == MCU_height(img, scan, c)
        y0 == (k \div MCUs_per_row(img, scan)) * v
        x0 == (k % MCUs_per_row(img, scan)) * h
        last_y == height_in_blocks(img, c) - 1
        last_x == width_in_blocks(img, c) - 1
        Least(a, b) == IF a < b THEN a ELSE b
    IN  [yi \in 0 .. v - 1 |-> [xi \in 0 .. h - 1 |->
            IF y0 + yi > last_y
              THEN Dummy(last_y, Least(x0 + h - 1, last_x))
            ELSE IF x0 + xi > last_x THEN Dummy(y0 + yi, last_x)
            ELSE Real(y0 + yi, x0 + xi)]]

MCUBlocks(c) ==
    IF img.transcode \/ total_passes = 1
      THEN BlocksMade(c, yoffset, MCU_col_num)
      ELSE BlocksSaved(c, yoffset, MCU_col_num)

(* The three ways of forming MCUs - from the samples, from the virtual     *)
(* arrays of a first pass, from coefficients given - have the same blocks, *)
(* real and dummy, and after suspension go on with the MCU that was not    *)
(* written (jccoefct.c, jctrans.c).                                        *)
MCUsInOrder ==
    Compressing /\ MoreMCUs =>
        \A k \in DOMAIN scan.comps :
            MCUBlocks(scan.comps[k]) = RefBlocks(scan.comps[k], mcus)

(* The invariant: the counters of passes, scans and MCUs, and what the     *)
(* next MCU is made of.                                                    *)
MCUsFormed == TypeOK /\ MCUsInOrder

(* The decoder of the datastream has the Huffman tables and the restart    *)
(* interval with which each scan is coded, over several images, with       *)
(* tables computed, kept or written again (sent_table of jcmarker.c).      *)
EncodedAsTold ==
    Compressing /\ MoreMCUs /\ ~gather =>
        /\ \A t \in CodedWith(img, scan) : told.tables[t] = huff[t].for
        /\ told.restart_interval = restart_interval

(* A table that was computed for one scan is used for that scan only, for  *)
(* the MCUs it was computed from.                                          *)
CodesForAll ==
    Compressing /\ MoreMCUs /\ ~gather =>
        \A t \in CodedWith(img, scan) :
            \/ huff[t].for = Standard
            \/ /\ huff[t].for.image = images /\ huff[t].for.scan = scan_number
               /\ mcus < huff[t].for.codes

(* Each scan is coded with the tables that are meant for it, and that the  *)
(* decoder has.                                                            *)
CodedAsTold == EncodedAsTold /\ CodesForAll

ScanSize(i, s) ==
    MCUs_per_row(i, s) * (IF interleaved(s) THEN CeilDiv(i.height, max_v(i))
                                            ELSE height_in_blocks(i, s.comps[1]))
DS == INSTANCE Datastream WITH
    sizes <- [k \in 1 .. (IF images = 0 THEN 0 ELSE num_scans(img)) |->
                 ScanSize(img, select_scan_parameters(img, k - 1))]

(* The datastream has one frame header, special markers before it, and     *)
(* every scan of the script once, in order and complete, however many      *)
(* passes are made and wherever the destination suspends.                  *)
ImplementsDatastream == DS!Spec

(* jpeg_finish_compress makes its passes and ends, or raises an error: it  *)
(* never returns with the datastream unfinished.                           *)
FinishCompletes ==
    step = "next" ~> (global_state = "START" \/ step = "failed")
=============================================================================
