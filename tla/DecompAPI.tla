------------------------------ MODULE DecompAPI ------------------------------
(***************************************************************************)
(* The decompressor behind its application interface (jdapimin.c,          *)
(* jdapistd.c, jdtrans.c) with the master control (jdmaster.c) and the     *)
(* output side of the coefficient controller (jdcoefct.c).                 *)
(*                                                                         *)
(* An application makes one call at a time.  A call that loops over the    *)
(* input is in progress (call # "none") for as many steps as the loop has  *)
(* iterations; it returns when it is done or when the data source          *)
(* suspends, and the application may then make any other call.             *)
(*                                                                         *)
(* Output is counted in iMCU rows: output_scanline = n stands for the      *)
(* scanlines of n iMCU rows, and a call that emits some hands out the      *)
(* lines of one iMCU row.  What a row of samples is worth is the number of *)
(* the last scan decoded into it, 0 if there is none yet; NotShown is a    *)
(* row the application has not been given in this pass.                    *)
(***************************************************************************)
EXTENDS Integers

-----------------------------------------------------------------------------
(***************************************************************************)
(* The input side of the decompressor: the input controller (jdinput.c)    *)
(* and the coefficient controller's consume_data (jdcoefct.c), as          *)
(* functions from one state of the input side to the next.                 *)
(*                                                                         *)
(* A datastream is file.scans scans of total_iMCU_rows rows, each behind   *)
(* an SOS marker, and an EOI marker; one call of consume_input reads one   *)
(* of those units or suspends.  A file that ends early is a file of fewer  *)
(* scans: the source manager supplies an EOI, the entropy decoder supplies *)
(* the rows that are missing from the scan it is in.  file.scans = 0 is a  *)
(* tables-only datastream.  file.multi is what the frame header and the    *)
(* first SOS announce (initial_setup); a file may announce one scan and    *)
(* have more.  file.suspends says whether its data source may run dry.     *)
(***************************************************************************)

CONSTANTS total_iMCU_rows, Files

ASSUME InputAssumption ==
    /\ total_iMCU_rows \in Nat \ {0}
    /\ Files \subseteq [scans : Nat, multi : BOOLEAN, suspends : BOOLEAN]
    /\ Files # {}

Rows == 0 .. total_iMCU_rows - 1

InputState ==
    [consume_input      : {"consume_markers", "consume_data",
                           "dummy_consume_data"},
     has_multiple_scans : BOOLEAN,
     eoi_reached        : BOOLEAN,
     inheaders          : BOOLEAN,
     input_scan_number  : Nat,
     input_iMCU_row     : 0 .. total_iMCU_rows]

(* jinit_input_controller and reset_input_controller leave the same state. *)
reset_input_controller ==
    [consume_input      |-> "consume_markers",
     has_multiple_scans |-> FALSE,
     eoi_reached        |-> FALSE,
     inheaders          |-> TRUE,
     input_scan_number  |-> 0,
     input_iMCU_row     |-> 0]

(* start_input_pass: full says whether jinit_d_coef_controller made a      *)
(* full-image buffer; without one coef->consume_data does nothing.         *)
start_input_pass(in, full) ==
    [in EXCEPT !.consume_input = IF full THEN "consume_data"
                                         ELSE "dummy_consume_data",
               !.input_iMCU_row = 0]

finish_input_pass(in) == [in EXCEPT !.consume_input = "consume_markers"]

Outcome(rc, in) == [rc |-> rc, in |-> in]

(* get_sos and what consume_markers makes of it.  A second scan the        *)
(* headers did not announce raises JERR_EOI_EXPECTED.                      *)
FirstSOS(in, file) ==
    Outcome("JPEG_REACHED_SOS",
            [in EXCEPT !.input_scan_number = @ + 1,
                       !.inheaders = FALSE,
                       !.has_multiple_scans = file.multi])

LaterSOS(in, full) ==
    LET counted == [in EXCEPT !.input_scan_number = @ + 1]
    IN  IF in.has_multiple_scans
          THEN Outcome("JPEG_REACHED_SOS", start_input_pass(counted, full))
          ELSE Outcome("JERR_EOI_EXPECTED", counted)

read_EOI(in) == Outcome("JPEG_REACHED_EOI", [in EXCEPT !.eoi_reached = TRUE])

(* data: does the source hold the next unit of the file?                   *)
consume_markers(in, file, full, data) ==
    CASE in.eoi_reached -> Outcome("JPEG_REACHED_EOI", in)
      [] ~in.eoi_reached /\ ~data -> Outcome("JPEG_SUSPENDED", in)
      [] ~in.eoi_reached /\ data ->
           IF in.input_scan_number = file.scans THEN read_EOI(in)
           ELSE IF in.inheaders THEN FirstSOS(in, file)
           ELSE LaterSOS(in, full)

(* One iMCU row decoded: the end of decompress_onepass, of consume_data    *)
(* and of the loop of jpeg_skip_scanlines.                                 *)
RowDone(in) ==
    LET next == [in EXCEPT !.input_iMCU_row = @ + 1]
    IN  IF next.input_iMCU_row < total_iMCU_rows
          THEN Outcome("JPEG_ROW_COMPLETED", next)
          ELSE Outcome("JPEG_SCAN_COMPLETED", finish_input_pass(next))

consume_data(in, data) ==
    IF data THEN RowDone(in) ELSE Outcome("JPEG_SUSPENDED", in)

(* The call through the method pointer inputctl->consume_input.            *)
consume_input(in, file, full, data) ==
    CASE in.consume_input = "consume_markers" ->
           consume_markers(in, file, full, data)
      [] in.consume_input = "consume_data" -> consume_data(in, data)
      [] in.consume_input = "dummy_consume_data" ->
           Outcome("JPEG_SUSPENDED", in)

ReadsRow(o) == o.rc \in {"JPEG_ROW_COMPLETED", "JPEG_SCAN_COMPLETED"}

-----------------------------------------------------------------------------
(* The calls, and the output side.                                         *)
CONSTANTS Settings,          \* the parameters the application sets, by file;
                             \* two_pass_quantize with a NULL colormap
          Calls,             \* the calls it makes, by buffered_image
          BlockSmoothing,    \* can smoothing_ok succeed for this file?
          DCScans,           \* the scans with Ss = 0
          MaxScanNumber,     \* bound on the argument of jpeg_start_output
          SameScanOnRetry    \* a suspended jpeg_start_output is repeated
                             \* with the argument it had, or else with
                             \* cinfo.input_scan_number

ASSUME APIAssumption ==
    /\ Settings \in [Files -> SUBSET [buffered_image : BOOLEAN,
                                      raw_data_out : BOOLEAN,
                                      two_pass_quantize : BOOLEAN]]
    /\ BlockSmoothing \in BOOLEAN
    /\ DCScans \subseteq Nat
    /\ MaxScanNumber \in Nat
    /\ SameScanOnRetry \in BOOLEAN

VARIABLES global_state, buffered_image, raw_data_out, two_pass_quantize,
          call, err,              \* the call in progress, the error it raised
          file,                   \* the datastream, see Files
          inputctl,               \* the input side
          more,                   \* has the next unit of the file arrived?
          coefs,                  \* the coefficient arrays, by iMCU row
          output_scan_number, output_iMCU_row, output_scanline,
          smoothing,              \* coef->decompress_data
          pass_mode,              \* post's pass mode, and is_dummy_pass
          colormap,               \* cinfo->colormap # NULL
          post,                   \* post's full-image buffer
          shown,                  \* history: the rows of this pass
          asked                   \* history: the scan this pass is to show

parms == <<buffered_image, raw_data_out, two_pass_quantize>>
input == <<file, inputctl, more, coefs>>
position == <<output_iMCU_row, output_scanline>>
pass == <<smoothing, pass_mode, colormap, post, shown>>
output == <<output_scan_number, position, pass, asked>>
vars == <<global_state, parms, call, err, input, output>>

NoRows == [r \in Rows |-> 0]
NotShown == -1
NothingShown == [r \in Rows |-> NotShown]
is_dummy_pass == pass_mode = "JBUF_SAVE_AND_PASS"
full == inputctl.has_multiple_scans \/ buffered_image

Init ==
    /\ global_state = "START"
    /\ buffered_image = FALSE /\ raw_data_out = FALSE
    /\ two_pass_quantize = FALSE
    /\ call = "none" /\ err = "none"
    /\ file \in Files
    /\ inputctl = reset_input_controller
    /\ more \in (IF file.suspends THEN BOOLEAN ELSE {TRUE})
    /\ coefs = NoRows
    /\ output_scan_number = 0 /\ output_iMCU_row = 0 /\ output_scanline = 0
    /\ smoothing = FALSE /\ pass_mode = "JBUF_PASS_THRU" /\ colormap = FALSE
    /\ post = NoRows /\ shown = NothingShown /\ asked = 0

(***************************************************************************)
(* Calling conventions.                                                    *)
(***************************************************************************)
OutputStates == {"SCANNING", "RAW_OK"}
States == OutputStates \cup
          {"START", "INHEADER", "READY", "PRELOAD", "PRESCAN", "BUFIMAGE",
           "BUFPOST", "RDCOEFS", "STOPPING"}

Ops == {"read_header", "consume_input", "start_decompress", "read_scanlines",
        "skip_scanlines", "read_raw_data", "start_output", "finish_output",
        "finish_decompress", "read_coefficients"}

(* The states in which a call does not raise JERR_BAD_STATE.               *)
LegalStates(op) ==
    CASE op = "read_header"       -> {"START", "INHEADER"}
      [] op = "consume_input"     -> States \ {"RDCOEFS"}
      [] op = "start_decompress"  -> {"READY", "PRELOAD", "PRESCAN"}
      [] op = "read_scanlines"    -> {"SCANNING"}
      [] op = "skip_scanlines"    -> {"SCANNING"}
      [] op = "read_raw_data"     -> {"RAW_OK"}
      [] op = "start_output"      -> {"BUFIMAGE", "PRESCAN"}
      [] op = "finish_output"     ->
           {"BUFPOST"} \cup (IF buffered_image THEN OutputStates ELSE {})
      [] op = "finish_decompress" ->
           {"BUFIMAGE", "STOPPING"}
             \cup (IF buffered_image THEN {} ELSE OutputStates)
      [] op = "read_coefficients" ->
           {"READY", "RDCOEFS"}
             \cup (IF buffered_image THEN {"BUFIMAGE", "STOPPING"} ELSE {})

CanCall(op) ==
    /\ op \in Calls[buffered_image]
    /\ call = "none" /\ err = "none"
    /\ global_state \in LegalStates(op)

Begin(op) == call' = op /\ UNCHANGED err
Return == call' = "none" /\ UNCHANGED err
Continue == UNCHANGED <<call, err>>
Raise(op, e) == call' = op /\ err' = e

BadState(op) ==
    /\ op \in Calls[buffered_image]
    /\ call = "none" /\ err = "none"
    /\ global_state \notin LegalStates(op)
    /\ Raise(op, IF op = "skip_scanlines" /\ two_pass_quantize
                   THEN "JERR_NOTIMPL" ELSE "JERR_BAD_STATE")
    /\ UNCHANGED <<global_state, parms, input, output>>

(***************************************************************************)
(* Reading input.                                                          *)
(***************************************************************************)
(* The next datastream comes from the same data source.                    *)
NextFiles == {f \in Files : f.suspends = file.suspends}

(* What the source has after a unit was (or was not) taken from it.        *)
SourceAfter(taken) ==
    IF ~taken THEN {more} ELSE IF file.suspends THEN BOOLEAN ELSE {TRUE}

(* At EOI consume_markers pulls output_scan_number back to the last scan.  *)
ClampedScan_None(o) == output_scan_number
ClampedScan(o) ==
    IF /\ o.in.eoi_reached /\ ~inputctl.eoi_reached
       /\ ~o.in.inheaders
       /\ output_scan_number > o.in.input_scan_number
      THEN o.in.input_scan_number
      ELSE output_scan_number

StoreRow(o) ==
    IF full /\ ReadsRow(o)
      THEN [coefs EXCEPT ![inputctl.input_iMCU_row] = inputctl.input_scan_number]
      ELSE coefs

(* One call of inputctl->consume_input that returns rc (or raises it).     *)
ConsumeInput(rc) ==
    LET o == consume_input(inputctl, file, full, more)
    IN  /\ rc = o.rc
        /\ inputctl' = o.in
        /\ more' \in SourceAfter(o.in # inputctl)
        /\ coefs' = StoreRow(o)
        /\ output_scan_number' = ClampedScan(o)
        /\ UNCHANGED file

Progress == {"JPEG_REACHED_SOS", "JPEG_REACHED_EOI",
             "JPEG_ROW_COMPLETED", "JPEG_SCAN_COMPLETED"}

(***************************************************************************)
(* jpeg_read_header and jpeg_consume_input.                                *)
(***************************************************************************)
(* In START the input controller is reset before its first call.           *)
HeaderState == IF global_state = "START" THEN reset_input_controller
                                         ELSE inputctl
HeaderOutcome == consume_markers(HeaderState, file, FALSE, more)

(* The parameters are set to their defaults at the first SOS.  An EOI in   *)
(* the headers (a tables-only datastream) sends jpeg_read_header back to   *)
(* START by jpeg_abort, unless the application requires an image.          *)
ReadHeaders(op) ==
    /\ CanCall(op)
    /\ global_state \in {"START", "INHEADER"}
    /\ inputctl' = HeaderOutcome.in
    /\ more' \in SourceAfter(HeaderOutcome.in # HeaderState)
    /\ IF HeaderOutcome.rc = "JPEG_REACHED_SOS"
         THEN /\ buffered_image' = FALSE /\ raw_data_out' = FALSE
              /\ two_pass_quantize' = FALSE
         ELSE UNCHANGED parms
    /\ UNCHANGED <<coefs, output>>

HeaderResult(op) ==
    CASE HeaderOutcome.rc = "JPEG_REACHED_SOS" -> "READY"
      [] HeaderOutcome.rc = "JPEG_REACHED_EOI" /\ op = "read_header" -> "START"
      [] OTHER -> "INHEADER"

RequireImage ==
    /\ HeaderOutcome.rc = "JPEG_REACHED_EOI"
    /\ global_state' = "INHEADER"
    /\ Raise("read_header", "JERR_NO_IMAGE")

jpeg_read_header ==
    /\ ReadHeaders("read_header")
    /\ \/ /\ global_state' = HeaderResult("read_header")
          /\ file' \in (IF global_state' = "START" THEN NextFiles ELSE {file})
          /\ Continue
       \/ RequireImage /\ UNCHANGED file

(* In READY the call only repeats JPEG_REACHED_SOS.                        *)
jpeg_consume_input ==
    \/ /\ ReadHeaders("consume_input")
       /\ global_state' = HeaderResult("consume_input")
       /\ Continue /\ UNCHANGED file
    \/ /\ CanCall("consume_input")
       /\ global_state \notin {"START", "INHEADER", "READY"}
       /\ \/ \E rc \in Progress : ConsumeInput(rc) /\ Continue
          \/ /\ ConsumeInput("JERR_EOI_EXPECTED")
             /\ Raise("consume_input", "JERR_EOI_EXPECTED")
       /\ UNCHANGED <<global_state, parms, position, pass, asked>>

(***************************************************************************)
(* Output passes: prepare_for_output_pass, finish_output_pass and the      *)
(* coefficient controller's decompress_data methods.                       *)
(***************************************************************************)
(* The second pass of two-pass quantization reads post's buffer only; any  *)
(* other pass starts over on the coefficients, as a dummy pass if a        *)
(* colormap has to be made first.                                          *)
DummyPassNeeded(have_map) == two_pass_quantize /\ ~have_map

NextPassMode_CrankAgain(have_map) ==
    IF is_dummy_pass \/ have_map THEN "JBUF_CRANK_DEST"
    ELSE IF DummyPassNeeded(have_map) THEN "JBUF_SAVE_AND_PASS"
    ELSE "JBUF_PASS_THRU"
NextPassMode(have_map) ==
    IF is_dummy_pass THEN "JBUF_CRANK_DEST"
    ELSE IF DummyPassNeeded(have_map) THEN "JBUF_SAVE_AND_PASS"
    ELSE "JBUF_PASS_THRU"

prepare_for_output_pass(have_map) ==
    /\ pass_mode' = NextPassMode(have_map)
    /\ IF is_dummy_pass
         THEN UNCHANGED <<output_iMCU_row, smoothing>>
         ELSE /\ output_iMCU_row' = 0
              /\ smoothing' \in (IF BlockSmoothing /\ full THEN BOOLEAN
                                                           ELSE {FALSE})
    /\ output_scanline' = 0
    /\ shown' = NothingShown
    /\ UNCHANGED post

(* The wait of decompress_data, and of its variant for block smoothing.    *)
Behind(in) ==
    \/ in.input_scan_number < output_scan_number
    \/ /\ in.input_scan_number = output_scan_number
       /\ in.input_iMCU_row <= output_iMCU_row

delta(in) == IF in.input_scan_number \in DCScans THEN 2 ELSE 0
BehindSmoothing(in) ==
    /\ in.input_scan_number <= output_scan_number
    /\ ~in.eoi_reached
    /\ ~ /\ in.input_scan_number = output_scan_number
         /\ in.input_iMCU_row > output_iMCU_row + delta(in)

MustRead(in) == IF smoothing THEN BehindSmoothing(in) ELSE Behind(in)

(* A row of samples worth q leaves the upsampler: into post's buffer in    *)
(* the dummy pass, to the application in any other.                        *)
RowOut(q) ==
    /\ output_iMCU_row' = output_iMCU_row + 1
    /\ output_scanline' = output_scanline + 1
    /\ IF is_dummy_pass
         THEN /\ post' = [post EXCEPT ![output_scanline] = q]
              /\ UNCHANGED shown
         ELSE /\ shown' = [shown EXCEPT ![output_scanline] = q]
              /\ UNCHANGED post
    /\ UNCHANGED <<smoothing, pass_mode, colormap>>

decompress_data ==
    /\ full /\ ~MustRead(inputctl)
    /\ RowOut(coefs[output_iMCU_row])
    /\ UNCHANGED input

decompress_onepass ==
    /\ ~full /\ more
    /\ inputctl' = RowDone(inputctl).in
    /\ more' \in SourceAfter(TRUE)
    /\ RowOut(inputctl.input_scan_number)
    /\ UNCHANGED <<file, coefs>>

process_data_crank_post ==
    /\ output_scanline' = output_scanline + 1
    /\ shown' = [shown EXCEPT ![output_scanline] = post[output_scanline]]
    /\ UNCHANGED <<output_iMCU_row, smoothing, pass_mode, colormap, post>>
    /\ UNCHANGED input

process_data ==
    IF pass_mode = "JBUF_CRANK_DEST" THEN process_data_crank_post
    ELSE decompress_data \/ decompress_onepass

(***************************************************************************)
(* The loops that read input.  A loop that ends at EOI ends because        *)
(* consume_input returned JPEG_REACHED_EOI, which it does whenever         *)
(* eoi_reached holds.                                                      *)
(***************************************************************************)
Cranking == \/ call \in {"read_scanlines", "read_raw_data"}
            \/ /\ call \in {"start_decompress", "start_output"}
               /\ global_state = "PRESCAN"
               /\ is_dummy_pass /\ output_scanline < total_iMCU_rows

ScanUnread(in) ==
    in.input_scan_number <= output_scan_number /\ ~in.eoi_reached

Unread(in) == ~in.eoi_reached

WantsInput(in) ==
    \/ /\ call = "start_decompress" /\ global_state = "PRELOAD"
       /\ in.has_multiple_scans /\ Unread(in)
    \/ call = "finish_output" /\ ScanUnread(in)
    \/ call \in {"finish_decompress", "read_coefficients"} /\ Unread(in)
    \/ /\ Cranking /\ pass_mode # "JBUF_CRANK_DEST"
       /\ full /\ MustRead(in)

Running == call # "none" /\ err = "none"

ReadMore ==
    /\ Running /\ WantsInput(inputctl)
    /\ \E rc \in Progress : ConsumeInput(rc)
    /\ Continue
    /\ UNCHANGED <<global_state, parms, position, pass, asked>>

(* The application gets FALSE, NULL or no rows and repeats the call later. *)
Suspend ==
    /\ Running
    /\ \/ WantsInput(inputctl) /\ ConsumeInput("JPEG_SUSPENDED")
       \/ /\ Cranking /\ pass_mode # "JBUF_CRANK_DEST" /\ ~full /\ ~more
          /\ UNCHANGED <<input, output_scan_number>>
    /\ Return
    /\ UNCHANGED <<global_state, parms, position, pass, asked>>

UnexpectedScan ==
    /\ Running /\ WantsInput(inputctl)
    /\ ConsumeInput("JERR_EOI_EXPECTED")
    /\ Raise(call, "JERR_EOI_EXPECTED")
    /\ UNCHANGED <<global_state, parms, position, pass, asked>>

(***************************************************************************)
(* jpeg_start_decompress, jpeg_start_output and output_pass_setup.         *)
(***************************************************************************)
(* jinit_master_decompress: fresh modules, the input side set to read the  *)
(* first scan.  Quantized raw data is refused with JERR_NOTIMPL.           *)
jinit_master_decompress(buffered) ==
    inputctl' = start_input_pass(inputctl,
                                 inputctl.has_multiple_scans \/ buffered)

StartDecompress_First(buffered, raw, two_pass) ==
    /\ CanCall("start_decompress") /\ global_state = "READY"
    /\ buffered_image' = buffered /\ raw_data_out' = raw
    /\ two_pass_quantize' = two_pass
    /\ IF two_pass /\ raw
         THEN /\ Raise("start_decompress", "JERR_NOTIMPL")
              /\ UNCHANGED <<global_state, inputctl, asked>>
         ELSE /\ jinit_master_decompress(buffered)
              /\ IF buffered
                   THEN /\ global_state' = "BUFIMAGE"
                        /\ Continue
                        /\ UNCHANGED asked
                   ELSE /\ global_state' = "PRELOAD"
                        /\ Begin("start_decompress")
                        /\ asked' = IF inputctl.has_multiple_scans
                                      THEN file.scans ELSE 1
    /\ UNCHANGED <<file, more, coefs, output_scan_number, position, pass>>

StartDecompress_Again ==
    /\ CanCall("start_decompress") /\ global_state # "READY"
    /\ Begin("start_decompress")
    /\ UNCHANGED <<global_state, parms, input, output>>

(* The whole file is in the coefficient arrays, or there is one scan.      *)
Preloaded ==
    /\ Running /\ call = "start_decompress" /\ global_state = "PRELOAD"
    /\ ~WantsInput(inputctl)
    /\ output_scan_number' = inputctl.input_scan_number
    /\ prepare_for_output_pass(colormap)
    /\ global_state' = "PRESCAN"
    /\ Continue
    /\ UNCHANGED <<parms, input, colormap, asked>>

jpeg_start_decompress ==
    \/ \E s \in Settings[file] :
          StartDecompress_First(s.buffered_image, s.raw_data_out,
                                s.two_pass_quantize)
    \/ StartDecompress_Again
    \/ Preloaded

(* The scan number asked for, limited to the scans there are.              *)
LimitedScan_None(n) == IF n <= 0 THEN 1 ELSE n
LimitedScan(n) ==
    LET m == IF n <= 0 THEN 1 ELSE n
    IN  IF inputctl.eoi_reached /\ m > inputctl.input_scan_number
          THEN inputctl.input_scan_number ELSE m

(* newmap: the application has set colormap to NULL, to have the two-pass  *)
(* quantizer make another one.                                             *)
jpeg_start_output(n, newmap) ==
    /\ CanCall("start_output")
    /\ Begin("start_output")
    /\ output_scan_number' = LimitedScan(n)
    /\ IF global_state = "PRESCAN"
         THEN /\ n = IF SameScanOnRetry THEN asked
                                         ELSE inputctl.input_scan_number
              /\ ~newmap
              /\ UNCHANGED <<position, pass, asked>>
         ELSE /\ colormap' = (colormap /\ ~newmap)
              /\ prepare_for_output_pass(colormap /\ ~newmap)
              /\ asked' = IF n <= 0 THEN 1 ELSE n
    /\ global_state' = "PRESCAN"
    /\ UNCHANGED <<parms, input>>

SettingUp == /\ Running
             /\ call \in {"start_decompress", "start_output"}
             /\ global_state = "PRESCAN"

DummyPassRow ==
    /\ SettingUp /\ Cranking
    /\ process_data
    /\ Continue
    /\ UNCHANGED <<global_state, parms, output_scan_number, asked>>

(* finish_output_pass has the quantizer choose the colormap; the final     *)
(* pass then runs over what the dummy pass saved.                          *)
DummyPassDone ==
    /\ SettingUp /\ is_dummy_pass /\ ~Cranking
    /\ colormap' = TRUE
    /\ prepare_for_output_pass(TRUE)
    /\ Continue
    /\ UNCHANGED <<global_state, parms, input, output_scan_number, asked>>

OutputPassReady ==
    /\ SettingUp /\ ~is_dummy_pass
    /\ global_state' = IF raw_data_out THEN "RAW_OK" ELSE "SCANNING"
    /\ Return
    /\ UNCHANGED <<parms, input, output>>

output_pass_setup == DummyPassRow \/ DummyPassDone \/ OutputPassReady

(***************************************************************************)
(* jpeg_read_scanlines, jpeg_read_raw_data, jpeg_skip_scanlines.  A call   *)
(* at the bottom of the image only warns.                                  *)
(***************************************************************************)
ReadCall(op) ==
    \/ /\ CanCall(op) /\ output_scanline < total_iMCU_rows
       /\ Begin(op)
       /\ UNCHANGED <<global_state, parms, input, output>>
    \/ /\ Running /\ call = op
       /\ process_data
       /\ Return
       /\ UNCHANGED <<global_state, parms, output_scan_number, asked>>

jpeg_read_scanlines == ReadCall("read_scanlines")
jpeg_read_raw_data == ReadCall("read_raw_data")

(* To the bottom: the rest of the file counts as read.                     *)
SkipToBottom ==
    /\ output_scanline' = total_iMCU_rows
    /\ inputctl' = [finish_input_pass(inputctl) EXCEPT !.eoi_reached = TRUE]
    /\ UNCHANGED output_iMCU_row

(* Elsewhere: past rows of the coefficient arrays, or by decoding rows     *)
(* without keeping them.                                                   *)
SkippedInput_NotCounted(n) == inputctl
SkippedInput(n) ==
    IF full THEN inputctl ELSE [inputctl EXCEPT !.input_iMCU_row = @ + n]

SkipRows(n) ==
    /\ output_scanline' = output_scanline + n
    /\ output_iMCU_row' = output_iMCU_row + n
    /\ inputctl' = SkippedInput(n)

(* Not for suspending data sources, nor for two-pass quantization.         *)
jpeg_skip_scanlines(n) ==
    /\ CanCall("skip_scanlines") /\ ~file.suspends
    /\ IF two_pass_quantize
         THEN /\ Raise("skip_scanlines", "JERR_NOTIMPL")
              /\ UNCHANGED <<inputctl, position>>
         ELSE /\ IF output_scanline + n >= total_iMCU_rows THEN SkipToBottom
                                                           ELSE SkipRows(n)
              /\ Continue
    /\ UNCHANGED <<global_state, parms, file, more, coefs,
                   output_scan_number, pass, asked>>

(***************************************************************************)
(* jpeg_finish_output, jpeg_finish_decompress, jpeg_read_coefficients,     *)
(* jpeg_abort.                                                             *)
(***************************************************************************)
jpeg_finish_output ==
    \/ /\ CanCall("finish_output")
       /\ Begin("finish_output")
       /\ global_state' = "BUFPOST"
       /\ UNCHANGED <<parms, input, output>>
    \/ /\ Running /\ call = "finish_output" /\ ~WantsInput(inputctl)
       /\ Return
       /\ global_state' = "BUFIMAGE"
       /\ UNCHANGED <<parms, input, output>>

(* jpeg_abort releases the image pool: the modules and their buffers.  The *)
(* application goes on with some datastream.                               *)
jpeg_abort ==
    /\ global_state' = "START"
    /\ call' = "none" /\ err' = "none"
    /\ coefs' = NoRows
    /\ output_scan_number' = 0 /\ output_iMCU_row' = 0 /\ output_scanline' = 0
    /\ smoothing' = FALSE /\ pass_mode' = "JBUF_PASS_THRU" /\ colormap' = FALSE
    /\ post' = NoRows /\ shown' = NothingShown /\ asked' = 0
    /\ UNCHANGED <<parms, inputctl, more>>
    /\ file' \in NextFiles

TooLittleData ==
    global_state \in OutputStates /\ output_scanline < total_iMCU_rows

jpeg_finish_decompress ==
    \/ /\ CanCall("finish_decompress")
       /\ IF TooLittleData
            THEN /\ Raise("finish_decompress", "JERR_TOO_LITTLE_DATA")
                 /\ UNCHANGED global_state
            ELSE /\ Begin("finish_decompress")
                 /\ global_state' = "STOPPING"
       /\ UNCHANGED <<parms, input, output>>
    \/ /\ Running /\ call = "finish_decompress" /\ ~WantsInput(inputctl)
       /\ jpeg_abort

(* In BUFIMAGE and STOPPING the arrays are returned as they are.           *)
jpeg_read_coefficients ==
    \/ /\ CanCall("read_coefficients") /\ global_state \in {"READY", "RDCOEFS"}
       /\ Begin("read_coefficients")
       /\ global_state' = "RDCOEFS"
       /\ buffered_image' = TRUE
       /\ inputctl' = IF global_state = "READY"
                        THEN start_input_pass(inputctl, TRUE) ELSE inputctl
       /\ UNCHANGED <<raw_data_out, two_pass_quantize, file, more, coefs, output>>
    \/ /\ Running /\ call = "read_coefficients" /\ ~WantsInput(inputctl)
       /\ Return
       /\ global_state' = "STOPPING"
       /\ UNCHANGED <<parms, input, output>>

Abort == /\ "abort" \in Calls[buffered_image]
         /\ call = "none" \/ err # "none"
         /\ jpeg_abort

(***************************************************************************)
(* The data source and the next-state relation.                            *)
(***************************************************************************)
DataArrives ==
    /\ ~more /\ more' = TRUE
    /\ UNCHANGED <<global_state, parms, call, err, file, inputctl, coefs,
                   output>>

(* What a call in progress does next.                                      *)
CallStep ==
    \/ ReadMore \/ Suspend \/ UnexpectedScan
    \/ Preloaded \/ output_pass_setup
    \/ Running /\ (\/ jpeg_read_scanlines \/ jpeg_read_raw_data
                   \/ jpeg_finish_output \/ jpeg_finish_decompress
                   \/ jpeg_read_coefficients)

Next ==
    \/ jpeg_read_header \/ jpeg_consume_input
    \/ jpeg_start_decompress
    \/ \E n \in 0 .. MaxScanNumber, newmap \in BOOLEAN :
          jpeg_start_output(n, newmap)
    \/ output_pass_setup
    \/ jpeg_read_scanlines \/ jpeg_read_raw_data
    \/ \E n \in 1 .. total_iMCU_rows : jpeg_skip_scanlines(n)
    \/ jpeg_finish_output \/ jpeg_finish_decompress
    \/ jpeg_read_coefficients \/ Abort
    \/ \E op \in Ops : BadState(op)
    \/ ReadMore \/ Suspend \/ UnexpectedScan
    \/ DataArrives

Spec == Init /\ [][Next]_vars

(* A call in progress runs on; data keep arriving; an application that was *)
(* told to suspend repeats the call.                                       *)
Repeat ==
    \/ global_state = "INHEADER" /\ jpeg_read_header
    \/ StartDecompress_Again
    \/ global_state = "PRESCAN" /\ jpeg_start_output(asked, FALSE)
    \/ global_state = "BUFPOST" /\ jpeg_finish_output
    \/ global_state = "STOPPING" /\ jpeg_finish_decompress
    \/ global_state = "RDCOEFS" /\ jpeg_read_coefficients

Fairness == WF_vars(CallStep) /\ WF_vars(DataArrives) /\ WF_vars(Repeat)

FairSpec == Spec /\ Fairness

(***************************************************************************)
(* Properties.                                                             *)
(***************************************************************************)
Errors == {"none", "JERR_BAD_STATE", "JERR_EOI_EXPECTED", "JERR_NO_IMAGE",
           "JERR_NOTIMPL", "JERR_TOO_LITTLE_DATA"}

(* The fields of the decompressor stay in their ranges: in particular no   *)
(* row index leaves the image and no scan number passes the file's last.   *)
TypeOK ==
    /\ global_state \in States
    /\ buffered_image \in BOOLEAN /\ raw_data_out \in BOOLEAN
    /\ two_pass_quantize \in BOOLEAN
    /\ call \in Ops \cup {"none"} /\ err \in Errors
    /\ file \in Files /\ inputctl \in InputState
    /\ more \in BOOLEAN
    /\ coefs \in [Rows -> Nat]
    /\ output_scan_number \in Nat
    /\ output_iMCU_row \in 0 .. total_iMCU_rows
    /\ output_scanline \in 0 .. total_iMCU_rows
    /\ smoothing \in BOOLEAN /\ colormap \in BOOLEAN
    /\ pass_mode \in {"JBUF_PASS_THRU", "JBUF_SAVE_AND_PASS", "JBUF_CRANK_DEST"}
    /\ post \in [Rows -> Nat] /\ shown \in [Rows -> Nat \cup {NotShown}]
    /\ asked \in Nat

(* Output never falls behind the scan the application asked for: a row it  *)
(* is given was decoded from that scan, or from the last one if the file   *)
(* has fewer.  The interlock of decompress_data and decompress_smooth_data *)
(* (jdcoefct.c), the preload of jpeg_start_decompress and the two-pass     *)
(* buffer all have a part in it.                                           *)
FreshRows ==
    \A r \in Rows : shown[r] # NotShown =>
                       shown[r] >= asked \/ shown[r] = file.scans

(* The display loop of libjpeg.txt stops after a pass that ran in sync     *)
(* with the last input scan; every row of that pass then has the file's    *)
(* full quality.                                                           *)
LastPassIsFinal ==
    (/\ global_state = "BUFIMAGE"
     /\ inputctl.eoi_reached
     /\ inputctl.input_scan_number = output_scan_number
     /\ \A r \in Rows : shown[r] # NotShown)
    => \A r \in Rows : shown[r] = file.scans

(* Once EOI is reached no output pass is set to a scan that will not come. *)
ScanWillCome ==
    inputctl.eoi_reached /\ global_state \in OutputStates \cup {"PRESCAN"}
       => output_scan_number <= inputctl.input_scan_number

(* The row that is output next is the row the scanline count says, and     *)
(* without a full-image buffer it is also the row that is decoded next.    *)
InLockstep ==
    (/\ global_state \in OutputStates
     /\ pass_mode # "JBUF_CRANK_DEST"
     /\ output_scanline < total_iMCU_rows)
    => /\ output_iMCU_row = output_scanline
       /\ full \/ inputctl.input_iMCU_row = output_iMCU_row

(* The invariant: the pass that is shown goes with the input, row by row   *)
(* and to the last scan.                                                   *)
ShownInStep == TypeOK /\ InLockstep /\ LastPassIsFinal

(* jpeg_read_coefficients hands over arrays that hold every scan.          *)
CoefficientsComplete ==
    [][call = "read_coefficients" /\ err = "none" /\ global_state' = "STOPPING"
         => \A r \in Rows : coefs[r] = file.scans]_vars

(* No call loops for ever: it returns, or raises an error.                 *)
EveryCallReturns == call # "none" ~> (call = "none" \/ err # "none")

(* A suspended call that is repeated as data arrive gets through.          *)
SuspendedStates == {"INHEADER", "PRELOAD", "PRESCAN", "BUFPOST", "STOPPING",
                    "RDCOEFS"}
SuspendedCallsComplete ==
    \A g \in SuspendedStates :
        global_state = g ~> (global_state # g \/ err # "none")

(* jpeg_finish_decompress ends a decompression with the source behind the  *)
(* EOI marker: term_source is called "after all data has been read".  A    *)
(* decompression in which lines may be skipped is left out: a skip to the  *)
(* bottom leaves the rest of the file where it is.                         *)
AllDataRead == /\ inputctl.input_scan_number = file.scans
               /\ inputctl.input_iMCU_row = total_iMCU_rows
FinishReadsAllData ==
    [][call = "finish_decompress" /\ global_state' = "START" /\ err = "none"
            /\ (buffered_image \/ file.suspends)
         => AllDataRead]_vars

(* Every call comes to its end, at once or repeated as data arrive, and    *)
(* with the work done that it promises.                                    *)
CallsComplete ==
    /\ EveryCallReturns
    /\ SuspendedCallsComplete
    /\ CoefficientsComplete
    /\ FinishReadsAllData
=============================================================================
