--------------------------- MODULE DecompAPIProofs ---------------------------
(***************************************************************************)
(* Proofs about DecompAPI, for every number of iMCU rows, every set of     *)
(* files and settings and every sequence of calls: the rows that an        *)
(* application is given go with the input, row by row and to the last      *)
(* scan, and none is older than the scan it asked for.                     *)
(***************************************************************************)
EXTENDS DecompAPI, TLAPS

\* What the proofs ask of an application: it repeats a suspended jpeg_start_output() with the
\* scan number it gave, and it skips no lines in buffered-image mode.  Otherwise the code shows
\* rows of an earlier scan, or waits for rows that nobody reads (see README.md).
Disciplined == SameScanOnRetry /\ "skip_scanlines" \notin Calls[TRUE]

-----------------------------------------------------------------------------
(* The input side, field by field. *)

Methods == {"consume_markers", "consume_data", "dummy_consume_data"}

LEMMA InputFields ==
    \A in \in InputState :
        /\ in.consume_input \in Methods /\ in.has_multiple_scans \in BOOLEAN
        /\ in.eoi_reached \in BOOLEAN /\ in.inheaders \in BOOLEAN
        /\ in.input_scan_number \in Nat /\ in.input_iMCU_row \in 0 .. total_iMCU_rows
  BY DEF InputState, Methods

\* What stays when a pass over the input begins, ends or goes on.
SameHeaders(in, next) ==
    /\ next.has_multiple_scans = in.has_multiple_scans /\ next.inheaders = in.inheaders
    /\ next.eoi_reached = in.eoi_reached

LEMMA StartInputIs ==
    ASSUME NEW in \in InputState, NEW whole \in BOOLEAN
    PROVE  LET next == start_input_pass(in, whole)
           IN  /\ next \in InputState /\ SameHeaders(in, next)
               /\ next.consume_input = IF whole THEN "consume_data" ELSE "dummy_consume_data"
               /\ next.input_iMCU_row = 0 /\ next.input_scan_number = in.input_scan_number
<1>1. 0 \in 0 .. total_iMCU_rows
  BY InputAssumption
<1> QED BY <1>1 DEF start_input_pass, InputState, SameHeaders

LEMMA FinishInputIs ==
    ASSUME NEW in \in InputState
    PROVE  LET next == finish_input_pass(in)
           IN  /\ next \in InputState /\ SameHeaders(in, next)
               /\ next.consume_input = "consume_markers"
               /\ next.input_iMCU_row = in.input_iMCU_row
               /\ next.input_scan_number = in.input_scan_number
  BY DEF finish_input_pass, InputState, SameHeaders

LEMMA RowDoneIs ==
    ASSUME NEW in \in InputState, in.input_iMCU_row < total_iMCU_rows
    PROVE  LET o == RowDone(in)
           IN  /\ o.in \in InputState /\ SameHeaders(in, o.in)
               /\ o.rc \in {"JPEG_ROW_COMPLETED", "JPEG_SCAN_COMPLETED"}
               /\ o.in.input_scan_number = in.input_scan_number
               /\ o.in.input_iMCU_row = in.input_iMCU_row + 1
               /\ \/ /\ o.in.input_iMCU_row < total_iMCU_rows
                     /\ o.in.consume_input = in.consume_input
                  \/ /\ o.in.input_iMCU_row = total_iMCU_rows
                     /\ o.in.consume_input = "consume_markers"
<1> DEFINE next == [in EXCEPT !.input_iMCU_row = @ + 1]
<1>1. total_iMCU_rows \in Nat /\ in.input_iMCU_row \in Nat
  BY InputAssumption, InputFields
<1>2. in.input_iMCU_row + 1 \in 0 .. total_iMCU_rows
  BY <1>1
<1>3. /\ next \in InputState /\ SameHeaders(in, next)
      /\ next.input_iMCU_row = in.input_iMCU_row + 1
      /\ next.input_scan_number = in.input_scan_number
      /\ next.consume_input = in.consume_input
  BY <1>2 DEF InputState, SameHeaders
<1> HIDE DEF next
<1>4. RowDone(in) = IF next.input_iMCU_row < total_iMCU_rows
                    THEN Outcome("JPEG_ROW_COMPLETED", next)
                    ELSE Outcome("JPEG_SCAN_COMPLETED", finish_input_pass(next))
  BY DEF RowDone, next
<1>5. CASE next.input_iMCU_row < total_iMCU_rows
  BY <1>3, <1>4, <1>5 DEF Outcome
<1>6. CASE ~(next.input_iMCU_row < total_iMCU_rows)
  <2>1. /\ finish_input_pass(next) \in InputState
        /\ SameHeaders(next, finish_input_pass(next))
        /\ finish_input_pass(next).consume_input = "consume_markers"
        /\ finish_input_pass(next).input_iMCU_row = next.input_iMCU_row
        /\ finish_input_pass(next).input_scan_number = next.input_scan_number
    BY <1>3, FinishInputIs
  <2>2. next.input_iMCU_row = total_iMCU_rows
    BY <1>1, <1>2, <1>3, <1>6
  <2> QED BY <1>3, <1>4, <1>6, <2>1, <2>2 DEF Outcome, SameHeaders
<1> QED BY <1>5, <1>6

\* What a call of consume_input makes of the state in: nothing, ...
Nothing(in, o) ==
    o.in = in /\ o.rc = IF in.eoi_reached THEN "JPEG_REACHED_EOI" ELSE "JPEG_SUSPENDED"
\* ... or it reads EOI, ...
ReadsEOI(in, f, o) ==
    /\ in.consume_input = "consume_markers" /\ ~in.eoi_reached
    /\ in.input_scan_number = f.scans
    /\ o.rc = "JPEG_REACHED_EOI" /\ o.in \in InputState
    /\ o.in.eoi_reached /\ o.in.inheaders = in.inheaders
    /\ o.in.has_multiple_scans = in.has_multiple_scans
    /\ o.in.consume_input = in.consume_input
    /\ o.in.input_scan_number = in.input_scan_number
    /\ o.in.input_iMCU_row = in.input_iMCU_row
\* ... or the first SOS, ...
ReadsFirstSOS(in, f, o) ==
    /\ in.inheaders /\ ~in.eoi_reached /\ in.input_scan_number # f.scans
    /\ o.rc = "JPEG_REACHED_SOS" /\ o.in \in InputState
    /\ ~o.in.eoi_reached /\ ~o.in.inheaders
    /\ o.in.consume_input = in.consume_input
    /\ o.in.input_scan_number = in.input_scan_number + 1
    /\ o.in.input_iMCU_row = in.input_iMCU_row
\* ... or another, which the headers announced or not, ...
ReadsSOS(in, f, whole, o) ==
    /\ in.consume_input = "consume_markers" /\ ~in.inheaders /\ ~in.eoi_reached
    /\ in.input_scan_number # f.scans
    /\ o.in \in InputState /\ SameHeaders(in, o.in)
    /\ o.in.input_scan_number = in.input_scan_number + 1
    /\ \/ /\ in.has_multiple_scans /\ o.rc = "JPEG_REACHED_SOS" /\ o.in.input_iMCU_row = 0
          /\ o.in.consume_input = IF whole THEN "consume_data" ELSE "dummy_consume_data"
       \/ /\ ~in.has_multiple_scans /\ o.rc = "JERR_EOI_EXPECTED"
          /\ o.in.input_iMCU_row = in.input_iMCU_row
          /\ o.in.consume_input = in.consume_input
\* ... or an iMCU row.
ReadsOneRow(in, o) ==
    /\ in.consume_input = "consume_data"
    /\ o.in \in InputState /\ SameHeaders(in, o.in) /\ ReadsRow(o)
    /\ o.in.input_scan_number = in.input_scan_number
    /\ o.in.input_iMCU_row = in.input_iMCU_row + 1
    /\ \/ o.in.input_iMCU_row < total_iMCU_rows /\ o.in.consume_input = "consume_data"
       \/ o.in.input_iMCU_row = total_iMCU_rows /\ o.in.consume_input = "consume_markers"

\* consume_markers().
LEMMA MarkersIs ==
    ASSUME NEW in \in InputState, NEW f \in Files, NEW whole \in BOOLEAN, NEW data \in BOOLEAN,
           in.consume_input = "consume_markers"
    PROVE  LET o == consume_markers(in, f, whole, data)
           IN  \/ Nothing(in, o) \/ ReadsEOI(in, f, o) \/ ReadsFirstSOS(in, f, o)
               \/ ReadsSOS(in, f, whole, o)
<1> DEFINE o == consume_markers(in, f, whole, data)
           counted == [in EXCEPT !.input_scan_number = @ + 1]
<1>1. f.multi \in BOOLEAN
  BY InputAssumption
<1>2. /\ in.consume_input \in Methods /\ in.has_multiple_scans \in BOOLEAN
      /\ in.eoi_reached \in BOOLEAN /\ in.inheaders \in BOOLEAN
      /\ in.input_scan_number \in Nat /\ in.input_iMCU_row \in 0 .. total_iMCU_rows
  BY InputFields
<1>3. CASE in.eoi_reached
  BY <1>3 DEF consume_markers, Outcome, Nothing
<1>4. CASE ~in.eoi_reached /\ ~data
  BY <1>4 DEF consume_markers, Outcome, Nothing
<1>5. CASE ~in.eoi_reached /\ data /\ in.input_scan_number = f.scans
  <2> DEFINE next == [in EXCEPT !.eoi_reached = TRUE]
  <2>1. /\ next \in InputState /\ next.eoi_reached /\ next.inheaders = in.inheaders
        /\ next.has_multiple_scans = in.has_multiple_scans
        /\ next.consume_input = in.consume_input
        /\ next.input_scan_number = in.input_scan_number
        /\ next.input_iMCU_row = in.input_iMCU_row
    BY <1>2 DEF InputState
  <2>2. o = Outcome("JPEG_REACHED_EOI", next)
    BY <1>5 DEF consume_markers, read_EOI
  <2> HIDE DEF next, o
  <2>3. o.rc = "JPEG_REACHED_EOI" /\ o.in = next
    BY <2>2 DEF Outcome
  <2> QED BY <1>5, <2>1, <2>3 DEF ReadsEOI, o
<1>6. CASE ~in.eoi_reached /\ data /\ in.input_scan_number # f.scans /\ in.inheaders
  <2> DEFINE next == [in EXCEPT !.input_scan_number = @ + 1, !.inheaders = FALSE,
                                !.has_multiple_scans = f.multi]
  <2>1. /\ counted \in InputState /\ counted.eoi_reached = in.eoi_reached
        /\ counted.consume_input = in.consume_input
        /\ counted.input_scan_number = in.input_scan_number + 1
        /\ counted.input_iMCU_row = in.input_iMCU_row
    BY <1>2 DEF InputState
  <2>2. next = [counted EXCEPT !.inheaders = FALSE, !.has_multiple_scans = f.multi]
    OBVIOUS
  <2> HIDE DEF counted, next
  <2>3. /\ next \in InputState /\ next.eoi_reached = in.eoi_reached /\ ~next.inheaders
        /\ next.consume_input = in.consume_input
        /\ next.input_scan_number = in.input_scan_number + 1
        /\ next.input_iMCU_row = in.input_iMCU_row
    BY <1>1, <2>1, <2>2 DEF InputState
  <2>4. o = Outcome("JPEG_REACHED_SOS", next)
    BY <1>6 DEF consume_markers, FirstSOS, next
  <2> HIDE DEF o
  <2>5. o.rc = "JPEG_REACHED_SOS" /\ o.in = next
    BY <2>4 DEF Outcome
  <2> QED BY <1>6, <2>3, <2>5 DEF ReadsFirstSOS, o
<1>7. CASE ~in.eoi_reached /\ data /\ in.input_scan_number # f.scans /\ ~in.inheaders
  <2>1. /\ counted \in InputState /\ SameHeaders(in, counted)
        /\ counted.consume_input = in.consume_input
        /\ counted.input_scan_number = in.input_scan_number + 1
        /\ counted.input_iMCU_row = in.input_iMCU_row
    BY <1>2 DEF InputState, SameHeaders
  <2>2. o = IF in.has_multiple_scans
            THEN Outcome("JPEG_REACHED_SOS", start_input_pass(counted, whole))
            ELSE Outcome("JERR_EOI_EXPECTED", counted)
    BY <1>7 DEF consume_markers, LaterSOS
  <2> HIDE DEF counted, o
  <2>3. /\ start_input_pass(counted, whole) \in InputState
        /\ SameHeaders(counted, start_input_pass(counted, whole))
        /\ start_input_pass(counted, whole).consume_input =
               IF whole THEN "consume_data" ELSE "dummy_consume_data"
        /\ start_input_pass(counted, whole).input_iMCU_row = 0
        /\ start_input_pass(counted, whole).input_scan_number = counted.input_scan_number
    BY <2>1, StartInputIs
  <2>4. CASE in.has_multiple_scans
    <3>1. o.rc = "JPEG_REACHED_SOS" /\ o.in = start_input_pass(counted, whole)
      BY <2>2, <2>4 DEF Outcome
    <3> QED BY <1>7, <2>1, <2>3, <2>4, <3>1 DEF ReadsSOS, SameHeaders, o
  <2>5. CASE ~in.has_multiple_scans
    <3>1. o.rc = "JERR_EOI_EXPECTED" /\ o.in = counted
      BY <2>2, <2>5 DEF Outcome
    <3> QED BY <1>7, <2>1, <2>5, <3>1 DEF ReadsSOS, o
  <2> QED BY <1>2, <2>4, <2>5
<1> QED BY <1>2, <1>3, <1>4, <1>5, <1>6, <1>7

\* The call through inputctl->consume_input, behind the headers.
LEMMA ConsumeIs ==
    ASSUME NEW in \in InputState, NEW f \in Files, NEW whole \in BOOLEAN, NEW data \in BOOLEAN,
           ~in.inheaders, in.eoi_reached => in.consume_input = "consume_markers",
           in.consume_input = "consume_data" => in.input_iMCU_row < total_iMCU_rows
    PROVE  LET o == consume_input(in, f, whole, data)
           IN  \/ Nothing(in, o) /\ ~ReadsRow(o)
               \/ ReadsEOI(in, f, o) /\ ~ReadsRow(o)
               \/ ReadsSOS(in, f, whole, o) /\ ~ReadsRow(o)
               \/ ReadsOneRow(in, o)
<1> DEFINE o == consume_input(in, f, whole, data)
<1>1. CASE in.consume_input = "consume_markers"
  <2>1. o = consume_markers(in, f, whole, data)
    BY <1>1 DEF consume_input
  <2> HIDE DEF o
  <2>2. Nothing(in, o) \/ ReadsEOI(in, f, o) \/ ReadsFirstSOS(in, f, o) \/ ReadsSOS(in, f, whole, o)
    BY <1>1, <2>1, MarkersIs
  <2>3. ~ReadsFirstSOS(in, f, o)
    BY DEF ReadsFirstSOS
  <2> QED BY <2>2, <2>3 DEF Nothing, ReadsEOI, ReadsSOS, ReadsRow, o
<1>2. CASE in.consume_input = "consume_data"
  <2>1. o = IF data THEN RowDone(in) ELSE Outcome("JPEG_SUSPENDED", in)
    BY <1>2 DEF consume_input, consume_data
  <2> HIDE DEF o
  <2>2. CASE data
    <3>1. /\ RowDone(in).in \in InputState /\ SameHeaders(in, RowDone(in).in)
          /\ RowDone(in).rc \in {"JPEG_ROW_COMPLETED", "JPEG_SCAN_COMPLETED"}
          /\ RowDone(in).in.input_scan_number = in.input_scan_number
          /\ RowDone(in).in.input_iMCU_row = in.input_iMCU_row + 1
          /\ \/ /\ RowDone(in).in.input_iMCU_row < total_iMCU_rows
                /\ RowDone(in).in.consume_input = in.consume_input
             \/ /\ RowDone(in).in.input_iMCU_row = total_iMCU_rows
                /\ RowDone(in).in.consume_input = "consume_markers"
      BY <1>2, RowDoneIs
    <3>2. o = RowDone(in)
      BY <2>1, <2>2
    <3> QED BY <1>2, <3>1, <3>2 DEF ReadsOneRow, ReadsRow, o
  <2>3. CASE ~data
    <3>1. o.in = in /\ o.rc = "JPEG_SUSPENDED"
      BY <2>1, <2>3 DEF Outcome
    <3> QED BY <1>2, <3>1 DEF Nothing, ReadsRow, o
  <2> QED BY <2>2, <2>3
<1>3. CASE in.consume_input = "dummy_consume_data"
  <2>1. o = Outcome("JPEG_SUSPENDED", in)
    BY <1>3 DEF consume_input
  <2> QED BY <1>3, <2>1 DEF Nothing, Outcome, ReadsRow
<1> QED BY <1>1, <1>2, <1>3, InputFields DEF Methods

-----------------------------------------------------------------------------
(* The invariant. *)

Before == {"START", "INHEADER", "READY"}
PassStates == OutputStates \cup {"PRESCAN"}

\* A call in progress is in its state.
CallsInPlace ==
    /\ err = "none" =>
           /\ call \notin {"read_header", "consume_input", "skip_scanlines"}
           /\ call = "start_decompress" => global_state \in {"PRELOAD", "PRESCAN"}
           /\ call = "start_output" => global_state = "PRESCAN"
           /\ call = "read_scanlines" => global_state = "SCANNING"
           /\ call = "read_raw_data" => global_state = "RAW_OK"
           /\ call \in {"read_scanlines", "read_raw_data"} => output_scanline < total_iMCU_rows
           /\ call = "finish_output" => global_state = "BUFPOST"
           /\ call = "finish_decompress" => global_state = "STOPPING"
           /\ call = "read_coefficients" => global_state = "RDCOEFS"
    /\ global_state \in {"BUFIMAGE", "BUFPOST", "RDCOEFS"} => buffered_image
    /\ global_state = "PRELOAD" => ~buffered_image

\* Before the first jpeg_start_decompress() there is no image.
NothingYet ==
    global_state \in Before =>
        /\ coefs = NoRows /\ output_scan_number = 0 /\ output_iMCU_row = 0
        /\ output_scanline = 0 /\ pass_mode = "JBUF_PASS_THRU" /\ shown = NothingShown
        /\ asked = 0

InHeaders ==
    /\ global_state = "INHEADER" =>
           /\ inputctl.inheaders /\ inputctl.input_scan_number = 0
           /\ inputctl.input_iMCU_row = 0 /\ inputctl.consume_input = "consume_markers"
           /\ inputctl.eoi_reached => file.scans = 0
    /\ global_state = "READY" =>
           /\ ~inputctl.inheaders /\ inputctl.input_scan_number = 1 /\ 1 <= file.scans
           /\ inputctl.input_iMCU_row = 0 /\ inputctl.consume_input = "consume_markers"
           /\ ~inputctl.eoi_reached

\* Behind the headers the input controller reads rows of a scan, or markers behind all of them;
\* at EOI it has read the file, unless lines were skipped.
InImage ==
    global_state \notin Before =>
        /\ ~inputctl.inheaders
        /\ inputctl.input_scan_number \in 1 .. file.scans
        /\ inputctl.consume_input = "consume_data" =>
               full /\ inputctl.input_iMCU_row < total_iMCU_rows
        /\ inputctl.consume_input = "dummy_consume_data" => ~full
        /\ inputctl.consume_input = "consume_markers" /\ (full \/ ~inputctl.eoi_reached) =>
               inputctl.input_iMCU_row = total_iMCU_rows
        /\ inputctl.eoi_reached =>
               /\ inputctl.consume_input = "consume_markers"
               /\ full \/ file.suspends => /\ inputctl.input_scan_number = file.scans
                                           /\ inputctl.input_iMCU_row = total_iMCU_rows
        /\ ~full => /\ asked = 1
                    /\ err # "JERR_EOI_EXPECTED" => inputctl.input_scan_number = 1
        /\ err = "JERR_EOI_EXPECTED" => ~inputctl.eoi_reached

\* What the coefficient arrays hold: the scan that is read, down to the row it is at.
CoefsRead ==
    global_state \notin Before /\ full /\ err # "JERR_EOI_EXPECTED" =>
        \A r \in Rows : coefs[r] = inputctl.input_scan_number
                                      - (IF r < inputctl.input_iMCU_row THEN 0 ELSE 1)

\* The pass has the scan that was asked for, or the last one; without buffered-image mode a
\* file of several scans is read before.
PassSet ==
    /\ global_state \in PassStates \cup {"BUFIMAGE", "BUFPOST"} =>
           output_scan_number =
               IF inputctl.eoi_reached /\ asked > inputctl.input_scan_number
               THEN inputctl.input_scan_number ELSE asked
    /\ global_state \in PassStates => asked >= 1
    /\ global_state = "PRELOAD" => asked = IF full THEN file.scans ELSE 1
    /\ global_state \in PassStates /\ full /\ ~buffered_image => inputctl.eoi_reached
    /\ pass_mode # "JBUF_PASS_THRU" => two_pass_quantize
    /\ is_dummy_pass => global_state = "PRESCAN"

\* Rows are decoded and put out together.
InStep ==
    /\ global_state = "PRELOAD" /\ ~full => inputctl.input_iMCU_row = 0
    /\ global_state \in PassStates /\ pass_mode # "JBUF_CRANK_DEST"
           /\ (output_scanline < total_iMCU_rows \/ global_state = "PRESCAN") =>
           /\ output_iMCU_row = output_scanline
           /\ full \/ inputctl.input_iMCU_row = output_iMCU_row

\* A row that may be shown.
Worthy(q) == q \in Nat /\ (q >= asked \/ q = file.scans) /\ q <= file.scans

RowsWorthy ==
    /\ \A r \in Rows : shown[r] # NotShown => Worthy(shown[r])
    /\ global_state = "PRESCAN" => shown = NothingShown
    /\ pass_mode = "JBUF_CRANK_DEST" => \A r \in Rows : Worthy(post[r])
    /\ is_dummy_pass => \A r \in Rows : r < output_scanline => Worthy(post[r])

IInv ==
    /\ TypeOK /\ CallsInPlace /\ NothingYet /\ InHeaders /\ InImage /\ CoefsRead /\ PassSet
    /\ InStep /\ RowsWorthy

-----------------------------------------------------------------------------
(* Steps that read input. *)

\* The fields and the file.
LEMMA TypesAre ==
    ASSUME TypeOK
    PROVE  /\ inputctl \in InputState /\ inputctl.consume_input \in Methods
           /\ inputctl.has_multiple_scans \in BOOLEAN /\ inputctl.eoi_reached \in BOOLEAN
           /\ inputctl.inheaders \in BOOLEAN /\ inputctl.input_scan_number \in Nat
           /\ inputctl.input_iMCU_row \in 0 .. total_iMCU_rows
           /\ inputctl.input_iMCU_row \in Nat /\ total_iMCU_rows \in Nat \ {0}
           /\ file \in Files /\ file.scans \in Nat /\ file.suspends \in BOOLEAN
           /\ full \in BOOLEAN
<1>1. inputctl \in InputState /\ file \in Files /\ buffered_image \in BOOLEAN
  BY DEF TypeOK
<1>2. total_iMCU_rows \in Nat \ {0} /\ file.scans \in Nat /\ file.suspends \in BOOLEAN
  BY <1>1, InputAssumption
<1> QED BY <1>1, <1>2, InputFields DEF full

\* What a call of consume_input changes.
Consumed(o) ==
    /\ inputctl' = o.in
    /\ coefs' = IF full /\ ReadsRow(o)
                THEN [coefs EXCEPT ![inputctl.input_iMCU_row] = inputctl.input_scan_number]
                ELSE coefs
    /\ output_scan_number' = IF /\ o.in.eoi_reached /\ ~inputctl.eoi_reached
                                /\ ~o.in.inheaders
                                /\ output_scan_number > o.in.input_scan_number
                             THEN o.in.input_scan_number ELSE output_scan_number
    /\ file' = file /\ more' \in BOOLEAN

\* What the rest of a step that consumes input leaves alone.
OutputStays ==
    /\ global_state' = global_state /\ buffered_image' = buffered_image
    /\ raw_data_out' = raw_data_out /\ two_pass_quantize' = two_pass_quantize
    /\ output_iMCU_row' = output_iMCU_row /\ output_scanline' = output_scanline
    /\ smoothing' = smoothing /\ pass_mode' = pass_mode /\ colormap' = colormap
    /\ post' = post /\ shown' = shown /\ asked' = asked

\* Whether it returns, goes on or raises an error.
CallGoesOn(unexpected) ==
    \/ err' = "none" /\ ~unexpected /\ call' \in {call, "none"}
    \/ err' = "JERR_EOI_EXPECTED" /\ unexpected /\ call' \in Ops

LEMMA ConsumptionKeeps ==
    ASSUME IInv, global_state \notin Before, err = "none", OutputStays,
           NEW o, o = consume_input(inputctl, file, full, more), Consumed(o),
           CallGoesOn(o.rc = "JERR_EOI_EXPECTED")
    PROVE  IInv'
<1> DEFINE in == inputctl  next == inputctl'  T == total_iMCU_rows
<1>1. /\ TypeOK /\ InImage /\ CoefsRead /\ PassSet /\ InStep /\ RowsWorthy /\ CallsInPlace
      /\ in \in InputState /\ in.consume_input \in Methods /\ in.has_multiple_scans \in BOOLEAN
      /\ in.eoi_reached \in BOOLEAN /\ in.input_scan_number \in Nat /\ in.input_iMCU_row \in Nat
      /\ in.input_iMCU_row \in 0 .. T /\ T \in Nat \ {0}
      /\ file \in Files /\ file.scans \in Nat /\ full \in BOOLEAN /\ more \in BOOLEAN
      /\ output_scan_number \in Nat /\ asked \in Nat
  BY TypesAre DEF IInv, TypeOK
<1>2. /\ ~in.inheaders /\ in.input_scan_number \in 1 .. file.scans
      /\ in.consume_input = "consume_data" => full /\ in.input_iMCU_row < T
      /\ in.consume_input = "dummy_consume_data" => ~full
      /\ in.consume_input = "consume_markers" /\ (full \/ ~in.eoi_reached) =>
             in.input_iMCU_row = T
      /\ in.eoi_reached => /\ in.consume_input = "consume_markers"
                           /\ full \/ file.suspends => /\ in.input_scan_number = file.scans
                                                       /\ in.input_iMCU_row = T
      /\ ~full => asked = 1 /\ in.input_scan_number = 1
  BY <1>1 DEF InImage
<1>3. \/ Nothing(in, o) /\ ~ReadsRow(o)
      \/ ReadsEOI(in, file, o) /\ ~ReadsRow(o)
      \/ ReadsSOS(in, file, full, o) /\ ~ReadsRow(o)
      \/ ReadsOneRow(in, o)
  BY <1>1, <1>2, ConsumeIs
<1>4. next = o.in /\ file' = file /\ buffered_image' = buffered_image
  BY DEF Consumed, OutputStays
<1>5. /\ next \in InputState /\ full' = full
      /\ next.has_multiple_scans = in.has_multiple_scans /\ next.inheaders = in.inheaders
  BY <1>1, <1>3, <1>4 DEF Nothing, ReadsEOI, ReadsSOS, ReadsOneRow, SameHeaders, full
<1>6. /\ next.input_iMCU_row \in 0 .. T /\ next.input_iMCU_row \in Nat
      /\ next.input_scan_number \in Nat /\ next.eoi_reached \in BOOLEAN
      /\ next.consume_input \in Methods
  BY <1>5, InputFields
<1>7. InImage'
  <2> SUFFICES
         /\ ~next.inheaders /\ next.input_scan_number \in 1 .. file.scans
         /\ next.consume_input = "consume_data" => full /\ next.input_iMCU_row < T
         /\ next.consume_input = "dummy_consume_data" => ~full
         /\ next.consume_input = "consume_markers" /\ (full \/ ~next.eoi_reached) =>
                next.input_iMCU_row = T
         /\ next.eoi_reached => /\ next.consume_input = "consume_markers"
                                /\ full \/ file.suspends =>
                                       /\ next.input_scan_number = file.scans
                                       /\ next.input_iMCU_row = T
         /\ ~full => asked = 1 /\ (err' # "JERR_EOI_EXPECTED" => next.input_scan_number = 1)
         /\ err' = "JERR_EOI_EXPECTED" => ~next.eoi_reached
    BY <1>4, <1>5 DEF InImage, OutputStays
  <2>1. CASE Nothing(in, o)
    BY <1>2, <1>4, <2>1 DEF Nothing, CallGoesOn
  <2>2. CASE ReadsEOI(in, file, o)
    BY <1>2, <1>4, <2>2 DEF ReadsEOI, CallGoesOn
  <2>3. CASE ReadsSOS(in, file, full, o)
    <3>1. next.input_scan_number = in.input_scan_number + 1 /\ in.input_scan_number # file.scans
      BY <1>4, <2>3 DEF ReadsSOS
    <3>2. next.input_scan_number \in 1 .. file.scans
      BY <1>1, <1>2, <3>1
    <3>3. ~next.inheaders /\ ~next.eoi_reached
      BY <1>2, <1>4, <2>3 DEF ReadsSOS, SameHeaders
    <3>4. CASE in.has_multiple_scans
      BY <1>1, <1>4, <2>3, <3>2, <3>3, <3>4 DEF ReadsSOS, full
    <3>5. CASE ~in.has_multiple_scans
      BY <1>1, <1>2, <1>4, <2>3, <3>2, <3>3, <3>5 DEF ReadsSOS, CallGoesOn
    <3> QED BY <1>1, <3>4, <3>5
  <2>4. CASE ReadsOneRow(in, o)
    <3>1. o.rc # "JERR_EOI_EXPECTED"
      BY <2>4 DEF ReadsOneRow, ReadsRow
    <3>2. err' # "JERR_EOI_EXPECTED"
      BY <3>1 DEF CallGoesOn
    <3> QED BY <1>2, <1>4, <2>4, <3>2 DEF ReadsOneRow, SameHeaders
  <2> QED BY <1>3, <2>1, <2>2, <2>3, <2>4
<1>8. /\ coefs' \in [Rows -> Nat]
      /\ full /\ err' # "JERR_EOI_EXPECTED" =>
             \A r \in Rows : coefs'[r] = next.input_scan_number
                                            - (IF r < next.input_iMCU_row THEN 0 ELSE 1)
  <2>0. /\ coefs \in [Rows -> Nat]
        /\ full => \A r \in Rows : coefs[r] = in.input_scan_number
                                               - (IF r < in.input_iMCU_row THEN 0 ELSE 1)
        /\ \A r \in Rows : r \in Nat /\ r < T
    BY <1>1 DEF TypeOK, CoefsRead, Rows
  <2>1. CASE Nothing(in, o) /\ ~ReadsRow(o)
    BY <1>4, <2>0, <2>1 DEF Nothing, Consumed
  <2>2. CASE ReadsEOI(in, file, o) /\ ~ReadsRow(o)
    BY <1>4, <2>0, <2>2 DEF ReadsEOI, Consumed
  <2>3. CASE ReadsSOS(in, file, full, o) /\ ~ReadsRow(o)
    <3>1. coefs' = coefs /\ next.input_scan_number = in.input_scan_number + 1
      BY <1>4, <2>3 DEF ReadsSOS, Consumed
    <3>2. in.has_multiple_scans \/ err' = "JERR_EOI_EXPECTED"
      BY <2>3 DEF ReadsSOS, CallGoesOn
    <3>3. in.has_multiple_scans => next.input_iMCU_row = 0
      BY <1>4, <2>3 DEF ReadsSOS
    <3>4. full => in.input_iMCU_row = T
      BY <1>2, <2>3 DEF ReadsSOS
    <3> QED BY <1>1, <2>0, <3>1, <3>2, <3>3, <3>4
  <2>4. CASE ReadsOneRow(in, o)
    <3>1. /\ coefs' = [coefs EXCEPT ![in.input_iMCU_row] = in.input_scan_number]
          /\ next.input_scan_number = in.input_scan_number
          /\ next.input_iMCU_row = in.input_iMCU_row + 1
      BY <1>2, <1>4, <2>4 DEF ReadsOneRow, Consumed
    <3>2. coefs' \in [Rows -> Nat]
      BY <1>1, <2>0, <3>1
    <3>3. ASSUME full, NEW r \in Rows
          PROVE  coefs'[r] = next.input_scan_number
                                - (IF r < next.input_iMCU_row THEN 0 ELSE 1)
      <4>1. r \in Nat /\ coefs[r] = in.input_scan_number
                                      - (IF r < in.input_iMCU_row THEN 0 ELSE 1)
        BY <2>0, <3>3
      <4>2. CASE r = in.input_iMCU_row
        <5>1. coefs'[r] = in.input_scan_number /\ r < in.input_iMCU_row + 1
          BY <1>1, <2>0, <3>1, <4>1, <4>2
        <5> QED BY <1>1, <3>1, <5>1
      <4>3. CASE r # in.input_iMCU_row
        <5>1. coefs'[r] = coefs[r]
          BY <2>0, <3>1, <4>3
        <5>2. r < in.input_iMCU_row + 1 <=> r < in.input_iMCU_row
          BY <1>1, <4>1, <4>3
        <5> QED BY <3>1, <4>1, <5>1, <5>2
      <4> QED BY <4>2, <4>3
    <3> QED BY <3>2, <3>3
  <2> QED BY <1>3, <2>1, <2>2, <2>3, <2>4
<1>9. CoefsRead'
  BY <1>5, <1>8 DEF CoefsRead
<1>10. output_scan_number' \in Nat
  BY <1>1, <1>4, <1>6 DEF Consumed
<1>11. TypeOK'
  BY <1>1, <1>4, <1>5, <1>8, <1>10 DEF TypeOK, OutputStays, CallGoesOn, Consumed, Errors
<1>12. PassSet'
  <2>1. global_state \in PassStates \cup {"BUFIMAGE", "BUFPOST"} =>
            output_scan_number' = IF next.eoi_reached /\ asked > next.input_scan_number
                                  THEN next.input_scan_number ELSE asked
    <3> SUFFICES ASSUME global_state \in PassStates \cup {"BUFIMAGE", "BUFPOST"}
                 PROVE  output_scan_number' =
                            IF next.eoi_reached /\ asked > next.input_scan_number
                            THEN next.input_scan_number ELSE asked
      OBVIOUS
    <3>1. output_scan_number = IF in.eoi_reached /\ asked > in.input_scan_number
                               THEN in.input_scan_number ELSE asked
      BY <1>1 DEF PassSet
    <3>2. CASE Nothing(in, o)
      BY <1>4, <3>1, <3>2 DEF Nothing, Consumed
    <3>3. CASE ReadsEOI(in, file, o)
      BY <1>1, <1>2, <1>4, <3>1, <3>3 DEF ReadsEOI, Consumed
    <3>4. CASE ReadsSOS(in, file, full, o) \/ ReadsOneRow(in, o)
      <4>1. ~in.eoi_reached /\ ~next.eoi_reached
        BY <1>2, <1>4, <3>4 DEF ReadsSOS, ReadsOneRow, SameHeaders
      <4> QED BY <1>4, <3>1, <4>1 DEF Consumed
    <3> QED BY <1>3, <3>2, <3>3, <3>4
  <2>2. in.eoi_reached => next.eoi_reached
    BY <1>3, <1>4 DEF Nothing, ReadsEOI, ReadsSOS, ReadsOneRow, SameHeaders
  <2> QED BY <1>1, <1>4, <1>5, <2>1, <2>2 DEF PassSet, OutputStays, is_dummy_pass
<1>13. InStep'
  <2>1. ~full /\ in.consume_input = "dummy_consume_data" => next = in
    BY <1>3, <1>4 DEF Nothing, ReadsEOI, ReadsSOS, ReadsOneRow
  <2>2. ~full => next.input_iMCU_row = in.input_iMCU_row
    <3>1. CASE Nothing(in, o) \/ ReadsEOI(in, file, o)
      BY <1>4, <3>1 DEF Nothing, ReadsEOI
    <3>2. CASE ReadsSOS(in, file, full, o)
      BY <1>1, <1>4, <3>2 DEF ReadsSOS, full
    <3>3. CASE ReadsOneRow(in, o)
      BY <1>2, <3>3 DEF ReadsOneRow
    <3> QED BY <1>3, <3>1, <3>2, <3>3
  <2> QED BY <1>1, <1>5, <2>2 DEF InStep, OutputStays
<1>14. RowsWorthy'
  BY <1>1, <1>4 DEF RowsWorthy, Worthy, OutputStays, is_dummy_pass
<1>15. CallsInPlace'
  BY <1>1 DEF CallsInPlace, OutputStays, CallGoesOn
<1>16. NothingYet' /\ InHeaders'
  BY DEF NothingYet, InHeaders, OutputStays, Before
<1> QED BY <1>7, <1>9, <1>11, <1>12, <1>13, <1>14, <1>15, <1>16 DEF IInv

LEMMA ConsumeInputIs ==
    ASSUME TypeOK, NEW rc, ConsumeInput(rc)
    PROVE  \E o : /\ o = consume_input(inputctl, file, full, more)
                  /\ Consumed(o) /\ o.rc = rc
<1> DEFINE o == consume_input(inputctl, file, full, more)
<1>1. more \in BOOLEAN
  BY DEF TypeOK
<1>2. /\ rc = o.rc /\ inputctl' = o.in /\ more' \in SourceAfter(o.in # inputctl)
      /\ coefs' = StoreRow(o) /\ output_scan_number' = ClampedScan(o) /\ file' = file
  BY DEF ConsumeInput
<1>3. more' \in BOOLEAN
  BY <1>1, <1>2 DEF SourceAfter
<1> HIDE DEF o
<1>4. Consumed(o)
  BY <1>2, <1>3 DEF Consumed, StoreRow, ClampedScan
<1> QED BY <1>2, <1>4 DEF o

\* A loop that wants input is behind the headers.
LEMMA WantsBehindHeaders ==
    ASSUME CallsInPlace, Running, WantsInput(inputctl)
    PROVE  global_state \notin Before
  BY DEF CallsInPlace, Running, WantsInput, Cranking, Before

LEMMA InputLoopKeeps ==
    ASSUME IInv, ReadMore \/ UnexpectedScan \/ (Suspend /\ WantsInput(inputctl)
                                                  /\ ConsumeInput("JPEG_SUSPENDED"))
    PROVE  IInv'
<1>1. /\ TypeOK /\ CallsInPlace /\ Running /\ WantsInput(inputctl) /\ err = "none" /\ call \in Ops
      /\ global_state \notin Before
  BY WantsBehindHeaders DEF IInv, TypeOK, ReadMore, UnexpectedScan, Suspend, Running
<1>2. OutputStays
  BY DEF ReadMore, UnexpectedScan, Suspend, OutputStays, parms, position, pass
<1>3. PICK rc : ConsumeInput(rc) /\ CallGoesOn(rc = "JERR_EOI_EXPECTED")
  BY <1>1 DEF ReadMore, UnexpectedScan, Suspend, Progress, Continue, Return, Raise, CallGoesOn
<1>4. PICK o : /\ o = consume_input(inputctl, file, full, more)
               /\ Consumed(o) /\ o.rc = rc
  BY <1>1, <1>3, ConsumeInputIs
<1> QED BY <1>1, <1>2, <1>3, <1>4, ConsumptionKeeps

LEMMA ConsumeInputKeeps ==
    ASSUME IInv, CanCall("consume_input"), global_state \notin {"START", "INHEADER", "READY"},
           \/ \E rc \in Progress : ConsumeInput(rc) /\ Continue
           \/ /\ ConsumeInput("JERR_EOI_EXPECTED")
              /\ Raise("consume_input", "JERR_EOI_EXPECTED"),
           UNCHANGED <<global_state, parms, position, pass, asked>>
    PROVE  IInv'
<1>1. TypeOK /\ err = "none" /\ call = "none" /\ global_state \notin Before
  BY DEF IInv, CanCall, Before
<1>2. OutputStays
  BY DEF OutputStays, parms, position, pass
<1>3. PICK rc : ConsumeInput(rc) /\ CallGoesOn(rc = "JERR_EOI_EXPECTED")
  BY <1>1 DEF Progress, Continue, Raise, CallGoesOn, Ops
<1>4. PICK o : /\ o = consume_input(inputctl, file, full, more)
               /\ Consumed(o) /\ o.rc = rc
  BY <1>1, <1>3, ConsumeInputIs
<1> QED BY <1>1, <1>2, <1>3, <1>4, ConsumptionKeeps

-----------------------------------------------------------------------------
(* Steps before an image is set up. *)

LEMMA BeforeKeeps ==
    ASSUME TypeOK', CallsInPlace', NothingYet', InHeaders', global_state' \in Before
    PROVE  IInv'
<1>1. /\ shown' = NothingShown /\ pass_mode' = "JBUF_PASS_THRU"
      /\ global_state' \notin PassStates \cup {"BUFIMAGE", "BUFPOST", "PRELOAD"}
  BY DEF NothingYet, Before, PassStates, OutputStates
<1>2. \A r \in Rows : shown'[r] = NotShown
  BY <1>1 DEF NothingShown
<1>3. InImage' /\ CoefsRead' /\ PassSet' /\ InStep'
  BY <1>1 DEF InImage, CoefsRead, PassSet, InStep, is_dummy_pass, PassStates
<1>4. RowsWorthy'
  BY <1>1, <1>2 DEF RowsWorthy, is_dummy_pass, PassStates
<1> QED BY <1>3, <1>4 DEF IInv

\* The input side in the headers.
LEMMA HeaderStateIs ==
    ASSUME IInv, global_state \in {"START", "INHEADER"}
    PROVE  /\ HeaderState \in InputState /\ HeaderState.inheaders
           /\ HeaderState.input_scan_number = 0 /\ HeaderState.input_iMCU_row = 0
           /\ HeaderState.consume_input = "consume_markers"
           /\ HeaderState.eoi_reached => file.scans = 0 /\ global_state = "INHEADER"
<1>1. 0 \in 0 .. total_iMCU_rows
  BY InputAssumption
<1>2. CASE global_state = "START"
  BY <1>1, <1>2 DEF HeaderState, reset_input_controller, InputState
<1>3. CASE global_state = "INHEADER"
  BY <1>3 DEF IInv, TypeOK, InHeaders, HeaderState
<1> QED BY <1>2, <1>3

LEMMA HeadersKeep ==
    ASSUME IInv, jpeg_read_header \/ (ReadHeaders("consume_input")
                     /\ global_state' = HeaderResult("consume_input") /\ Continue /\ file' = file)
    PROVE  IInv'
<1> DEFINE h == HeaderState  o == HeaderOutcome
<1>1. PICK op \in {"read_header", "consume_input"} :
          /\ ReadHeaders(op)
          /\ \/ global_state' = HeaderResult(op) /\ Continue /\ file' = file
             \/ /\ op = "read_header" /\ HeaderResult(op) = "START" /\ global_state' = "START"
                /\ Continue /\ file' \in NextFiles
             \/ RequireImage /\ file' = file
  BY DEF jpeg_read_header
<1>2. /\ global_state \in {"START", "INHEADER"} /\ call = "none" /\ err = "none"
      /\ inputctl' = o.in /\ more' \in SourceAfter(o.in # h)
      /\ coefs' = coefs /\ output_scan_number' = output_scan_number
      /\ output_iMCU_row' = output_iMCU_row /\ output_scanline' = output_scanline
      /\ smoothing' = smoothing /\ pass_mode' = pass_mode /\ colormap' = colormap
      /\ post' = post /\ shown' = shown /\ asked' = asked
  BY <1>1 DEF ReadHeaders, CanCall, output, position, pass
<1>3. /\ h \in InputState /\ h.inheaders /\ h.input_scan_number = 0 /\ h.input_iMCU_row = 0
      /\ h.consume_input = "consume_markers"
      /\ h.eoi_reached => file.scans = 0 /\ global_state = "INHEADER"
  BY <1>2, HeaderStateIs
<1>4. file \in Files /\ more \in BOOLEAN /\ TypeOK
  BY DEF IInv, TypeOK
<1>5. o = consume_markers(h, file, FALSE, more)
  BY DEF HeaderOutcome
<1> HIDE DEF h, o
<1>6. Nothing(h, o) \/ ReadsEOI(h, file, o) \/ ReadsFirstSOS(h, file, o)
  <2>1. Nothing(h, o) \/ ReadsEOI(h, file, o) \/ ReadsFirstSOS(h, file, o)
           \/ ReadsSOS(h, file, FALSE, o)
    BY <1>3, <1>4, <1>5, MarkersIs
  <2> QED BY <1>3, <2>1 DEF ReadsSOS
<1>7. /\ o.in \in InputState
      /\ o.rc = "JPEG_REACHED_SOS" =>
             /\ ~o.in.inheaders /\ o.in.input_scan_number = 1 /\ file.scans # 0
             /\ o.in.input_iMCU_row = 0 /\ o.in.consume_input = "consume_markers"
             /\ ~o.in.eoi_reached
      /\ o.rc # "JPEG_REACHED_SOS" =>
             /\ o.in.inheaders /\ o.in.input_scan_number = 0 /\ o.in.input_iMCU_row = 0
             /\ o.in.consume_input = "consume_markers"
             /\ o.in.eoi_reached => file.scans = 0
  <2>1. CASE Nothing(h, o)
    BY <1>3, <2>1 DEF Nothing
  <2>2. CASE ReadsEOI(h, file, o)
    BY <1>3, <2>2 DEF ReadsEOI
  <2>3. CASE ReadsFirstSOS(h, file, o)
    BY <1>3, <2>3 DEF ReadsFirstSOS
  <2> QED BY <1>6, <2>1, <2>2, <2>3
<1>8. /\ global_state' \in Before
      /\ global_state' = "READY" => o.rc = "JPEG_REACHED_SOS" /\ file' = file
      /\ global_state' = "INHEADER" => o.rc # "JPEG_REACHED_SOS" /\ file' = file
      /\ file' \in Files
  BY <1>1, <1>4 DEF HeaderResult, RequireImage, NextFiles, Before, o
<1>9. NothingYet'
  <2>1. NothingYet /\ global_state \in Before
    BY <1>2 DEF IInv, Before
  <2> QED BY <1>2, <2>1 DEF NothingYet
<1>10. InHeaders'
  <2>1. file.scans \in Nat
    BY <1>4, InputAssumption
  <2> QED BY <1>2, <1>7, <1>8, <2>1 DEF InHeaders
<1>11. call' \in {"none", "read_header"} /\ err' \in {"none", "JERR_NO_IMAGE"}
       /\ (err' = "none" => call' = "none")
  BY <1>1, <1>2 DEF Continue, RequireImage, Raise
<1>12. CallsInPlace'
  BY <1>8, <1>11 DEF CallsInPlace, Before
<1>13. /\ buffered_image' \in BOOLEAN /\ raw_data_out' \in BOOLEAN
       /\ two_pass_quantize' \in BOOLEAN /\ more' \in BOOLEAN
  BY <1>1, <1>2, <1>4 DEF ReadHeaders, TypeOK, parms, SourceAfter
<1>14. TypeOK'
  BY <1>2, <1>4, <1>7, <1>8, <1>11, <1>13 DEF TypeOK, Before, States, Ops, Errors
<1> QED BY <1>8, <1>9, <1>10, <1>12, <1>14, BeforeKeeps

\* jpeg_abort(), which also ends jpeg_finish_decompress().
LEMMA AbortKeeps == ASSUME IInv, jpeg_abort PROVE IInv'
<1>1. /\ global_state' = "START" /\ call' = "none" /\ err' = "none" /\ coefs' = NoRows
      /\ output_scan_number' = 0 /\ output_iMCU_row' = 0 /\ output_scanline' = 0
      /\ smoothing' = FALSE /\ pass_mode' = "JBUF_PASS_THRU" /\ colormap' = FALSE
      /\ post' = NoRows /\ shown' = NothingShown /\ asked' = 0
      /\ buffered_image' = buffered_image /\ raw_data_out' = raw_data_out
      /\ two_pass_quantize' = two_pass_quantize /\ inputctl' = inputctl /\ more' = more
      /\ file' \in Files
  BY DEF jpeg_abort, parms, NextFiles
<1>2. 0 \in 0 .. total_iMCU_rows
  BY InputAssumption
<1>3. TypeOK'
  BY <1>1, <1>2 DEF IInv, TypeOK, States, Errors, NoRows, NothingShown
<1>4. CallsInPlace' /\ NothingYet' /\ InHeaders'
  BY <1>1 DEF CallsInPlace, NothingYet, InHeaders
<1> QED BY <1>1, <1>3, <1>4, BeforeKeeps DEF Before

-----------------------------------------------------------------------------
(* Steps from place to place. *)

\* All but the state, the call and the source stay as they are.
DataStays ==
    /\ buffered_image' = buffered_image /\ raw_data_out' = raw_data_out
    /\ two_pass_quantize' = two_pass_quantize /\ file' = file /\ inputctl' = inputctl
    /\ coefs' = coefs /\ output_scan_number' = output_scan_number
    /\ output_iMCU_row' = output_iMCU_row /\ output_scanline' = output_scanline
    /\ smoothing' = smoothing /\ pass_mode' = pass_mode /\ colormap' = colormap
    /\ post' = post /\ shown' = shown /\ asked' = asked /\ more' \in BOOLEAN

\* From where a state is entered.
Entered ==
    \/ global_state' = global_state
    \/ /\ global_state = "PRESCAN" /\ ~is_dummy_pass /\ global_state' \in OutputStates
    \/ /\ global_state \in OutputStates \cup {"BUFPOST", "BUFIMAGE"}
       /\ global_state' \in {"BUFPOST", "BUFIMAGE"}
    \/ /\ global_state \in OutputStates \cup {"BUFIMAGE", "RDCOEFS"}
       /\ global_state' = "STOPPING"

LEMMA PlaceKeeps ==
    ASSUME IInv, DataStays, Entered, CallsInPlace', call' \in Ops \cup {"none"}, err' \in Errors,
           err' = err \/ (err = "none" /\ err' # "JERR_EOI_EXPECTED")
    PROVE  IInv'
<1>1. /\ TypeOK /\ NothingYet /\ InHeaders /\ InImage /\ CoefsRead /\ PassSet /\ InStep
      /\ RowsWorthy /\ full' = full /\ is_dummy_pass' = is_dummy_pass
      /\ global_state' \in Before <=> global_state \in Before
      /\ global_state' \in Before => global_state' = global_state
  BY DEF IInv, DataStays, full, is_dummy_pass, Entered, OutputStates, Before
<1>2. TypeOK'
  BY <1>1 DEF TypeOK, DataStays, Entered, States, OutputStates
<1>3. NothingYet' /\ InHeaders'
  BY <1>1 DEF NothingYet, InHeaders, DataStays, Before
<1>4. InImage' /\ CoefsRead'
  BY <1>1 DEF InImage, CoefsRead, DataStays
<1>5. PassSet'
  BY <1>1 DEF PassSet, DataStays, Entered, PassStates, OutputStates, is_dummy_pass
<1>6. InStep'
  BY <1>1 DEF InStep, DataStays, Entered, PassStates, OutputStates
<1>7. RowsWorthy'
  BY <1>1 DEF RowsWorthy, Worthy, DataStays, Entered, OutputStates
<1> QED BY <1>2, <1>3, <1>4, <1>5, <1>6, <1>7 DEF IInv

LEMMA CallsKeep ==
    ASSUME IInv,
           \/ \E op \in Ops : BadState(op)
           \/ StartDecompress_Again \/ OutputPassReady \/ DataArrives
           \/ \E op \in {"read_scanlines", "read_raw_data"} :
                  /\ CanCall(op) /\ output_scanline < total_iMCU_rows
                  /\ Begin(op) /\ UNCHANGED <<global_state, parms, input, output>>
           \/ /\ Suspend /\ Cranking
              /\ UNCHANGED <<input, output_scan_number>>
           \/ jpeg_finish_output
           \/ jpeg_finish_decompress /\ CanCall("finish_decompress")
           \/ /\ Running /\ call = "read_coefficients" /\ Return /\ global_state' = "STOPPING"
              /\ UNCHANGED <<parms, input, output>>
    PROVE  IInv'
<1>1. TypeOK /\ CallsInPlace /\ more \in BOOLEAN /\ call \in Ops \cup {"none"}
  BY DEF IInv, TypeOK
<1> USE DEF parms, input, output, position, pass
<1>2. CASE \E op \in Ops : BadState(op)
  <2>1. PICK op \in Ops : BadState(op)
    BY <1>2
  <2>2. err = "none" /\ err' \in {"JERR_NOTIMPL", "JERR_BAD_STATE"} /\ call' = op
    BY <2>1 DEF BadState, Raise
  <2>3. DataStays /\ global_state' = global_state
    BY <1>1, <2>1 DEF BadState, DataStays
  <2>4. CallsInPlace'
    BY <1>1, <2>2, <2>3 DEF CallsInPlace, DataStays
  <2> QED BY <2>2, <2>3, <2>4, PlaceKeeps DEF Entered, Errors
<1>3. CASE StartDecompress_Again
  <2>1. /\ call = "none" /\ err = "none" /\ call' = "start_decompress" /\ err' = "none"
        /\ global_state \in {"PRELOAD", "PRESCAN"} /\ global_state' = global_state /\ DataStays
    BY <1>1, <1>3 DEF StartDecompress_Again, CanCall, LegalStates, Begin, DataStays
  <2>2. CallsInPlace'
    BY <1>1, <2>1 DEF CallsInPlace, DataStays
  <2> QED BY <2>1, <2>2, PlaceKeeps DEF Entered, Errors, Ops
<1>4. CASE OutputPassReady
  <2>1. /\ err = "none" /\ call' = "none" /\ err' = "none" /\ global_state = "PRESCAN"
        /\ ~is_dummy_pass /\ global_state' \in OutputStates /\ DataStays
    BY <1>1, <1>4
       DEF OutputPassReady, SettingUp, Running, Return, DataStays, OutputStates
  <2>2. CallsInPlace'
    BY <1>1, <2>1 DEF CallsInPlace, DataStays, OutputStates
  <2> QED BY <2>1, <2>2, PlaceKeeps DEF Entered, Errors
<1>5. CASE DataArrives
  <2>1. call' = call /\ err' = err /\ global_state' = global_state /\ DataStays
    BY <1>5 DEF DataArrives, DataStays
  <2>2. CallsInPlace'
    BY <1>1, <2>1 DEF CallsInPlace, DataStays
  <2>3. err \in Errors
    BY <1>1 DEF TypeOK
  <2> QED BY <1>1, <2>1, <2>2, <2>3, PlaceKeeps DEF Entered
<1>6. CASE \E op \in {"read_scanlines", "read_raw_data"} :
               /\ CanCall(op) /\ output_scanline < total_iMCU_rows
               /\ Begin(op) /\ UNCHANGED <<global_state, parms, input, output>>
  <2>1. PICK op \in {"read_scanlines", "read_raw_data"} :
            /\ CanCall(op) /\ output_scanline < total_iMCU_rows
            /\ Begin(op) /\ UNCHANGED <<global_state, parms, input, output>>
    BY <1>6
  <2>2. /\ err = "none" /\ err' = "none" /\ call' = op /\ global_state' = global_state
        /\ op = "read_scanlines" => global_state = "SCANNING"
        /\ op = "read_raw_data" => global_state = "RAW_OK"
    BY <2>1 DEF CanCall, LegalStates, Begin
  <2>3. DataStays
    BY <1>1, <2>1 DEF DataStays
  <2>4. CallsInPlace'
    BY <1>1, <2>1, <2>2, <2>3 DEF CallsInPlace, DataStays
  <2> QED BY <2>2, <2>3, <2>4, PlaceKeeps DEF Entered, Errors, Ops
<1>7. CASE Suspend /\ Cranking /\ UNCHANGED <<input, output_scan_number>>
  <2>1. /\ err = "none" /\ call' = "none" /\ err' = "none" /\ global_state' = global_state
        /\ DataStays
    BY <1>1, <1>7 DEF Suspend, Running, Return, DataStays
  <2>2. CallsInPlace'
    BY <1>1, <2>1 DEF CallsInPlace, DataStays
  <2> QED BY <2>1, <2>2, PlaceKeeps DEF Entered, Errors
<1>8. CASE jpeg_finish_output
  <2>1. CASE CanCall("finish_output")
    <3>1. /\ err = "none" /\ err' = "none" /\ DataStays
          /\ call' = "finish_output" /\ global_state' = "BUFPOST"
      BY <1>1, <1>8, <2>1 DEF jpeg_finish_output, CanCall, Running, Begin, DataStays
    <3>2. /\ global_state \in {"BUFPOST"} \cup OutputStates
          /\ global_state \in OutputStates => buffered_image
      BY <2>1 DEF CanCall, LegalStates, OutputStates
    <3>3. CallsInPlace'
      BY <1>1, <3>1, <3>2 DEF CallsInPlace, DataStays, OutputStates
    <3> QED BY <3>1, <3>2, <3>3, PlaceKeeps DEF Entered, Errors, Ops
  <2>2. CASE ~CanCall("finish_output")
    <3>1. /\ err = "none" /\ err' = "none" /\ DataStays
          /\ call' = "none" /\ call = "finish_output" /\ global_state' = "BUFIMAGE"
      BY <1>1, <1>8, <2>2 DEF jpeg_finish_output, Running, Return, DataStays
    <3>2. global_state = "BUFPOST"
      BY <1>1, <3>1 DEF CallsInPlace
    <3>3. CallsInPlace'
      BY <1>1, <3>1, <3>2 DEF CallsInPlace, DataStays
    <3> QED BY <3>1, <3>2, <3>3, PlaceKeeps DEF Entered, Errors
  <2> QED BY <2>1, <2>2
<1>9. CASE jpeg_finish_decompress /\ CanCall("finish_decompress")
  <2>1. call = "none" /\ err = "none"
    BY <1>9 DEF CanCall
  <2>2. /\ DataStays /\ call' = "finish_decompress"
        /\ \/ err' = "JERR_TOO_LITTLE_DATA" /\ global_state' = global_state
           \/ /\ err' = "none" /\ global_state' = "STOPPING"
              /\ global_state \in {"BUFIMAGE", "STOPPING"} \cup OutputStates
    BY <1>1, <1>9, <2>1
       DEF jpeg_finish_decompress, CanCall, LegalStates, Running, Begin, Raise, DataStays
  <2>3. CallsInPlace'
    BY <1>1, <2>1, <2>2 DEF CallsInPlace, DataStays
  <2> QED BY <2>1, <2>2, <2>3, PlaceKeeps DEF Entered, Errors, Ops
<1>10. CASE /\ Running /\ call = "read_coefficients" /\ Return /\ global_state' = "STOPPING"
            /\ UNCHANGED <<parms, input, output>>
  <2>1. err = "none" /\ err' = "none" /\ call' = "none" /\ DataStays /\ global_state = "RDCOEFS"
    BY <1>1, <1>10 DEF Running, Return, DataStays, CallsInPlace
  <2>2. CallsInPlace'
    BY <1>1, <1>10, <2>1 DEF CallsInPlace, DataStays
  <2> QED BY <1>10, <2>1, <2>2, PlaceKeeps DEF Entered, Errors
<1> QED BY <1>2, <1>3, <1>4, <1>5, <1>6, <1>7, <1>8, <1>9, <1>10

-----------------------------------------------------------------------------
(* The steps that set up an image. *)

\* jinit_master_decompress() or transdecode_master_selection() behind the headers.
LEMMA ImageKeeps ==
    ASSUME IInv, global_state = "READY", err' = "none",
           buffered_image' \in BOOLEAN, raw_data_out' \in BOOLEAN, two_pass_quantize' \in BOOLEAN,
           inputctl' = start_input_pass(inputctl, inputctl.has_multiple_scans \/ buffered_image'),
           UNCHANGED <<file, more, coefs, output_scan_number, position, pass>>,
           \/ /\ global_state' = "BUFIMAGE" /\ buffered_image' /\ call' = "none" /\ asked' = asked
           \/ /\ global_state' = "RDCOEFS" /\ buffered_image' /\ asked' = asked
              /\ call' = "read_coefficients"
           \/ /\ global_state' = "PRELOAD" /\ ~buffered_image' /\ call' = "start_decompress"
              /\ asked' = IF inputctl.has_multiple_scans THEN file.scans ELSE 1
    PROVE  IInv'
<1> DEFINE in == inputctl  next == inputctl'  T == total_iMCU_rows
<1>1. /\ TypeOK /\ in \in InputState /\ in.has_multiple_scans \in BOOLEAN
      /\ T \in Nat \ {0} /\ file \in Files /\ file.scans \in Nat
  BY TypesAre DEF IInv, TypeOK
<1>2. /\ ~in.inheaders /\ in.input_scan_number = 1 /\ 1 <= file.scans
      /\ in.input_iMCU_row = 0 /\ ~in.eoi_reached
      /\ coefs = NoRows /\ output_scan_number = 0 /\ output_iMCU_row = 0
      /\ output_scanline = 0 /\ pass_mode = "JBUF_PASS_THRU" /\ shown = NothingShown
      /\ asked = 0
  BY DEF IInv, InHeaders, NothingYet, Before
<1>3. /\ next \in InputState /\ SameHeaders(in, next)
      /\ next.consume_input = IF in.has_multiple_scans \/ buffered_image'
                              THEN "consume_data" ELSE "dummy_consume_data"
      /\ next.input_iMCU_row = 0 /\ next.input_scan_number = in.input_scan_number
  BY <1>1, StartInputIs
<1>4. /\ next.has_multiple_scans = in.has_multiple_scans /\ ~next.inheaders
      /\ ~next.eoi_reached /\ next.input_scan_number = 1
      /\ full' = (in.has_multiple_scans \/ buffered_image')
  BY <1>2, <1>3 DEF SameHeaders, full
<1>5. /\ file' = file /\ more' = more /\ coefs' = coefs
      /\ output_scan_number' = output_scan_number /\ output_iMCU_row' = output_iMCU_row
      /\ output_scanline' = output_scanline /\ smoothing' = smoothing /\ pass_mode' = pass_mode
      /\ colormap' = colormap /\ post' = post /\ shown' = shown
  BY DEF position, pass
<1>6. asked' \in Nat /\ (~full' => asked' = 1)
  BY <1>1, <1>2, <1>4
<1>7. TypeOK'
  BY <1>1, <1>3, <1>5, <1>6 DEF TypeOK, States, Ops, Errors
<1>8. CallsInPlace' /\ NothingYet' /\ InHeaders'
  BY DEF CallsInPlace, NothingYet, InHeaders, Before
<1>9. InImage'
  <2>1. 1 \in 1 .. file.scans /\ 0 < T
    BY <1>1, <1>2
  <2> QED BY <1>1, <1>3, <1>4, <1>5, <1>6, <2>1 DEF InImage
<1>10. CoefsRead'
  <2> SUFFICES ASSUME NEW r \in Rows PROVE coefs[r] = 1 - (IF r < 0 THEN 0 ELSE 1)
    BY <1>3, <1>4, <1>5 DEF CoefsRead
  <2>1. r \in Nat /\ coefs[r] = 0
    BY <1>1, <1>2 DEF Rows, NoRows
  <2> QED BY <2>1
<1>11. PassSet' /\ InStep'
  BY <1>1, <1>2, <1>3, <1>4, <1>5 DEF PassSet, InStep, PassStates, OutputStates, is_dummy_pass
<1>12. RowsWorthy'
  <2>1. \A r \in Rows : shown[r] = NotShown
    BY <1>2 DEF NothingShown
  <2> QED BY <1>2, <1>5, <2>1 DEF RowsWorthy, is_dummy_pass
<1> QED BY <1>7, <1>8, <1>9, <1>10, <1>11, <1>12 DEF IInv

LEMMA StartKeeps ==
    ASSUME IInv, \E s \in Settings[file] :
                     StartDecompress_First(s.buffered_image, s.raw_data_out, s.two_pass_quantize)
    PROVE  IInv'
<1>1. TypeOK /\ file \in Files
  BY DEF IInv, TypeOK
<1>2. PICK s \in Settings[file] :
          StartDecompress_First(s.buffered_image, s.raw_data_out, s.two_pass_quantize)
  OBVIOUS
<1>3. s.buffered_image \in BOOLEAN /\ s.raw_data_out \in BOOLEAN /\ s.two_pass_quantize \in BOOLEAN
  BY <1>1, <1>2, APIAssumption
<1>4. /\ global_state = "READY" /\ call = "none" /\ err = "none"
      /\ buffered_image' = s.buffered_image /\ raw_data_out' = s.raw_data_out
      /\ two_pass_quantize' = s.two_pass_quantize
      /\ UNCHANGED <<file, more, coefs, output_scan_number, position, pass>>
  BY <1>2 DEF StartDecompress_First, CanCall
<1>5. CASE s.two_pass_quantize /\ s.raw_data_out
  <2>1. /\ call' = "start_decompress" /\ err' = "JERR_NOTIMPL"
        /\ UNCHANGED <<global_state, inputctl, asked>>
    BY <1>2, <1>5 DEF StartDecompress_First, Raise
  <2>2. TypeOK'
    BY <1>1, <1>3, <1>4, <2>1 DEF TypeOK, position, pass, Ops, Errors
  <2>3. CallsInPlace' /\ NothingYet' /\ InHeaders'
    BY <1>4, <2>1 DEF IInv, CallsInPlace, NothingYet, InHeaders, position, pass
  <2> QED BY <1>4, <2>1, <2>2, <2>3, BeforeKeeps DEF Before
<1>6. CASE ~(s.two_pass_quantize /\ s.raw_data_out)
  <2>1. /\ inputctl' = start_input_pass(inputctl, inputctl.has_multiple_scans \/ buffered_image')
        /\ \/ /\ global_state' = "BUFIMAGE" /\ buffered_image' /\ asked' = asked
              /\ call' = "none" /\ err' = "none"
           \/ /\ global_state' = "PRELOAD" /\ ~buffered_image' /\ call' = "start_decompress"
              /\ err' = "none"
              /\ asked' = IF inputctl.has_multiple_scans THEN file.scans ELSE 1
    BY <1>2, <1>4, <1>6
       DEF StartDecompress_First, jinit_master_decompress, Continue, Begin
  <2>2. err' = "none"
    BY <2>1
  <2> QED BY <1>3, <1>4, <2>1, <2>2, ImageKeeps
<1> QED BY <1>5, <1>6

LEMMA ReadCoefficientsKeeps ==
    ASSUME IInv, CanCall("read_coefficients"), global_state \in {"READY", "RDCOEFS"},
           Begin("read_coefficients"), global_state' = "RDCOEFS", buffered_image' = TRUE,
           inputctl' = IF global_state = "READY" THEN start_input_pass(inputctl, TRUE)
                                                 ELSE inputctl,
           UNCHANGED <<raw_data_out, two_pass_quantize, file, more, coefs, output>>
    PROVE  IInv'
<1>1. /\ TypeOK /\ CallsInPlace /\ call' = "read_coefficients" /\ err' = "none"
      /\ inputctl \in InputState /\ inputctl.has_multiple_scans \in BOOLEAN
  BY TypesAre DEF IInv, CanCall, Begin, TypeOK
<1>2. CASE global_state = "READY"
  <2>1. inputctl' = start_input_pass(inputctl, inputctl.has_multiple_scans \/ buffered_image')
    <3>1. (inputctl.has_multiple_scans \/ buffered_image') = TRUE
      BY <1>1
    <3> QED BY <1>2, <3>1
  <2> QED BY <1>1, <1>2, <2>1, ImageKeeps DEF TypeOK, output
<1>3. CASE global_state = "RDCOEFS"
  <2>1. DataStays
    BY <1>1, <1>3 DEF DataStays, TypeOK, CallsInPlace, output, position, pass
  <2>2. CallsInPlace'
    BY <1>1 DEF CallsInPlace
  <2>3. err = "none"
    BY DEF CanCall
  <2> QED BY <1>1, <1>3, <2>1, <2>2, <2>3, PlaceKeeps DEF Entered, Ops, Errors
<1> QED BY <1>2, <1>3

-----------------------------------------------------------------------------
(* The steps that set up an output pass. *)

\* prepare_for_output_pass() for a pass over the coefficients.
LEMMA PassKeeps ==
    ASSUME IInv, NEW have_map \in BOOLEAN, prepare_for_output_pass(have_map), ~is_dummy_pass,
           global_state \notin Before, err = "none", err' = "none",
           global_state' = "PRESCAN", call' \in {"start_decompress", "start_output"},
           UNCHANGED <<parms, input>>, colormap' \in BOOLEAN,
           asked' \in Nat, asked' >= 1, ~full => asked' = 1 /\ inputctl.input_iMCU_row = 0,
           full /\ ~buffered_image => inputctl.eoi_reached,
           output_scan_number' = IF inputctl.eoi_reached /\ asked' > inputctl.input_scan_number
                                 THEN inputctl.input_scan_number ELSE asked'
    PROVE  IInv'
<1>1. /\ TypeOK /\ CallsInPlace /\ InImage /\ CoefsRead
      /\ total_iMCU_rows \in Nat \ {0} /\ inputctl.input_scan_number \in Nat
      /\ full \in BOOLEAN
  BY TypesAre DEF IInv
<1>2. /\ buffered_image' = buffered_image /\ raw_data_out' = raw_data_out
      /\ two_pass_quantize' = two_pass_quantize /\ file' = file /\ inputctl' = inputctl
      /\ more' = more /\ coefs' = coefs /\ full' = full
  BY DEF parms, input, full
<1>3. /\ output_iMCU_row' = 0 /\ output_scanline' = 0 /\ shown' = NothingShown /\ post' = post
      /\ smoothing' \in BOOLEAN
  BY APIAssumption DEF prepare_for_output_pass
<1>4. pass_mode' = IF two_pass_quantize /\ ~have_map THEN "JBUF_SAVE_AND_PASS"
                                                     ELSE "JBUF_PASS_THRU"
  BY DEF prepare_for_output_pass, NextPassMode, DummyPassNeeded
<1>5. output_scan_number' \in Nat
  BY <1>1
<1>6. 0 \in 0 .. total_iMCU_rows
  BY <1>1
<1>7. TypeOK'
  BY <1>1, <1>2, <1>3, <1>4, <1>5, <1>6 DEF TypeOK, States, Ops, Errors, NothingShown
<1>8. CallsInPlace' /\ NothingYet' /\ InHeaders'
  BY <1>1, <1>2 DEF CallsInPlace, NothingYet, InHeaders, Before
<1>9. InImage' /\ CoefsRead'
  BY <1>1, <1>2 DEF InImage, CoefsRead
<1>10. PassSet' /\ InStep'
  BY <1>1, <1>2, <1>3, <1>4 DEF PassSet, InStep, PassStates, is_dummy_pass
<1>11. RowsWorthy'
  <2>1. \A r \in Rows : shown'[r] = NotShown /\ ~(r < output_scanline')
    BY <1>1, <1>3 DEF NothingShown, Rows
  <2> QED BY <1>3, <1>4, <2>1 DEF RowsWorthy, is_dummy_pass
<1> QED BY <1>7, <1>8, <1>9, <1>10, <1>11 DEF IInv

\* jpeg_start_decompress() behind its preload.
LEMMA PreloadedKeeps == ASSUME IInv, Preloaded PROVE IInv'
<1>1. /\ TypeOK /\ CallsInPlace /\ InImage /\ PassSet /\ InStep
      /\ total_iMCU_rows \in Nat \ {0} /\ inputctl.input_scan_number \in Nat
      /\ inputctl.has_multiple_scans \in BOOLEAN /\ inputctl.eoi_reached \in BOOLEAN
      /\ full \in BOOLEAN /\ colormap \in BOOLEAN /\ asked \in Nat
      /\ file.scans \in Nat
  BY TypesAre DEF IInv, TypeOK
<1>2. /\ err = "none" /\ err' = "none" /\ call = "start_decompress" /\ call' = call
      /\ global_state = "PRELOAD" /\ global_state' = "PRESCAN"
      /\ ~WantsInput(inputctl) /\ output_scan_number' = inputctl.input_scan_number
      /\ prepare_for_output_pass(colormap) /\ colormap' = colormap /\ asked' = asked
      /\ UNCHANGED <<parms, input>>
  BY DEF Preloaded, Running, Continue
<1>3. ~buffered_image /\ global_state \notin Before /\ ~is_dummy_pass
  BY <1>1, <1>2 DEF CallsInPlace, Before, PassSet
<1>4. inputctl.has_multiple_scans => inputctl.eoi_reached
  BY <1>2 DEF WantsInput, Unread
<1>5. full => inputctl.eoi_reached
  BY <1>3, <1>4 DEF full
<1>6. inputctl.input_scan_number \in 1 .. file.scans
  BY <1>1, <1>3 DEF InImage
<1>7. asked = inputctl.input_scan_number /\ asked >= 1
  <2>1. CASE full
    BY <1>1, <1>2, <1>3, <1>5, <1>6, <2>1 DEF InImage, PassSet
  <2>2. CASE ~full
    BY <1>1, <1>2, <1>3, <2>2 DEF InImage
  <2> QED BY <1>1, <2>1, <2>2
<1>8. ~full => asked = 1 /\ inputctl.input_iMCU_row = 0
  BY <1>1, <1>2, <1>3 DEF InImage, InStep
<1>9. output_scan_number' = IF inputctl.eoi_reached /\ asked' > inputctl.input_scan_number
                            THEN inputctl.input_scan_number ELSE asked'
  BY <1>1, <1>2, <1>7
<1>10. asked' \in Nat /\ asked' >= 1 /\ colormap' \in BOOLEAN
  BY <1>1, <1>2, <1>7
<1> QED BY <1>1, <1>2, <1>3, <1>5, <1>8, <1>9, <1>10, PassKeeps

LEMMA StartOutputKeeps ==
    ASSUME IInv, SameScanOnRetry, NEW n \in Nat, NEW newmap \in BOOLEAN,
           jpeg_start_output(n, newmap)
    PROVE  IInv'
<1>1. /\ TypeOK /\ CallsInPlace /\ InImage /\ PassSet
      /\ total_iMCU_rows \in Nat \ {0} /\ inputctl.input_scan_number \in Nat
      /\ inputctl.eoi_reached \in BOOLEAN
      /\ full \in BOOLEAN /\ colormap \in BOOLEAN /\ asked \in Nat /\ more \in BOOLEAN
      /\ file.scans \in Nat
  BY TypesAre DEF IInv, TypeOK
<1>2. /\ err = "none" /\ err' = "none" /\ call = "none" /\ call' = "start_output"
      /\ global_state \in {"BUFIMAGE", "PRESCAN"} /\ global_state' = "PRESCAN"
      /\ output_scan_number' = LimitedScan(n) /\ UNCHANGED <<parms, input>>
  BY DEF jpeg_start_output, CanCall, LegalStates, Begin
<1>3. LimitedScan(n) = IF inputctl.eoi_reached
                             /\ (IF n <= 0 THEN 1 ELSE n) > inputctl.input_scan_number
                       THEN inputctl.input_scan_number ELSE (IF n <= 0 THEN 1 ELSE n)
  BY DEF LimitedScan
<1>4. CASE global_state = "PRESCAN"
  <2>1. n = asked /\ UNCHANGED <<position, pass, asked>>
    BY <1>4 DEF jpeg_start_output
  <2>2. asked >= 1 /\ output_scan_number = IF inputctl.eoi_reached
                                                /\ asked > inputctl.input_scan_number
                                           THEN inputctl.input_scan_number ELSE asked
    BY <1>1, <1>4 DEF PassSet, PassStates
  <2>3. (IF n <= 0 THEN 1 ELSE n) = asked
    BY <1>1, <2>1, <2>2
  <2>4. output_scan_number' = output_scan_number
    BY <1>2, <1>3, <2>2, <2>3
  <2>5. DataStays
    BY <1>1, <1>2, <2>1, <2>4 DEF DataStays, parms, input, position, pass
  <2>6. CallsInPlace'
    BY <1>2 DEF CallsInPlace
  <2> QED BY <1>2, <1>4, <2>5, <2>6, PlaceKeeps DEF Entered, Ops, Errors
<1>5. CASE global_state = "BUFIMAGE"
  <2>1. /\ colormap' = (colormap /\ ~newmap) /\ prepare_for_output_pass(colormap /\ ~newmap)
        /\ asked' = IF n <= 0 THEN 1 ELSE n
    BY <1>5 DEF jpeg_start_output
  <2>2. buffered_image /\ full /\ ~is_dummy_pass /\ global_state \notin Before
    BY <1>1, <1>5 DEF CallsInPlace, full, PassSet, Before
  <2>3. asked' \in Nat /\ asked' >= 1
    BY <2>1
  <2>4. (colormap /\ ~newmap) \in BOOLEAN /\ colormap' \in BOOLEAN
    BY <2>1
  <2>5. output_scan_number' = IF inputctl.eoi_reached /\ asked' > inputctl.input_scan_number
                              THEN inputctl.input_scan_number ELSE asked'
    BY <1>2, <1>3, <2>1
  <2> QED BY <1>2, <2>1, <2>2, <2>3, <2>4, <2>5, PassKeeps
<1> QED BY <1>2, <1>4, <1>5

LEMMA DummyDoneKeeps == ASSUME IInv, DummyPassDone PROVE IInv'
<1>1. /\ TypeOK /\ CallsInPlace /\ InImage /\ CoefsRead /\ PassSet /\ RowsWorthy
      /\ total_iMCU_rows \in Nat \ {0} /\ output_scanline \in 0 .. total_iMCU_rows
  BY TypesAre DEF IInv, TypeOK
<1>2. /\ err = "none" /\ err' = "none" /\ call' = call
      /\ call \in {"start_decompress", "start_output"}
      /\ global_state = "PRESCAN" /\ global_state' = "PRESCAN"
      /\ is_dummy_pass /\ ~Cranking /\ colormap' = TRUE /\ asked' = asked
      /\ output_scan_number' = output_scan_number
      /\ buffered_image' = buffered_image /\ raw_data_out' = raw_data_out
      /\ two_pass_quantize' = two_pass_quantize /\ file' = file /\ inputctl' = inputctl
      /\ more' = more /\ coefs' = coefs /\ full' = full
  BY DEF DummyPassDone, SettingUp, Running, Continue, parms, input, full
<1>3. /\ pass_mode' = "JBUF_CRANK_DEST" /\ output_iMCU_row' = output_iMCU_row
      /\ smoothing' = smoothing /\ output_scanline' = 0 /\ shown' = NothingShown /\ post' = post
  BY <1>2 DEF DummyPassDone, prepare_for_output_pass, NextPassMode
<1>4. output_scanline = total_iMCU_rows
  BY <1>1, <1>2 DEF Cranking
<1>5. \A r \in Rows : Worthy(post[r])
  <2>1. \A r \in Rows : r < output_scanline
    BY <1>1, <1>4 DEF Rows
  <2> QED BY <1>1, <1>2, <2>1 DEF RowsWorthy
<1>6. TypeOK'
  <2>1. 0 \in 0 .. total_iMCU_rows
    BY <1>1
  <2> QED BY <1>1, <1>2, <1>3, <2>1 DEF TypeOK, NothingShown
<1>7. CallsInPlace' /\ NothingYet' /\ InHeaders'
  BY <1>1, <1>2 DEF CallsInPlace, NothingYet, InHeaders, Before
<1>8. InImage' /\ CoefsRead'
  BY <1>1, <1>2 DEF InImage, CoefsRead
<1>9. PassSet' /\ InStep'
  BY <1>1, <1>2, <1>3 DEF PassSet, InStep, PassStates, is_dummy_pass
<1>10. RowsWorthy'
  <2>1. \A r \in Rows : shown'[r] = NotShown
    BY <1>3 DEF NothingShown
  <2>2. \A r \in Rows : Worthy(post[r])'
    BY <1>2, <1>3, <1>5 DEF Worthy
  <2> QED BY <1>3, <2>1, <2>2 DEF RowsWorthy, is_dummy_pass
<1> QED BY <1>6, <1>7, <1>8, <1>9, <1>10 DEF IInv

-----------------------------------------------------------------------------
(* The steps that put rows out. *)

\* A row that decompress_data() need not wait for is good enough.
LEMMA RowReadIsWorthy ==
    ASSUME IInv, global_state \in PassStates, err = "none", full, ~MustRead(inputctl),
           output_iMCU_row \in Rows
    PROVE  Worthy(coefs[output_iMCU_row])
<1> DEFINE r == output_iMCU_row  scan == inputctl.input_scan_number
           row == inputctl.input_iMCU_row
<1>1. /\ TypeOK /\ InImage /\ CoefsRead /\ PassSet /\ global_state \notin Before
      /\ total_iMCU_rows \in Nat \ {0} /\ scan \in Nat /\ row \in Nat
      /\ inputctl.eoi_reached \in BOOLEAN /\ smoothing \in BOOLEAN
      /\ asked \in Nat /\ file.scans \in Nat /\ output_scan_number \in Nat
  BY TypesAre DEF IInv, TypeOK, PassStates, OutputStates, Before
<1>2. r \in Nat /\ r < total_iMCU_rows
  BY <1>1 DEF Rows
<1>3. coefs[r] = scan - (IF r < row THEN 0 ELSE 1)
  BY <1>1 DEF CoefsRead
<1>4. /\ scan >= 1 /\ scan <= file.scans
      /\ inputctl.eoi_reached => scan = file.scans /\ row = total_iMCU_rows
  BY <1>1 DEF InImage
<1>5. output_scan_number = IF inputctl.eoi_reached /\ asked > scan THEN scan ELSE asked
  BY <1>1 DEF PassSet
<1>6. delta(inputctl) \in Nat
  BY DEF delta
<1>7. \/ inputctl.eoi_reached
      \/ scan > output_scan_number
      \/ scan = output_scan_number /\ row > r
  <2>1. CASE smoothing
    <3>1. ~BehindSmoothing(inputctl)
      BY <2>1 DEF MustRead
    <3> QED BY <1>1, <1>2, <1>6, <3>1 DEF BehindSmoothing
  <2>2. CASE ~smoothing
    <3>1. ~Behind(inputctl)
      BY <2>2 DEF MustRead
    <3> QED BY <1>1, <1>2, <3>1 DEF Behind
  <2> QED BY <1>1, <2>1, <2>2
<1> HIDE DEF r, scan, row
<1>8. CASE inputctl.eoi_reached
  BY <1>1, <1>2, <1>3, <1>4, <1>8 DEF Worthy, r
<1>9. CASE ~inputctl.eoi_reached
  BY <1>1, <1>2, <1>3, <1>4, <1>5, <1>7, <1>9 DEF Worthy, r
<1> QED BY <1>8, <1>9

\* What a row that leaves the upsampler changes.
LEMMA RowOutKeeps ==
    ASSUME IInv, err = "none", NEW q, Worthy(q), RowOut(q),
           pass_mode # "JBUF_CRANK_DEST", output_scanline < total_iMCU_rows,
           global_state \in OutputStates \/ is_dummy_pass, global_state \in PassStates,
           \/ full /\ inputctl' = inputctl
           \/ ~full /\ inputctl' = RowDone(inputctl).in,
           UNCHANGED <<global_state, parms, file, coefs, output_scan_number, asked>>,
           more' \in BOOLEAN, err' = "none", call' \in Ops \cup {"none"}, CallsInPlace'
    PROVE  IInv'
<1> DEFINE in == inputctl  next == inputctl'  T == total_iMCU_rows
<1>1. /\ TypeOK /\ InImage /\ CoefsRead /\ PassSet /\ InStep /\ RowsWorthy
      /\ global_state \notin Before
      /\ in \in InputState /\ in.consume_input \in Methods /\ in.has_multiple_scans \in BOOLEAN
      /\ in.eoi_reached \in BOOLEAN /\ in.input_scan_number \in Nat
      /\ in.input_iMCU_row \in Nat /\ T \in Nat \ {0} /\ full \in BOOLEAN
      /\ output_scanline \in Nat /\ output_scanline \in Rows
  BY TypesAre DEF IInv, TypeOK, PassStates, OutputStates, Before, Rows
<1>2. output_iMCU_row = output_scanline /\ (full \/ in.input_iMCU_row = output_iMCU_row)
  BY <1>1 DEF InStep
<1>3. /\ global_state' = global_state /\ buffered_image' = buffered_image
      /\ raw_data_out' = raw_data_out /\ two_pass_quantize' = two_pass_quantize
      /\ file' = file /\ coefs' = coefs /\ output_scan_number' = output_scan_number
      /\ asked' = asked /\ output_iMCU_row' = output_iMCU_row + 1
      /\ output_scanline' = output_scanline + 1
      /\ smoothing' = smoothing /\ pass_mode' = pass_mode /\ colormap' = colormap
  BY DEF parms, RowOut
<1>4. ~full => /\ next \in InputState /\ SameHeaders(in, next)
               /\ next.input_scan_number = in.input_scan_number
               /\ next.input_iMCU_row = in.input_iMCU_row + 1
               /\ \/ next.input_iMCU_row < T /\ next.consume_input = in.consume_input
                  \/ next.input_iMCU_row = T /\ next.consume_input = "consume_markers"
  BY <1>1, <1>2, RowDoneIs
<1>5. /\ next \in InputState /\ SameHeaders(in, next) /\ full' = full
      /\ next.input_scan_number = in.input_scan_number
  BY <1>1, <1>3, <1>4 DEF SameHeaders, full
<1>6. q \in Nat
  BY DEF Worthy
<1>7. TypeOK'
  <2>1. output_iMCU_row + 1 \in 0 .. T /\ output_scanline + 1 \in 0 .. T
    BY <1>1, <1>2
  <2>2. post' \in [Rows -> Nat] /\ shown' \in [Rows -> Nat \cup {NotShown}]
    BY <1>1, <1>6 DEF TypeOK, RowOut
  <2> QED BY <1>1, <1>3, <1>5, <2>1, <2>2 DEF TypeOK, Errors
<1>8. InImage'
  <2>1. CASE full
    BY <1>1, <1>3, <1>5, <2>1 DEF InImage
  <2>2. CASE ~full
    <3>1. /\ ~in.inheaders /\ in.input_scan_number \in 1 .. file.scans
          /\ in.consume_input # "consume_data"
          /\ in.consume_input = "consume_markers" => in.eoi_reached
          /\ in.eoi_reached => in.consume_input = "consume_markers" /\ ~file.suspends
          /\ asked = 1 /\ in.input_scan_number = 1
      <4>1. in.input_iMCU_row # T
        BY <1>1, <1>2, <2>2
      <4>2. file.suspends \in BOOLEAN
        BY TypesAre DEF IInv
      <4> QED BY <1>1, <2>2, <4>1, <4>2 DEF InImage
    <3>2. next.eoi_reached = in.eoi_reached /\ next.inheaders = in.inheaders
      BY <1>5 DEF SameHeaders
    <3> QED BY <1>1, <1>3, <1>4, <1>5, <2>2, <3>1, <3>2 DEF InImage, Methods
  <2> QED BY <1>1, <2>1, <2>2
<1>9. CoefsRead'
  BY <1>1, <1>3, <1>5 DEF CoefsRead
<1>10. PassSet'
  BY <1>1, <1>3, <1>5 DEF PassSet, SameHeaders, is_dummy_pass, PassStates, OutputStates
<1>11. InStep'
  BY <1>1, <1>2, <1>3, <1>4, <1>5 DEF InStep, PassStates, OutputStates
<1>12. RowsWorthy'
  <2>1. CASE is_dummy_pass
    <3>1. /\ shown' = shown /\ post' = [post EXCEPT ![output_scanline] = q]
          /\ post \in [Rows -> Nat] /\ is_dummy_pass'
      BY <1>1, <1>3, <2>1 DEF RowOut, TypeOK, is_dummy_pass
    <3>2. \A r \in Rows : shown'[r] # NotShown => Worthy(shown[r])'
      BY <1>1, <1>3, <3>1 DEF RowsWorthy, Worthy
    <3>3. ASSUME NEW r \in Rows, r < output_scanline + 1 PROVE Worthy(post[r])'
      <4>1. CASE r = output_scanline
        BY <1>1, <1>3, <3>1, <4>1 DEF Worthy
      <4>2. CASE r # output_scanline
        <5>1. r < output_scanline
          BY <1>1, <3>3, <4>2 DEF Rows
        <5>2. Worthy(post[r]) /\ post'[r] = post[r]
          BY <1>1, <2>1, <3>1, <4>2, <5>1 DEF RowsWorthy
        <5> QED BY <1>3, <5>2 DEF Worthy
      <4> QED BY <4>1, <4>2
    <3>4. global_state = "PRESCAN" => shown = NothingShown
      BY <1>1 DEF RowsWorthy
    <3> QED BY <1>3, <3>1, <3>2, <3>3, <3>4 DEF RowsWorthy
  <2>2. CASE ~is_dummy_pass
    <3>1. /\ shown' = [shown EXCEPT ![output_scanline] = q] /\ post' = post
          /\ DOMAIN shown = Rows /\ ~is_dummy_pass' /\ global_state # "PRESCAN"
      BY <1>1, <1>3, <2>2 DEF RowOut, TypeOK, is_dummy_pass, OutputStates
    <3>2. ASSUME NEW r \in Rows, shown'[r] # NotShown PROVE Worthy(shown[r])'
      <4>1. CASE r = output_scanline
        BY <1>1, <1>3, <3>1, <4>1 DEF Worthy
      <4>2. CASE r # output_scanline
        <5>1. shown'[r] = shown[r]
          BY <3>1, <4>2
        <5> QED BY <1>1, <1>3, <3>2, <5>1 DEF RowsWorthy, Worthy
      <4> QED BY <4>1, <4>2
    <3> QED BY <1>3, <3>1, <3>2 DEF RowsWorthy
  <2> QED BY <2>1, <2>2
<1>13. NothingYet' /\ InHeaders'
  BY <1>1, <1>3 DEF NothingYet, InHeaders, Before
<1> QED BY <1>7, <1>8, <1>9, <1>10, <1>11, <1>12, <1>13 DEF IInv

\* The dummy pass and the reading calls.
LEMMA ProcessKeeps ==
    ASSUME IInv, process_data, err = "none", err' = "none",
           global_state \in OutputStates \/ (is_dummy_pass /\ global_state = "PRESCAN"),
           output_scanline < total_iMCU_rows,
           UNCHANGED <<global_state, parms, output_scan_number, asked>>,
           call' \in Ops \cup {"none"}, CallsInPlace'
    PROVE  IInv'
<1>1. /\ TypeOK /\ InImage /\ CoefsRead /\ PassSet /\ InStep /\ RowsWorthy
      /\ total_iMCU_rows \in Nat \ {0} /\ output_scanline \in Rows /\ more \in BOOLEAN
      /\ inputctl.input_scan_number \in Nat /\ asked \in Nat /\ file.scans \in Nat
      /\ global_state \in PassStates /\ global_state \notin Before
  BY TypesAre DEF IInv, TypeOK, Rows, PassStates, OutputStates, Before
<1>2. CASE pass_mode = "JBUF_CRANK_DEST"
  <2>1. /\ output_scanline' = output_scanline + 1 /\ output_iMCU_row' = output_iMCU_row
        /\ shown' = [shown EXCEPT ![output_scanline] = post[output_scanline]]
        /\ smoothing' = smoothing /\ pass_mode' = pass_mode /\ colormap' = colormap
        /\ post' = post /\ file' = file /\ inputctl' = inputctl /\ more' = more
        /\ coefs' = coefs /\ global_state' = global_state
        /\ buffered_image' = buffered_image /\ raw_data_out' = raw_data_out
        /\ two_pass_quantize' = two_pass_quantize /\ full' = full
        /\ output_scan_number' = output_scan_number /\ asked' = asked
    BY <1>2 DEF process_data, process_data_crank_post, input, parms, full
  <2>2. TypeOK'
    <3>1. output_scanline + 1 \in 0 .. total_iMCU_rows
      BY <1>1 DEF Rows
    <3>2. shown' \in [Rows -> Nat \cup {NotShown}]
      BY <1>1, <2>1 DEF TypeOK
    <3> QED BY <1>1, <2>1, <3>1, <3>2 DEF TypeOK, Errors
  <2>3. NothingYet' /\ InHeaders' /\ InImage' /\ CoefsRead'
    BY <1>1, <2>1 DEF NothingYet, InHeaders, InImage, CoefsRead, Before
  <2>4. PassSet' /\ InStep'
    BY <1>1, <1>2, <2>1 DEF PassSet, InStep, is_dummy_pass, PassStates
  <2>5. RowsWorthy'
    <3>1. DOMAIN shown = Rows /\ ~is_dummy_pass /\ ~is_dummy_pass' /\ global_state # "PRESCAN"
      BY <1>1, <1>2, <2>1 DEF TypeOK, is_dummy_pass, OutputStates
    <3>2. ASSUME NEW r \in Rows, shown'[r] # NotShown PROVE Worthy(shown[r])'
      <4>1. CASE r = output_scanline
        <5>1. Worthy(post[r]) /\ shown'[r] = post[r]
          BY <1>1, <1>2, <2>1, <3>1, <4>1 DEF RowsWorthy
        <5> QED BY <2>1, <5>1 DEF Worthy
      <4>2. CASE r # output_scanline
        <5>1. shown'[r] = shown[r]
          BY <2>1, <3>1, <4>2
        <5> QED BY <1>1, <2>1, <3>2, <5>1 DEF RowsWorthy, Worthy
      <4> QED BY <4>1, <4>2
    <3> QED BY <1>1, <2>1, <3>1, <3>2 DEF RowsWorthy, Worthy
  <2> QED BY <2>2, <2>3, <2>4, <2>5 DEF IInv
<1>3. CASE pass_mode # "JBUF_CRANK_DEST" /\ decompress_data
  <2>1. output_iMCU_row = output_scanline
    BY <1>1, <1>3 DEF InStep
  <2>2. /\ full /\ ~MustRead(inputctl) /\ RowOut(coefs[output_iMCU_row])
        /\ inputctl' = inputctl /\ more' \in BOOLEAN /\ UNCHANGED <<file, coefs>>
    BY <1>1, <1>3 DEF decompress_data, input
  <2>3. Worthy(coefs[output_iMCU_row])
    BY <1>1, <2>1, <2>2, RowReadIsWorthy
  <2> QED BY <1>1, <1>3, <2>2, <2>3, RowOutKeeps
<1>4. CASE pass_mode # "JBUF_CRANK_DEST" /\ decompress_onepass
  <2>1. /\ ~full /\ RowOut(inputctl.input_scan_number)
        /\ inputctl' = RowDone(inputctl).in /\ more' \in BOOLEAN /\ UNCHANGED <<file, coefs>>
    BY <1>1, <1>4 DEF decompress_onepass, SourceAfter
  <2>2. Worthy(inputctl.input_scan_number)
    BY <1>1, <2>1 DEF Worthy, InImage
  <2> QED BY <1>1, <1>4, <2>1, <2>2, RowOutKeeps
<1> QED BY <1>2, <1>3, <1>4 DEF process_data

LEMMA RowsKeep ==
    ASSUME IInv,
           \/ DummyPassRow
           \/ \E op \in {"read_scanlines", "read_raw_data"} :
                  /\ Running /\ call = op /\ process_data /\ Return
                  /\ UNCHANGED <<global_state, parms, output_scan_number, asked>>
    PROVE  IInv'
<1>1. CallsInPlace /\ call \in Ops \cup {"none"} /\ PassSet
  BY DEF IInv, TypeOK
<1>2. CASE DummyPassRow
  <2>1. /\ process_data /\ err = "none" /\ err' = "none" /\ call' = call
        /\ call \in {"start_decompress", "start_output"}
        /\ is_dummy_pass /\ global_state = "PRESCAN" /\ output_scanline < total_iMCU_rows
        /\ UNCHANGED <<global_state, parms, output_scan_number, asked>>
    BY <1>2 DEF DummyPassRow, SettingUp, Running, Cranking, Continue
  <2>2. CallsInPlace'
    BY <1>1, <2>1 DEF CallsInPlace, parms
  <2> QED BY <1>1, <2>1, <2>2, ProcessKeeps
<1>3. CASE \E op \in {"read_scanlines", "read_raw_data"} :
               /\ Running /\ call = op /\ process_data /\ Return
               /\ UNCHANGED <<global_state, parms, output_scan_number, asked>>
  <2>1. /\ process_data /\ err = "none" /\ err' = "none" /\ call' = "none"
        /\ call \in {"read_scanlines", "read_raw_data"}
        /\ UNCHANGED <<global_state, parms, output_scan_number, asked>>
    BY <1>3 DEF Running, Return
  <2>2. global_state \in OutputStates /\ output_scanline < total_iMCU_rows
    BY <1>1, <2>1 DEF CallsInPlace, OutputStates
  <2>3. CallsInPlace'
    BY <1>1, <2>1, <2>2 DEF CallsInPlace, parms, OutputStates
  <2> QED BY <1>1, <2>1, <2>2, <2>3, ProcessKeeps
<1> QED BY <1>2, <1>3

-----------------------------------------------------------------------------
(* jpeg_skip_scanlines(), outside of buffered-image mode. *)

LEMMA SkipKeeps ==
    ASSUME IInv, "skip_scanlines" \notin Calls[TRUE],
           NEW n \in 1 .. total_iMCU_rows, jpeg_skip_scanlines(n)
    PROVE  IInv'
<1> DEFINE in == inputctl  next == inputctl'  T == total_iMCU_rows
<1>1. /\ TypeOK /\ CallsInPlace /\ InImage /\ CoefsRead /\ PassSet /\ InStep /\ RowsWorthy
      /\ in \in InputState /\ in.consume_input \in Methods /\ in.has_multiple_scans \in BOOLEAN
      /\ in.eoi_reached \in BOOLEAN /\ in.input_scan_number \in Nat
      /\ in.input_iMCU_row \in Nat /\ T \in Nat \ {0} /\ full \in BOOLEAN
      /\ output_scanline \in Nat /\ buffered_image \in BOOLEAN /\ more \in BOOLEAN
      /\ asked \in Nat
  BY TypesAre DEF IInv, TypeOK
<1>2. /\ call = "none" /\ err = "none" /\ global_state = "SCANNING" /\ ~file.suspends
      /\ "skip_scanlines" \in Calls[buffered_image] /\ global_state' = global_state
      /\ buffered_image' = buffered_image /\ raw_data_out' = raw_data_out
      /\ two_pass_quantize' = two_pass_quantize /\ file' = file /\ more' = more
      /\ coefs' = coefs /\ output_scan_number' = output_scan_number
      /\ smoothing' = smoothing /\ pass_mode' = pass_mode /\ colormap' = colormap
      /\ post' = post /\ shown' = shown /\ asked' = asked
  BY DEF jpeg_skip_scanlines, CanCall, LegalStates, parms, pass
<1>3. ~buffered_image /\ global_state \notin Before /\ global_state \in PassStates
  BY <1>1, <1>2 DEF Before, PassStates, OutputStates
<1>4. CASE two_pass_quantize
  <2>1. /\ call' = "skip_scanlines" /\ err' = "JERR_NOTIMPL" /\ inputctl' = inputctl
        /\ output_iMCU_row' = output_iMCU_row /\ output_scanline' = output_scanline
    BY <1>4 DEF jpeg_skip_scanlines, Raise, position
  <2>2. DataStays
    BY <1>1, <1>2, <2>1 DEF DataStays
  <2>3. CallsInPlace'
    BY <1>1, <1>2, <1>3, <2>1 DEF CallsInPlace
  <2> QED BY <1>2, <2>1, <2>2, <2>3, PlaceKeeps DEF Entered, Ops, Errors
<1>5. CASE ~two_pass_quantize
  <2>1. call' = "none" /\ err' = "none" /\ pass_mode = "JBUF_PASS_THRU"
    BY <1>1, <1>2, <1>5 DEF jpeg_skip_scanlines, Continue, PassSet
  <2>2. CallsInPlace' /\ NothingYet' /\ InHeaders'
    BY <1>2, <1>3, <2>1 DEF CallsInPlace, NothingYet, InHeaders, Before
  <2>3. in.consume_input # "consume_data" \/ (full /\ ~in.eoi_reached)
    BY <1>1, <1>3 DEF InImage
  <2>4. full => in.eoi_reached /\ in.consume_input = "consume_markers"
    BY <1>1, <1>3 DEF PassSet, InImage
  <2>5. CASE output_scanline + n >= T
    <3> DEFINE done == finish_input_pass(in)
    <3>1. /\ output_scanline' = T /\ output_iMCU_row' = output_iMCU_row
          /\ next = [done EXCEPT !.eoi_reached = TRUE]
      BY <1>5, <2>5 DEF jpeg_skip_scanlines, SkipToBottom
    <3>2. /\ done \in InputState /\ SameHeaders(in, done)
          /\ done.consume_input = "consume_markers"
          /\ done.input_iMCU_row = in.input_iMCU_row
          /\ done.input_scan_number = in.input_scan_number
      BY <1>1, FinishInputIs
    <3> HIDE DEF done
    <3>3. /\ next \in InputState /\ next.eoi_reached /\ next.consume_input = "consume_markers"
          /\ next.has_multiple_scans = in.has_multiple_scans /\ next.inheaders = in.inheaders
          /\ next.input_iMCU_row = in.input_iMCU_row
          /\ next.input_scan_number = in.input_scan_number
      BY <3>1, <3>2 DEF InputState, SameHeaders
    <3>4. full' = full
      BY <1>2, <3>3 DEF full
    <3>5. TypeOK'
      <4>1. T \in 0 .. T
        BY <1>1
      <4> QED BY <1>1, <1>2, <2>1, <3>1, <3>3, <4>1 DEF TypeOK, Errors
    <3>6. InImage'
      BY <1>1, <1>2, <1>3, <2>1, <2>4, <3>3, <3>4 DEF InImage
    <3>7. CoefsRead'
      BY <1>1, <1>2, <2>1, <3>3, <3>4 DEF CoefsRead
    <3>8. PassSet'
      <4>1. ~full => asked = 1 /\ in.input_scan_number = 1
        BY <1>1, <1>2, <1>3 DEF InImage
      <4>2. output_scan_number = IF in.eoi_reached /\ asked > in.input_scan_number
                                 THEN in.input_scan_number ELSE asked
        BY <1>1, <1>3 DEF PassSet
      <4>3. output_scan_number = IF asked > in.input_scan_number
                                 THEN in.input_scan_number ELSE asked
        BY <1>1, <2>4, <4>1, <4>2
      <4> QED BY <1>1, <1>2, <3>3, <3>4, <4>3
              DEF PassSet, PassStates, OutputStates, is_dummy_pass
    <3>9. InStep' /\ RowsWorthy'
      BY <1>1, <1>2, <2>1, <3>1 DEF InStep, RowsWorthy, Worthy, is_dummy_pass
    <3> QED BY <2>2, <3>5, <3>6, <3>7, <3>8, <3>9 DEF IInv
  <2>6. CASE ~(output_scanline + n >= T)
    <3>1. /\ output_scanline' = output_scanline + n /\ output_iMCU_row' = output_iMCU_row + n
          /\ next = IF full THEN in ELSE [in EXCEPT !.input_iMCU_row = @ + n]
      BY <1>5, <2>6 DEF jpeg_skip_scanlines, SkipRows, SkippedInput
    <3>2. /\ output_iMCU_row = output_scanline
          /\ full \/ in.input_iMCU_row = output_iMCU_row
          /\ n \in Nat /\ n >= 1 /\ output_scanline + n < T
      BY <1>1, <1>3, <2>1, <2>6 DEF InStep
    <3>3. ~full => /\ in.input_iMCU_row + n \in 0 .. T /\ in.input_iMCU_row < T
      BY <1>1, <3>2
    <3>4. /\ next \in InputState /\ SameHeaders(in, next)
          /\ next.consume_input = in.consume_input
          /\ next.input_scan_number = in.input_scan_number
          /\ next.input_iMCU_row = IF full THEN in.input_iMCU_row ELSE in.input_iMCU_row + n
      <4>1. CASE full
        BY <1>1, <3>1, <4>1 DEF SameHeaders
      <4>2. CASE ~full
        BY <1>1, <3>1, <3>3, <4>2 DEF InputState, SameHeaders
      <4> QED BY <1>1, <4>1, <4>2
    <3>5. full' = full
      BY <1>2, <3>4 DEF full, SameHeaders
    <3>6. TypeOK'
      <4>1. output_scanline + n \in 0 .. T /\ output_iMCU_row + n \in 0 .. T
        BY <1>1, <3>2
      <4> QED BY <1>1, <1>2, <2>1, <3>1, <3>4, <4>1 DEF TypeOK, Errors
    <3>7. InImage'
      <4>1. CASE full
        BY <1>1, <1>2, <1>3, <2>1, <3>1, <4>1 DEF InImage, full
      <4>2. CASE ~full
        <5>1. in.consume_input = "consume_markers" => in.eoi_reached
          BY <1>1, <1>3, <3>3, <4>2 DEF InImage
        <5> QED BY <1>1, <1>2, <1>3, <2>1, <2>3, <3>4, <3>5, <4>2, <5>1
                DEF InImage, SameHeaders
      <4> QED BY <1>1, <4>1, <4>2
    <3>8. CoefsRead'
      BY <1>1, <1>2, <2>1, <3>1, <3>5 DEF CoefsRead
    <3>9. PassSet'
      BY <1>1, <1>2, <3>4, <3>5
         DEF PassSet, SameHeaders, PassStates, OutputStates, is_dummy_pass
    <3>10. InStep' /\ RowsWorthy'
      <4>1. full \/ next.input_iMCU_row = output_iMCU_row + n
        BY <3>2, <3>4
      <4> QED BY <1>1, <1>2, <2>1, <3>1, <3>2, <3>5, <4>1
              DEF InStep, RowsWorthy, Worthy, is_dummy_pass, OutputStates
    <3> QED BY <2>2, <3>6, <3>7, <3>8, <3>9, <3>10 DEF IInv
  <2> QED BY <2>5, <2>6
<1> QED BY <1>1, <1>4, <1>5 DEF TypeOK

-----------------------------------------------------------------------------
(* The invariant holds, and what follows from it. *)

LEMMA InitHolds == ASSUME Init PROVE IInv
<1>1. 0 \in 0 .. total_iMCU_rows
  BY InputAssumption
<1>2. reset_input_controller \in InputState
  BY <1>1 DEF reset_input_controller, InputState
<1>3. more \in BOOLEAN
  BY InputAssumption DEF Init
<1>4. TypeOK
  BY <1>1, <1>2, <1>3 DEF Init, TypeOK, States, Errors, NoRows, NothingShown
<1>5. CallsInPlace /\ NothingYet /\ InHeaders /\ InImage /\ CoefsRead /\ PassSet /\ InStep
  BY DEF Init, CallsInPlace, NothingYet, InHeaders, InImage, CoefsRead, PassSet, InStep, Before,
         PassStates, OutputStates, is_dummy_pass
<1>6. RowsWorthy
  BY DEF Init, RowsWorthy, NothingShown, is_dummy_pass
<1> QED BY <1>4, <1>5, <1>6 DEF IInv

LEMMA NextKeeps == ASSUME IInv, Disciplined, [Next]_vars PROVE IInv'
<1>1. CASE jpeg_read_header
  BY <1>1, HeadersKeep
<1>2. CASE jpeg_consume_input
  BY <1>2, HeadersKeep, ConsumeInputKeeps DEF jpeg_consume_input
<1>3. CASE jpeg_start_decompress
  BY <1>3, StartKeeps, CallsKeep, PreloadedKeeps DEF jpeg_start_decompress
<1>4. CASE \E n \in 0 .. MaxScanNumber, newmap \in BOOLEAN : jpeg_start_output(n, newmap)
  <2>1. PICK n \in 0 .. MaxScanNumber, newmap \in BOOLEAN : jpeg_start_output(n, newmap)
    BY <1>4
  <2>2. n \in Nat
    BY APIAssumption
  <2> QED BY <2>1, <2>2, StartOutputKeeps DEF Disciplined
<1>5. CASE output_pass_setup
  BY <1>5, RowsKeep, DummyDoneKeeps, CallsKeep DEF output_pass_setup
<1>6. CASE jpeg_read_scanlines \/ jpeg_read_raw_data
  <2>1. PICK op \in {"read_scanlines", "read_raw_data"} : ReadCall(op)
    BY <1>6 DEF jpeg_read_scanlines, jpeg_read_raw_data
  <2>2. CASE /\ CanCall(op) /\ output_scanline < total_iMCU_rows
             /\ Begin(op) /\ UNCHANGED <<global_state, parms, input, output>>
    BY <2>2, CallsKeep
  <2>3. CASE /\ Running /\ call = op /\ process_data /\ Return
             /\ UNCHANGED <<global_state, parms, output_scan_number, asked>>
    BY <2>3, RowsKeep
  <2> QED BY <2>1, <2>2, <2>3 DEF ReadCall
<1>7. CASE \E n \in 1 .. total_iMCU_rows : jpeg_skip_scanlines(n)
  BY <1>7, SkipKeeps DEF Disciplined
<1>8. CASE jpeg_finish_output
  BY <1>8, CallsKeep
<1>9. CASE jpeg_finish_decompress
  BY <1>9, CallsKeep, AbortKeeps DEF jpeg_finish_decompress
<1>10. CASE jpeg_read_coefficients
  BY <1>10, ReadCoefficientsKeeps, CallsKeep DEF jpeg_read_coefficients
<1>11. CASE Abort
  BY <1>11, AbortKeeps DEF Abort
<1>12. CASE \E op \in Ops : BadState(op)
  BY <1>12, CallsKeep
<1>13. CASE ReadMore \/ UnexpectedScan
  BY <1>13, InputLoopKeeps
<1>14. CASE Suspend
  <2>1. CASE WantsInput(inputctl) /\ ConsumeInput("JPEG_SUSPENDED")
    BY <1>14, <2>1, InputLoopKeeps
  <2>2. CASE Cranking /\ UNCHANGED <<input, output_scan_number>>
    BY <1>14, <2>2, CallsKeep
  <2> QED BY <1>14, <2>1, <2>2 DEF Suspend
<1>15. CASE DataArrives
  BY <1>15, CallsKeep
<1>16. CASE UNCHANGED vars
  BY <1>16
     DEF vars, parms, input, output, position, pass, IInv, TypeOK, CallsInPlace, NothingYet,
         InHeaders, InImage, CoefsRead, PassSet, InStep, RowsWorthy, Worthy, full, is_dummy_pass
<1> QED BY <1>1, <1>2, <1>3, <1>4, <1>5, <1>6, <1>7, <1>8, <1>9, <1>10, <1>11, <1>12, <1>13,
           <1>14, <1>15, <1>16 DEF Next

LEMMA Invariance == ASSUME Disciplined PROVE Spec => []IInv
<1>1. Init => IInv
  BY InitHolds
<1>2. IInv /\ [Next]_vars => IInv'
  BY NextKeeps
<1> QED BY <1>1, <1>2, PTL DEF Spec

LEMMA InvariantShows == ASSUME IInv PROVE ShownInStep /\ FreshRows /\ ScanWillCome
<1>1. /\ TypeOK /\ InImage /\ PassSet /\ InStep /\ RowsWorthy
      /\ total_iMCU_rows \in Nat \ {0} /\ asked \in Nat /\ file.scans \in Nat
      /\ inputctl.input_scan_number \in Nat /\ full \in BOOLEAN
  BY TypesAre DEF IInv, TypeOK
<1>2. InLockstep
  BY <1>1 DEF InLockstep, InStep, PassStates
<1>3. FreshRows
  BY <1>1 DEF FreshRows, RowsWorthy, Worthy
<1>4. ScanWillCome
  BY <1>1 DEF ScanWillCome, PassSet, PassStates
<1>5. LastPassIsFinal
  <2> SUFFICES ASSUME global_state = "BUFIMAGE", inputctl.eoi_reached,
                      inputctl.input_scan_number = output_scan_number,
                      NEW r \in Rows, shown[r] # NotShown
               PROVE  shown[r] = file.scans
    BY DEF LastPassIsFinal
  <2>1. full
    BY DEF IInv, CallsInPlace, full
  <2>2. inputctl.input_scan_number = file.scans
    BY <1>1, <2>1 DEF InImage, Before
  <2>3. asked >= file.scans
    BY <1>1, <2>2 DEF PassSet
  <2>4. shown[r] \in Nat /\ shown[r] <= file.scans /\ (shown[r] >= asked \/ shown[r] = file.scans)
    BY <1>1 DEF RowsWorthy, Worthy
  <2> QED BY <1>1, <2>3, <2>4
<1> QED BY <1>1, <1>2, <1>3, <1>4, <1>5 DEF ShownInStep

\* The pass that is shown goes with the input, row by row and to the last scan: the rows
\* jpeg_read_scanlines() hands out are the ones its scanline count says, and a pass that ended
\* level with the last input scan shows every row at the quality of the whole file.
THEOREM RowsInStep == ASSUME Disciplined PROVE Spec => []ShownInStep
<1>1. IInv => ShownInStep
  BY InvariantShows
<1> QED BY <1>1, Invariance, PTL

\* No row an application is given is older than the scan it asked for, whatever is read between,
\* suspended and repeated: the waits of decompress_data() and decompress_smooth_data(), the
\* preload of jpeg_start_decompress() and the two-pass quantizer's buffer see to it.
THEOREM RowsAreFresh == ASSUME Disciplined PROVE Spec => []FreshRows
<1>1. IInv => FreshRows
  BY InvariantShows
<1> QED BY <1>1, Invariance, PTL

\* Once EOI is reached no pass is set to a scan that will not come, for which the wait in
\* decompress_data() would never end: jpeg_start_output() and consume_markers() both limit it.
THEOREM PassScansExist == ASSUME Disciplined PROVE Spec => []ScanWillCome
<1>1. IInv => ScanWillCome
  BY InvariantShows
<1> QED BY <1>1, Invariance, PTL

-----------------------------------------------------------------------------
(* What the calls that read the rest of the file leave behind. *)

\* A call that reads to EOI only ends there.
LEMMA ReadingCallEnds ==
    ASSUME [Next]_vars, call \in {"read_coefficients", "finish_decompress"}, err = "none",
           global_state' # global_state
    PROVE  inputctl.eoi_reached
<1>1. \A op : ~CanCall(op)
  BY DEF CanCall
<1>2. CASE jpeg_read_header \/ jpeg_consume_input
  BY <1>1, <1>2 DEF jpeg_read_header, jpeg_consume_input, ReadHeaders
<1>3. CASE jpeg_start_decompress
  BY <1>1, <1>3 DEF jpeg_start_decompress, StartDecompress_First, StartDecompress_Again, Preloaded
<1>4. CASE output_pass_setup
  BY <1>4 DEF output_pass_setup, DummyPassRow, DummyPassDone, OutputPassReady, SettingUp
<1>5. CASE jpeg_read_scanlines \/ jpeg_read_raw_data
  BY <1>1, <1>5 DEF jpeg_read_scanlines, jpeg_read_raw_data, ReadCall
<1>6. CASE \/ \E n \in 0 .. MaxScanNumber, newmap \in BOOLEAN : jpeg_start_output(n, newmap)
           \/ \E n \in 1 .. total_iMCU_rows : jpeg_skip_scanlines(n)
  BY <1>1, <1>6 DEF jpeg_start_output, jpeg_skip_scanlines
<1>7. CASE jpeg_finish_output
  BY <1>1, <1>7 DEF jpeg_finish_output
<1>8. CASE jpeg_finish_decompress \/ jpeg_read_coefficients
  BY <1>1, <1>8 DEF jpeg_finish_decompress, jpeg_read_coefficients, WantsInput, Unread
<1>9. CASE Abort \/ \E op \in Ops : BadState(op)
  BY <1>9 DEF Abort, BadState
<1>10. CASE ReadMore \/ Suspend \/ UnexpectedScan
  BY <1>10 DEF ReadMore, Suspend, UnexpectedScan
<1>11. CASE DataArrives
  BY <1>11 DEF DataArrives
<1>12. CASE UNCHANGED vars
  BY <1>12 DEF vars
<1> QED BY <1>2, <1>3, <1>4, <1>5, <1>6, <1>7, <1>8, <1>9, <1>10, <1>11, <1>12 DEF Next

\* jpeg_read_coefficients() hands over arrays that hold every scan of the file.
THEOREM CoefficientsAreComplete == ASSUME Disciplined PROVE Spec => CoefficientsComplete
<1>1. IInv /\ [Next]_vars =>
          [call = "read_coefficients" /\ err = "none" /\ global_state' = "STOPPING"
               => \A r \in Rows : coefs[r] = file.scans]_vars
  <2> SUFFICES ASSUME IInv, [Next]_vars, call = "read_coefficients", err = "none",
                      global_state' = "STOPPING", NEW r \in Rows
               PROVE  coefs[r] = file.scans
    OBVIOUS
  <2>1. global_state = "RDCOEFS" /\ full /\ global_state \notin Before
    BY DEF IInv, CallsInPlace, full, Before
  <2>2. inputctl.eoi_reached
    BY <2>1, ReadingCallEnds
  <2>3. inputctl.input_scan_number = file.scans /\ inputctl.input_iMCU_row = total_iMCU_rows
    BY <2>1, <2>2 DEF IInv, InImage
  <2>4. r < total_iMCU_rows /\ file.scans \in Nat
    BY TypesAre DEF IInv, Rows
  <2> QED BY <2>1, <2>3, <2>4 DEF IInv, CoefsRead
<1> QED BY <1>1, Invariance, PTL DEF Spec, CoefficientsComplete

\* jpeg_finish_decompress() leaves the source behind the EOI marker: the last scan was read, down
\* to its last row.
THEOREM FinishReadsAll == ASSUME Disciplined PROVE Spec => FinishReadsAllData
<1>1. IInv /\ [Next]_vars =>
          [call = "finish_decompress" /\ global_state' = "START" /\ err = "none"
               /\ (buffered_image \/ file.suspends) => AllDataRead]_vars
  <2> SUFFICES ASSUME IInv, [Next]_vars, call = "finish_decompress", err = "none",
                      global_state' = "START", buffered_image \/ file.suspends
               PROVE  AllDataRead
    OBVIOUS
  <2>1. global_state = "STOPPING" /\ global_state \notin Before
    BY DEF IInv, CallsInPlace, Before
  <2>2. inputctl.eoi_reached
    BY <2>1, ReadingCallEnds
  <2>3. full \/ file.suspends
    BY DEF full
  <2> QED BY <2>1, <2>2, <2>3 DEF IInv, InImage, AllDataRead
<1> QED BY <1>1, Invariance, PTL DEF Spec, FinishReadsAllData

=============================================================================
