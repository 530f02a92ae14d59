----------------------------- MODULE MarkerReader -----------------------------
(***************************************************************************)
(* How a datastream is taken apart byte by byte: the marker reader         *)
(* (jdmarker.c) and the sequential Huffman decoder (jdhuff.c) reading in   *)
(* turn from one data source, which may run dry after any byte, with the   *)
(* recovery from damaged restart markers.                                  *)
(*                                                                         *)
(* An action is one turn of a loop of the code.  A routine that suspends   *)
(* and leaves no trace is an action that is not enabled yet.  Data is      *)
(* abstracted: an MCU is coded in two bytes, and the parameters of frame   *)
(* headers, scan headers and tables are not looked at.                     *)
(***************************************************************************)
EXTENDS Integers, Sequences, SequencesExt, FiniteSetsExt

CONSTANTS
    Jobs,           \* the datastreams, with what the application asks of them
    NextJobs,       \* those that are read after another one
    APP0_DATA_LEN,  \* data bytes of an APP0 that are looked at
    APP14_DATA_LEN, \* data bytes of an APP14 that are looked at
    MIN_GET_BYTES   \* bytes that jpeg_fill_bit_buffer tries to have

(* Marker codes.                                                            *)
M_TEM == 1
M_RST0 == 208
M_SOI == 216
M_EOI == 217
M_SOS == 218
M_DNL == 220
M_DRI == 221
M_APP0 == 224
M_APP14 == 238
M_COM == 254
SOFs == {192, 193, 194, 201, 202}
Tables == {196, 204, 219}
RestartMarkers == M_RST0 .. M_RST0 + 7
APPn == M_APP0 .. M_APP0 + 15
Known == SOFs \cup Tables \cup RestartMarkers \cup APPn
           \cup {M_TEM, M_SOI, M_EOI, M_SOS, M_DNL, M_DRI, M_COM}
Saveable == {M_APP0, M_APP14, M_COM}

(* bytes: the datastream; suspends: may its source run dry?; limits: the   *)
(* length limits given to jpeg_save_markers; scans: MCUs of each scan.     *)
(* The others say what is in the datastream: the markers in front of,      *)
(* between and behind the scans, the coded bytes of each MCU, the MCUs     *)
(* <<scan, number>> that damage may affect, whether there is any, and      *)
(* whether the marker behind `markers' is one the library refuses.         *)
JobType ==
    [bytes : Seq(0 .. 255), suspends : BOOLEAN, limits : [Saveable -> Nat],
     scans : Seq(Nat \ {0}),
     markers : Seq([code : 1 .. 254, data : Seq(0 .. 255)]),
     mcus : Seq(Seq(Seq(0 .. 255))), suspect : SUBSET (Nat \X Nat),
     damaged : BOOLEAN, refused : BOOLEAN]

ASSUME ReaderAssumption ==
    /\ \A j \in Jobs :
         /\ j \in JobType
         /\ j.scans = [s \in DOMAIN j.mcus |-> Len(j.mcus[s])]
    /\ NextJobs \subseteq Jobs
    /\ APP0_DATA_LEN \in Nat \ {0}
    /\ APP14_DATA_LEN \in Nat \ {0}
    /\ MIN_GET_BYTES \in Nat \ {0}

VARIABLES
    job,            \* the datastream
    avail,          \* bytes of it that a suspending source has got
    pos,            \* bytes of it consumed: next_input_byte
    mode,           \* what consume_input does: "markers" or "data"; "done"
                    \* behind EOI, "error" after an error exit
    unread_marker,  \* a marker code that is read but not processed, or 0
    marker,         \* the marker reader's own state
    cinfo,          \* what it tells the rest of the decompressor
    entropy,        \* the Huffman decoder's state
    seen,           \* history: the codes of the markers processed
    decoded         \* history: what the MCUs of each scan were decoded to

vars == <<job, avail, pos, mode, unread_marker, marker, cinfo, entropy, seen,
          decoded>>
-----------------------------------------------------------------------------
(* The data source.  At the end of the data fill_input_buffer makes up EOI *)
(* markers, as many as are asked for; nobody looks further than LOOKAHEAD  *)
(* bytes into them.                                                        *)
LOOKAHEAD == 4
fill_input_buffer(i) == IF (i - Len(job.bytes)) % 2 = 1 THEN 255 ELSE M_EOI
Byte(i) == IF i <= Len(job.bytes) THEN job.bytes[i] ELSE fill_input_buffer(i)
BufferEnd ==
    IF job.suspends THEN avail ELSE Max({pos, Len(job.bytes)}) + LOOKAHEAD
bytes_in_buffer == BufferEnd - pos
Has(n) == bytes_in_buffer >= n
Bytes(from, to) == [i \in 1 .. to - from |-> Byte(from + i)]

(* Both readers take FF, any number of FFs and a byte that is neither FF   *)
(* nor 0 for a marker.                                                     *)
MarkerEnds ==
    {i \in pos + 2 .. BufferEnd : Byte(i) \notin {0, 255} /\ Byte(i - 1) = 255}

(* next_marker: what it skips counts as discarded unless it is FFs.  When  *)
(* it suspends it stays behind the last byte it discarded.  `discards'     *)
(* says that bytes have been discarded before.                             *)
Skipped(to) == {i \in pos + 1 .. to : Byte(i) # 255}
next_marker(discards, info) ==
    IF MarkerEnds # {}
    THEN LET end  == Min(MarkerEnds)
             junk == discards \/ Skipped(end - 1) # {}
         IN  /\ pos' = end
             /\ unread_marker' = Byte(end)
             /\ marker' = [marker EXCEPT !.discarded_bytes = FALSE]
             /\ cinfo' = [info EXCEPT !.warned = @ \/ junk]
    ELSE LET skipped == Skipped(BufferEnd)
         IN  /\ pos' = Max({pos} \cup skipped)
             /\ marker' = [marker EXCEPT
                             !.discarded_bytes = discards \/ skipped # {}]
             /\ cinfo' = info
             /\ UNCHANGED unread_marker
-----------------------------------------------------------------------------
(* Markers.                                                                *)
length == 256 * Byte(pos + 1) + Byte(pos + 2)
HasSegment == Has(2) /\ Has(length)

(* jpeg_save_markers: APP0 and APP14 are looked at whatever is saved of    *)
(* them, so at least what is needed for that is saved.                     *)
Needed(code) == CASE code = M_APP0 -> APP0_DATA_LEN
                  [] code = M_APP14 -> APP14_DATA_LEN
                  [] OTHER -> 0
length_limit(code) ==
    IF code \notin Saveable \/ job.limits[code] = 0 THEN 0
    ELSE Max({job.limits[code], Needed(code)})
process(code) ==
    CASE length_limit(code) > 0 -> "save_marker"
      [] length_limit(code) = 0 /\ Needed(code) > 0 -> "get_interesting_appn"
      [] length_limit(code) = 0 /\ Needed(code) = 0 -> "skip_variable"

(* The tags are one byte here, and what follows them is not looked at.     *)
JFIF == 74
Adobe == 65
Tagged(data, tag, needed) == Len(data) >= needed /\ data[1] = tag
Examined(info, code, data) ==
    [info EXCEPT
       !.saw_JFIF_marker =
          @ \/ (code = M_APP0 /\ Tagged(data, JFIF, APP0_DATA_LEN)),
       !.saw_Adobe_marker =
          @ \/ (code = M_APP14 /\ Tagged(data, Adobe, APP14_DATA_LEN))]

Processing(codes) ==
    mode = "markers" /\ unread_marker # 0 /\ unread_marker \in codes
Processed ==
    /\ unread_marker' = 0
    /\ seen' = Append(seen, unread_marker)

(* The error exits, but for those about parameters that are not modelled.  *)
Refused ==
    \/ /\ mode = "markers" /\ unread_marker = 0 /\ ~marker.saw_SOI
       /\ Has(2) /\ Bytes(pos, pos + 2) # <<255, M_SOI>>
    \/ mode = "markers" /\ unread_marker \notin Known \cup {0}
    \/ Processing({M_SOI}) /\ marker.saw_SOI
    \/ Processing(SOFs) /\ marker.saw_SOF /\ HasSegment
    \/ Processing({M_SOS}) /\ ~marker.saw_SOF
    \/ Processing({M_DRI}) /\ Has(2) /\ length # 4

ERREXIT ==
    /\ Refused
    /\ mode' = "error"
    /\ UNCHANGED <<job, avail, pos, unread_marker, marker, cinfo, entropy, seen,
                   decoded>>

first_marker ==
    /\ mode = "markers" /\ unread_marker = 0 /\ ~marker.saw_SOI
    /\ Has(2) /\ ~Refused
    /\ unread_marker' = M_SOI
    /\ pos' = pos + 2
    /\ UNCHANGED <<job, avail, mode, marker, cinfo, entropy, seen, decoded>>

read_markers ==
    /\ mode = "markers" /\ unread_marker = 0 /\ marker.saw_SOI
    /\ next_marker(marker.discarded_bytes, cinfo)
    /\ UNCHANGED <<job, avail, mode, entropy, seen, decoded>>

get_soi ==
    /\ Processing({M_SOI}) /\ ~Refused
    /\ marker' = [marker EXCEPT !.saw_SOI = TRUE]
    /\ cinfo' = [cinfo EXCEPT !.restart_interval = 0, !.saw_JFIF_marker = FALSE,
                             !.saw_Adobe_marker = FALSE]
    /\ Processed
    /\ UNCHANGED <<job, avail, pos, mode, entropy, decoded>>

get_sof ==
    /\ Processing(SOFs) /\ HasSegment /\ ~Refused
    /\ marker' = [marker EXCEPT !.saw_SOF = TRUE]
    /\ pos' = pos + length
    /\ Processed
    /\ UNCHANGED <<job, avail, mode, cinfo, entropy, decoded>>

(* With what start_input_pass does for the entropy decoder before any data *)
(* is read.                                                                *)
start_pass_huff_decoder ==
    entropy' = [bits |-> <<>>, insufficient_data |-> FALSE,
                restarts_to_go |-> cinfo.restart_interval]
get_sos ==
    /\ Processing({M_SOS}) /\ HasSegment /\ ~Refused
    /\ marker' = [marker EXCEPT !.next_restart_num = 0]
    /\ pos' = pos + length
    /\ mode' = "data"
    /\ start_pass_huff_decoder
    /\ decoded' = Append(decoded, <<>>)
    /\ Processed
    /\ UNCHANGED <<job, avail, cinfo>>

read_EOI ==
    /\ Processing({M_EOI})
    /\ mode' = "done"
    /\ Processed
    /\ UNCHANGED <<job, avail, pos, marker, cinfo, entropy, decoded>>

get_tables ==
    /\ Processing(Tables) /\ HasSegment
    /\ pos' = pos + length
    /\ Processed
    /\ UNCHANGED <<job, avail, mode, marker, cinfo, entropy, decoded>>

get_dri ==
    /\ Processing({M_DRI}) /\ HasSegment /\ ~Refused
    /\ cinfo' = [cinfo EXCEPT
                   !.restart_interval = 256 * Byte(pos + 3) + Byte(pos + 4)]
    /\ pos' = pos + 4
    /\ Processed
    /\ UNCHANGED <<job, avail, mode, marker, entropy, decoded>>

(* skip_input_data may go past what the source has got.                    *)
skip_variable ==
    /\ \/ Processing({M_DNL})
       \/ /\ Processing(APPn \cup {M_COM})
          /\ process(unread_marker) = "skip_variable"
    /\ Has(2)
    /\ pos' = pos + Max({2, length})
    /\ Processed
    /\ UNCHANGED <<job, avail, mode, marker, cinfo, entropy, decoded>>

get_interesting_appn ==
    /\ Processing(APPn) /\ process(unread_marker) = "get_interesting_appn"
    /\ Has(2)
    /\ LET rest == Max({0, length - 2})
           numtoread == Min({rest, Max({APP0_DATA_LEN, APP14_DATA_LEN})})
       IN  /\ Has(2 + numtoread)
           /\ cinfo' = Examined(cinfo, unread_marker,
                                Bytes(pos + 2, pos + 2 + numtoread))
           /\ pos' = pos + 2 + rest
    /\ Processed
    /\ UNCHANGED <<job, avail, mode, marker, entropy, decoded>>

(* The marker being saved, and where its data goes on: bytes_read is the   *)
(* length of the data it has.  A length word below 2 saves nothing.        *)
Nothing == [marker |-> 0]
Resumed == marker.cur_marker # Nothing
CurMarker ==
    IF Resumed THEN marker.cur_marker
    ELSE [marker |-> unread_marker, original_length |-> length - 2,
          data_length |-> Min({length - 2, length_limit(unread_marker)}),
          data |-> <<>>]
DataAt_AlwaysBegins == pos + 2
DataAt == IF Resumed THEN pos ELSE pos + 2
CopyData(cur) ==
    LET here == Max({0, BufferEnd - DataAt})
        n == Min({cur.data_length - Len(cur.data), here})
    IN  [cur EXCEPT !.data = @ \o Bytes(DataAt, DataAt + n)]

save_marker ==
    /\ Processing(Saveable) /\ process(unread_marker) = "save_marker"
    /\ Resumed \/ Has(2)
    /\ IF ~Resumed /\ length < 2
       THEN /\ pos' = pos + 2
            /\ Processed
            /\ UNCHANGED <<marker, cinfo>>
       ELSE LET cur  == CopyData(CurMarker)
                here == DataAt + Len(cur.data) - Len(CurMarker.data)
            IN  IF Len(cur.data) < cur.data_length
                THEN /\ marker' = [marker EXCEPT !.cur_marker = cur]
                     /\ pos' = here
                     /\ UNCHANGED <<unread_marker, cinfo, seen>>
                ELSE /\ marker' = [marker EXCEPT !.cur_marker = Nothing]
                     /\ cinfo' = Examined([cinfo EXCEPT
                                             !.marker_list = Append(@, cur)],
                                          cur.marker, cur.data)
                     /\ pos' = here + cur.original_length - cur.data_length
                     /\ Processed
    /\ UNCHANGED <<job, avail, mode, entropy, decoded>>

(* RSTn and TEM outside of a scan's data.                                  *)
skip_parameterless ==
    /\ Processing(RestartMarkers \cup {M_TEM})
    /\ unread_marker' = 0
    /\ UNCHANGED <<job, avail, pos, mode, marker, cinfo, entropy, seen,
                   decoded>>
-----------------------------------------------------------------------------
(* Entropy-coded data.  br is the bit reader's working state, br.ok FALSE  *)
(* once it had to suspend; unread_marker is not part of what is thrown     *)
(* away then.                                                              *)
BITREAD_LOAD_STATE ==
    [ok |-> TRUE, pos |-> pos, bits |-> entropy.bits, unread |-> unread_marker,
     insufficient |-> entropy.insufficient_data, warned |-> cinfo.warned]

(* The places up to end where a data byte ends, FF/00 being one byte.      *)
DataEnds(from, end) ==
    LET NotFF(i) == Byte(i) # 255
    IN  SelectSeq([n \in 1 .. end - from |-> from + n], NotFF)
DataByte(from, i) ==
    IF Byte(i) = 0 /\ i > from + 1 /\ Byte(i - 1) = 255 THEN 255 ELSE Byte(i)
no_more_bytes(br, nbytes) ==
    IF nbytes <= Len(br.bits) THEN br
    ELSE [br EXCEPT !.insufficient = TRUE,
                    !.warned = @ \/ ~br.insufficient,
                    !.bits = [i \in 1 .. MIN_GET_BYTES |->
                                IF i <= Len(br.bits) THEN br.bits[i] ELSE 0]]
jpeg_fill_bit_buffer(br, nbytes) ==
    IF br.unread # 0 THEN no_more_bytes(br, nbytes)
    ELSE LET wanted == MIN_GET_BYTES - Len(br.bits)
             atMarker == MarkerEnds # {}
             end == IF atMarker THEN Min(MarkerEnds) - 1 ELSE BufferEnd
             ends == DataEnds(br.pos, end)
             taken == SubSeq(ends, 1, Min({wanted, Len(ends)}))
             filled == [br EXCEPT !.bits = @ \o
                          [i \in DOMAIN taken |-> DataByte(br.pos, taken[i])]]
         IN  CASE Len(taken) = wanted ->
                    [filled EXCEPT !.pos = taken[wanted]]
               [] Len(taken) < wanted /\ atMarker ->
                    no_more_bytes([filled EXCEPT !.pos = Min(MarkerEnds),
                                     !.unread = Byte(Min(MarkerEnds))], nbytes)
               [] Len(taken) < wanted /\ ~atMarker -> [br EXCEPT !.ok = FALSE]

(* HUFF_DECODE of one byte.                                                *)
Filled(br) ==
    IF br.ok /\ br.bits = <<>> THEN jpeg_fill_bit_buffer(br, 1) ELSE br
Consumed(br) == IF br.ok THEN [br EXCEPT !.bits = Tail(@)] ELSE br

ThisScan == Len(decoded)
RestartDue == cinfo.restart_interval > 0 /\ entropy.restarts_to_go = 0

(* The MCU, and what its being the last of the scan makes of consume_input *)
(* (finish_input_pass).                                                    *)
MCUDone(mcu) ==
    /\ decoded' = [decoded EXCEPT ![ThisScan] = Append(@, mcu)]
    /\ mode' = IF Len(decoded[ThisScan]) + 1 = job.scans[ThisScan]
                 THEN "markers" ELSE "data"
CountMCU(e) ==
    IF cinfo.restart_interval = 0 THEN e
    ELSE [e EXCEPT !.restarts_to_go = @ - 1]

decode_mcu ==
    /\ mode = "data" /\ ~RestartDue
    /\ IF entropy.insufficient_data
       THEN /\ MCUDone(<<0, 0>>)
            /\ entropy' = CountMCU(entropy)
            /\ UNCHANGED <<pos, unread_marker, cinfo>>
       ELSE \E one \in {Filled(BITREAD_LOAD_STATE)} :
            \E two \in {Filled(Consumed(one))} :
              /\ unread_marker' = two.unread
              /\ cinfo' = [cinfo EXCEPT !.warned = two.warned]
              /\ IF two.ok
                 THEN /\ MCUDone(<<Head(one.bits), Head(two.bits)>>)
                      /\ pos' = two.pos
                      /\ entropy' = CountMCU(
                           [entropy EXCEPT !.bits = Tail(two.bits),
                                           !.insufficient_data =
                                              two.insufficient])
                 ELSE /\ entropy' = [entropy EXCEPT !.insufficient_data =
                                                     two.insufficient]
                      /\ UNCHANGED <<mode, pos, decoded>>
    /\ UNCHANGED <<job, avail, marker, seen>>
-----------------------------------------------------------------------------
(* Restart markers.                                                        *)
Desired(n) == M_RST0 + ((marker.next_restart_num + n) % 8)

(* jpeg_resync_to_restart's choice, for the marker code it is at.          *)
action_OneAhead(code) ==
    CASE code < 192 -> 2
      [] code >= 192 /\ code \notin RestartMarkers -> 3
      [] code = Desired(1) -> 3
      [] code \in {Desired(7), Desired(6)} -> 2
      [] code \in {Desired(n) : n \in {0, 2, 3, 4, 5}} -> 1
action_ReadsOn(code) ==
    CASE code \notin RestartMarkers -> 2
      [] code \in {Desired(1), Desired(2)} -> 3
      [] code \in {Desired(7), Desired(6)} -> 2
      [] code \in {Desired(n) : n \in {0, 3, 4, 5}} -> 1
action(code) ==
    CASE code < 192 -> 2
      [] code >= 192 /\ code \notin RestartMarkers -> 3
      [] code \in {Desired(1), Desired(2)} -> 3
      [] code \in {Desired(7), Desired(6)} -> 2
      [] code \in {Desired(n) : n \in {0, 3, 4, 5}} -> 1

(* process_restart counts what is left of the bits as discarded.           *)
Discards == marker.discarded_bytes \/ entropy.bits # <<>>
ProcessingRestart == mode = "data" /\ RestartDue

(* read_restart_marker looking for a marker, and action 2 of               *)
(* jpeg_resync_to_restart, which looks for another one.  The marker found  *)
(* is judged in a turn of its own.                                         *)
SeekRestart ==
    /\ ProcessingRestart
    /\ unread_marker = 0 \/ action(unread_marker) = 2
    /\ next_marker(Discards,
                   [cinfo EXCEPT !.warned = @ \/ unread_marker # 0])
    /\ entropy' = [entropy EXCEPT !.bits = <<>>]
    /\ UNCHANGED <<job, avail, mode, seen, decoded>>

(* The marker is swallowed, being the expected one or (action 1) taken for *)
(* it, or left where it is (action 3), which makes the interval empty.     *)
NextRestart(n) == (n + 1) % 8
NextInterval(insufficient) ==
    entropy' = [bits |-> <<>>, restarts_to_go |-> cinfo.restart_interval,
                insufficient_data |-> insufficient]
process_restart ==
    /\ ProcessingRestart
    /\ unread_marker # 0 /\ action(unread_marker) # 2
    /\ marker' = [marker EXCEPT !.next_restart_num = NextRestart(@),
                                !.discarded_bytes = Discards]
    /\ cinfo' = [cinfo EXCEPT !.warned = @ \/ unread_marker # Desired(0)]
    /\ IF action(unread_marker) = 1
       THEN unread_marker' = 0 /\ NextInterval(FALSE)
       ELSE UNCHANGED unread_marker /\ NextInterval(entropy.insufficient_data)
    /\ UNCHANGED <<job, avail, pos, mode, seen, decoded>>
-----------------------------------------------------------------------------
(* The source gets another byte.                                           *)
DataArrives ==
    /\ job.suspends /\ avail < Len(job.bytes)
    /\ avail' = avail + 1
    /\ UNCHANGED <<job, pos, mode, unread_marker, marker, cinfo, entropy, seen,
                   decoded>>

Reset(m) == [m EXCEPT !.saw_SOI = FALSE, !.saw_SOF = FALSE,
                      !.discarded_bytes = FALSE, !.cur_marker = Nothing]

(* jpeg_abort, or jpeg_finish_decompress, and jpeg_read_header for another *)
(* image.  What is not reset is left to get_soi, get_sos and start_pass.   *)
(* The entropy decoder goes with the image's memory.                       *)
NoDecoder == [bits |-> <<>>, insufficient_data |-> FALSE, restarts_to_go |-> 0]
reset_marker_reader(j) ==
    /\ job' = j
    /\ avail' = 0
    /\ pos' = 0
    /\ mode' = "markers"
    /\ unread_marker' = 0
    /\ marker' = Reset(marker)
    /\ cinfo' = [cinfo EXCEPT !.marker_list = <<>>, !.warned = FALSE]
    /\ entropy' = NoDecoder
    /\ seen' = <<>>
    /\ decoded' = <<>>
NextImage == \E j \in NextJobs : reset_marker_reader(j)

jinit_marker_reader ==
    /\ job \in Jobs
    /\ avail = 0
    /\ pos = 0
    /\ mode = "markers"
    /\ unread_marker = 0
    /\ marker = [saw_SOI |-> FALSE, saw_SOF |-> FALSE,
                 discarded_bytes |-> FALSE, next_restart_num |-> 0,
                 cur_marker |-> Nothing]
    /\ cinfo = [restart_interval |-> 0, saw_JFIF_marker |-> FALSE,
                saw_Adobe_marker |-> FALSE, marker_list |-> <<>>,
                warned |-> FALSE]
    /\ entropy = NoDecoder
    /\ seen = <<>>
    /\ decoded = <<>>

Marker ==
    \/ first_marker \/ read_markers \/ get_soi \/ get_sof \/ get_sos \/ read_EOI
    \/ get_tables \/ get_dri \/ skip_variable \/ get_interesting_appn
    \/ save_marker \/ skip_parameterless \/ ERREXIT
Data == decode_mcu \/ SeekRestart \/ process_restart

Next == Marker \/ Data \/ DataArrives \/ NextImage

(* A call runs on, data arrives, and the application does not give up      *)
(* images for ever.                                                        *)
Fairness ==
    /\ WF_vars(Marker \/ Data)
    /\ WF_vars(DataArrives)
    /\ <>[][~NextImage]_vars
Spec == jinit_marker_reader /\ [][Next]_vars /\ Fairness
-----------------------------------------------------------------------------
(* A marker is only resumed while it is the unread one, restart numbers    *)
(* are modulo 8, and the counters stay in their ranges (save_marker,       *)
(* read_restart_marker, decode_mcu).                                       *)
TypeOK ==
    /\ avail \in 0 .. Len(job.bytes)
    /\ pos \in Nat
    /\ mode \in {"markers", "data", "done", "error"}
    /\ unread_marker \in 0 .. 254
    /\ marker.saw_SOF => marker.saw_SOI
    /\ marker.cur_marker # Nothing => unread_marker = marker.cur_marker.marker
    /\ marker.next_restart_num \in 0 .. 7
    /\ entropy.restarts_to_go \in 0 .. cinfo.restart_interval
    /\ Len(entropy.bits) < MIN_GET_BYTES
    /\ mode = "data" => Len(decoded[ThisScan]) < job.scans[ThisScan]

(* However the data arrives and whatever happened to the data of a scan,   *)
(* the markers are processed in the order written, each once, none is      *)
(* overrun, and nothing is read behind EOI; the list that                  *)
(* jpeg_save_markers asked for holds their data up to the limits, and the  *)
(* JFIF and Adobe markers are recognized whether they are saved or not     *)
(* (next_marker, save_marker, jpeg_resync_to_restart).                     *)
Saved(m) ==
    LET kept == Min({Len(m.data), length_limit(m.code)})
    IN  [marker |-> m.code, original_length |-> Len(m.data),
         data_length |-> kept, data |-> SubSeq(m.data, 1, kept)]
Past == SubSeq(job.markers, 1, Len(seen))
Written(code, tag, needed) ==
    \E m \in Range(Past) : m.code = code /\ Tagged(m.data, tag, needed)
MarkersAsWritten ==
    /\ seen = [i \in DOMAIN Past |-> Past[i].code]
    /\ cinfo.marker_list =
          LET Wanted(m) == length_limit(m.code) > 0
              saved == SelectSeq(Past, Wanted)
          IN  [i \in DOMAIN saved |-> Saved(saved[i])]
    /\ marker.saw_SOI =>
         /\ cinfo.saw_JFIF_marker <=> Written(M_APP0, JFIF, APP0_DATA_LEN)
         /\ cinfo.saw_Adobe_marker <=> Written(M_APP14, Adobe, APP14_DATA_LEN)
    /\ mode \in {"done", "error"} =>
         /\ Len(seen) = Len(job.markers)
         /\ job.refused <=> mode = "error"
    /\ mode = "done" /\ job.suspends => pos = Len(job.bytes)

(* An MCU is decoded from its own bytes if damage is not in its restart    *)
(* interval or in those next to it that resynchronization gives up, and    *)
(* an undamaged datastream is read without a warning (process_restart,     *)
(* jpeg_fill_bit_buffer).                                                  *)
DecodedInPlace ==
    /\ \A s \in DOMAIN decoded : \A k \in DOMAIN decoded[s] :
         <<s, k>> \notin job.suspect => decoded[s][k] = job.mcus[s][k]
    /\ ~job.damaged => ~cinfo.warned

(* The invariant: the reader's counters agree, and what it decodes is in   *)
(* its place.                                                              *)
ReadInPlace == TypeOK /\ DecodedInPlace

(* Once no image is given up any more, the last one is read to its end,    *)
(* whatever has happened to its data (read_markers, decode_mcu).           *)
AllRead == <>[](mode \in {"done", "error"})
=============================================================================
