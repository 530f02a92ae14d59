------------------------------ MODULE Headers ------------------------------
(***************************************************************************)
(* The headers of a JPEG file as bytes, and what the programs make of      *)
(* them:                                                                   *)
(*   - jcmarker.c writes what an application has set in cinfo,             *)
(*   - jdmarker.c reads it to the cinfo of a decompressor,                 *)
(*   - rdjpgcom.c shows comments and sizes,                                *)
(*   - wrjpgcom.c copies a file and puts a comment into it,                *)
(*   - jcicc.c cuts an ICC profile into markers, and jdicc.c puts them     *)
(*     together.                                                           *)
(* Entropy-coded data are some bytes that hold no marker.                  *)
(*                                                                         *)
(* c is what is set in a compressor: image_width, image_height,            *)
(* data_precision, progressive_mode, arith_code, comps (a sequence),       *)
(* quant, dc, ac (tables by their numbers, NoTable where there is none),   *)
(* arith_dc_L, arith_dc_U, arith_ac_K, write_JFIF_header, JFIF,            *)
(* write_Adobe_marker, jpeg_color_space, and the scans, each with its      *)
(* cur_comp_info (indices in comps), Ss, Se, Ah, Al, restart_interval and  *)
(* data.                                                                   *)
(***************************************************************************)
EXTENDS Integers, Sequences, SequencesExt, CodedData

\* Bytes of a profile that a marker has room for, and of a comment that wrjpgcom has.
CONSTANTS MAX_DATA_BYTES_IN_MARKER, MAX_COM_LENGTH

NUM_QUANT_TBLS == 4
NUM_HUFF_TBLS == 4
NUM_ARITH_TBLS == 16
DCTSIZE2 == 64
NoTable == <<>>

M_SOF0 == 192
M_SOF1 == 193
M_SOF2 == 194
M_SOF9 == 201
M_SOF10 == 202
M_DHT == 196
M_DAC == 204
M_RSTs == 208 .. 215
M_SOI == 216
M_EOI == 217
M_SOS == 218
M_DQT == 219
M_DRI == 221
M_APP0 == 224
M_APP12 == 236
M_APP14 == 238
M_COM == 254

\* C4, C8 and CC are no SOFn.
SOFs == (192 .. 207) \ {196, 200, 204}

\* jpeg_natural_order[], of places from 1 on: where the ith coefficient in zigzag order is.
jpeg_natural_order ==
    <<1, 2, 9, 17, 10, 3, 4, 11, 18, 25, 33, 26, 19, 12, 5, 6,
      13, 20, 27, 34, 41, 49, 42, 35, 28, 21, 14, 7, 8, 15, 22, 29,
      36, 43, 50, 57, 58, 51, 44, 37, 30, 23, 16, 24, 31, 38, 45, 52,
      59, 60, 53, 46, 39, 32, 40, 47, 54, 61, 62, 55, 48, 56, 63, 64>>

-----------------------------------------------------------------------------
\* The marker writer w: what it has written, a sequence of markers and of data, the tables whose
\* sent_table is set, and whether it has left by ERREXIT.
jinit_marker_writer(sent) ==
    [file |-> <<>>, sent |-> sent, last_restart_interval |-> 0, error |-> FALSE]

\* emit_2bytes()
Word(n) == <<(n \div 256) % 256, n % 256>>

Emit(w, bytes) == IF w.error THEN w ELSE [w EXCEPT !.file = Append(@, bytes)]
Failed(w) == [w EXCEPT !.error = TRUE]
Marker(code) == <<255, code>>
\* A marker with its parameters, whose length is given, not counted.
Segment(code, length, data) == Marker(code) \o Word(length) \o data

Precision(table) == IF \E i \in DOMAIN table : table[i] > 255 THEN 1 ELSE 0

\* A table is written if it has not been, in zigzag order, in words if an entry needs one.
emit_dqt(w, c, index) ==
    LET table == c.quant[index]
        prec == Precision(table)
        entry(q) == IF prec = 1 THEN Word(q) ELSE <<q % 256>>
        entries == [i \in 1 .. DCTSIZE2 |-> entry(table[jpeg_natural_order[i]])]
        length == IF prec = 1 THEN DCTSIZE2 * 2 + 1 + 2 ELSE DCTSIZE2 + 1 + 2
    IN  IF table = NoTable THEN Failed(w)
        ELSE IF <<"quant", index>> \in w.sent THEN w
        ELSE Emit([w EXCEPT !.sent = @ \cup {<<"quant", index>>}],
                  Segment(M_DQT, length, <<index + 16 * prec>> \o FlattenSeq(entries)))

emit_dht(w, c, index, is_ac) ==
    LET table == IF is_ac THEN c.ac[index] ELSE c.dc[index]
        name == <<IF is_ac THEN "ac" ELSE "dc", index>>
        length == Through(LAMBDA n, i : n + table.bits[i], 0, 1, 16)
    IN  IF table = NoTable THEN Failed(w)
        ELSE IF name \in w.sent THEN w
        ELSE Emit([w EXCEPT !.sent = @ \cup {name}],
                  Segment(M_DHT, length + 2 + 1 + 16,
                          <<IF is_ac THEN index + 16 ELSE index>> \o table.bits
                              \o SubSeq(table.huffval, 1, length)))

\* DC needs no table in a refinement scan, AC none when not present.
UsesDC(scan) == scan.Ss = 0 /\ scan.Ah = 0
UsesAC(scan) == scan.Se # 0

\* One marker has the conditioning of all tables which the scan uses.
emit_dac(w, c, scan) ==
    LET comps == {c.comps[ci] : ci \in Range(scan.cur_comp_info)}
        dc_in_use == IF UsesDC(scan) THEN {p.dc_tbl_no : p \in comps} ELSE {}
        ac_in_use == IF UsesAC(scan) THEN {p.ac_tbl_no : p \in comps} ELSE {}
        length == Cardinality(dc_in_use) + Cardinality(ac_in_use)
        dc(i) == IF i \in dc_in_use THEN <<i, c.arith_dc_L[i] + 16 * c.arith_dc_U[i]>> ELSE <<>>
        ac(i) == IF i \in ac_in_use THEN <<i + 16, c.arith_ac_K[i]>> ELSE <<>>
    IN  IF length = 0 THEN w
        ELSE Emit(w, Segment(M_DAC, length * 2 + 2,
                             Through(LAMBDA all, i : all \o dc(i) \o ac(i),
                                     <<>>, 0, NUM_ARITH_TBLS - 1)))

\* Only the head of the marker is there when the image turns out to be too large for it.
emit_sof(w, c, code) ==
    LET n == Len(c.comps)
        length == 3 * n + 2 + 5 + 1
        comp(p) == <<p.component_id, p.h_samp_factor * 16 + p.v_samp_factor, p.quant_tbl_no>>
    IN  IF c.image_height > 65535 \/ c.image_width > 65535
        THEN Failed(Emit(w, Segment(code, length, <<>>)))
        ELSE Emit(w, Segment(code, length,
                             <<c.data_precision>> \o Word(c.image_height) \o Word(c.image_width)
                                 \o <<n>> \o FlattenSeq([ci \in 1 .. n |-> comp(c.comps[ci])])))

emit_sos(w, c, scan) ==
    LET n == Len(scan.cur_comp_info)
        td(p) == IF UsesDC(scan) THEN p.dc_tbl_no ELSE 0
        ta(p) == IF UsesAC(scan) THEN p.ac_tbl_no ELSE 0
        comp(p) == <<p.component_id, td(p) * 16 + ta(p)>>
    IN  Emit(w, Segment(M_SOS, 2 * n + 2 + 1 + 3,
                        <<n>> \o FlattenSeq([i \in 1 .. n |-> comp(c.comps[scan.cur_comp_info[i]])])
                            \o <<scan.Ss, scan.Se, scan.Ah * 16 + scan.Al>>))

\* JFIF is <<major version, minor version, unit, X density, Y density>>.
emit_jfif_app0(w, c) ==
    Emit(w, Segment(M_APP0, 2 + 4 + 1 + 2 + 1 + 2 + 2 + 1 + 1,
                    <<74, 70, 73, 70, 0>> \o SubSeq(c.JFIF, 1, 3)
                        \o Word(c.JFIF[4]) \o Word(c.JFIF[5]) \o <<0, 0>>))

Transform(space) == IF space = "YCbCr" THEN 1 ELSE IF space = "YCCK" THEN 2 ELSE 0
emit_adobe_app14(w, c) ==
    Emit(w, Segment(M_APP14, 2 + 5 + 2 + 2 + 2 + 1,
                    <<65, 100, 111, 98, 101>> \o Word(100) \o Word(0) \o Word(0)
                        \o <<Transform(c.jpeg_color_space)>>))

\* write_marker_header(), and write_marker_byte() for each byte.
write_marker(w, marker, data) ==
    IF Len(data) > 65533 THEN Failed(w) ELSE Emit(w, Segment(marker, Len(data) + 2, data))

write_file_header(w, c) ==
    LET soi == [Emit(w, Marker(M_SOI)) EXCEPT !.last_restart_interval = 0]
        jfif == IF c.write_JFIF_header THEN emit_jfif_app0(soi, c) ELSE soi
    IN  IF c.write_Adobe_marker THEN emit_adobe_app14(jfif, c) ELSE jfif

\* The quantization tables come before the SOF, whose code says which process it takes.
write_frame_header(w, c) ==
    LET comps == Range(c.comps)
        tables == Through(LAMBDA x, ci : emit_dqt(x, c, c.comps[ci].quant_tbl_no),
                          w, 1, Len(c.comps))
        prec == \E p \in comps : Precision(c.quant[p.quant_tbl_no]) = 1
        is_baseline == /\ c.data_precision = 8 /\ ~prec
                       /\ \A p \in comps : p.dc_tbl_no <= 1 /\ p.ac_tbl_no <= 1
        code == IF c.arith_code THEN IF c.progressive_mode THEN M_SOF10 ELSE M_SOF9
                ELSE IF c.progressive_mode THEN M_SOF2
                ELSE IF is_baseline THEN M_SOF0 ELSE M_SOF1
    IN  emit_sof(tables, c, code)

write_scan_header(w, c, scan) ==
    LET comp(i) == c.comps[scan.cur_comp_info[i]]
        dc(x, i) == IF UsesDC(scan) THEN emit_dht(x, c, comp(i).dc_tbl_no, FALSE) ELSE x
        ac(x, i) == IF UsesAC(scan) THEN emit_dht(x, c, comp(i).ac_tbl_no, TRUE) ELSE x
        tables == IF c.arith_code THEN emit_dac(w, c, scan)
                  ELSE Through(LAMBDA x, i : ac(dc(x, i), i), w, 1, Len(scan.cur_comp_info))
        interval == scan.restart_interval
        emit_dri == Emit([tables EXCEPT !.last_restart_interval = interval],
                         Segment(M_DRI, 4, Word(interval)))
    IN  emit_sos(IF interval # tables.last_restart_interval THEN emit_dri ELSE tables, c, scan)

write_file_trailer(w) == Emit(w, Marker(M_EOI))

\* Every table that is defined and not marked as sent.
write_tables_only(w, c) ==
    LET dqt(x, i) == IF c.quant[i] # NoTable THEN emit_dqt(x, c, i) ELSE x
        dc(x, i) == IF c.dc[i] # NoTable THEN emit_dht(x, c, i, FALSE) ELSE x
        ac(x, i) == IF c.ac[i] # NoTable THEN emit_dht(x, c, i, TRUE) ELSE x
        quant == Through(dqt, Emit(w, Marker(M_SOI)), 0, NUM_QUANT_TBLS - 1)
        huff == Through(LAMBDA x, i : ac(dc(x, i), i), quant, 0, NUM_HUFF_TBLS - 1)
    IN  Emit(IF c.arith_code THEN quant ELSE huff, Marker(M_EOI))

\* The file of an image with comments: an application starts, writes them, and finishes.
WriteImage(c, comments, sent) ==
    LET header == write_file_header(jinit_marker_writer(sent), c)
        commented == Through(LAMBDA x, k : write_marker(x, M_COM, comments[k]),
                             header, 1, Len(comments))
        scan(x, s) == Emit(write_scan_header(x, c, c.scans[s]), c.scans[s].data)
    IN  write_file_trailer(Through(scan, write_frame_header(commented, c), 1, Len(c.scans)))

-----------------------------------------------------------------------------
\* The bytes of a file f from p on.  A reader that comes to the end waits or fails: it takes
\* nothing of what it has begun.
ByteAt(f, p) == IF p <= Len(f) THEN f[p] ELSE 0
WordAt(f, p) == ByteAt(f, p) * 256 + ByteAt(f, p + 1)

\* next_marker(): where the code of the next marker is, 0 if there is none.  Before it are
\* bytes of FF and, perhaps, garbage; what follows FF in garbage is one of "stuffed".
NextMarker(f, p, stuffed) ==
    LET found[q \in p + 1 .. Len(f) + 1] ==
            IF q > Len(f) THEN 0
            ELSE IF f[q - 1] = 255 /\ f[q] # 255 /\ f[q] \notin stuffed THEN q
            ELSE found[q + 1]
    IN  IF p >= Len(f) THEN 0 ELSE found[p + 1]

\* A decompressor d that begins to read a file, with the tables and the restart interval that
\* another has left.  "scans" are what it knew at each SOS.
OpenFile(f, tables) ==
    [in |-> f, pos |-> 1, state |-> "reading", scans |-> <<>>,
     quant |-> tables.quant, dc |-> tables.dc, ac |-> tables.ac,
     saw_SOI |-> FALSE, saw_SOF |-> FALSE, restart_interval |-> tables.restart_interval,
     arith_dc_L |-> <<>>, arith_dc_U |-> <<>>, arith_ac_K |-> <<>>,
     saw_JFIF_marker |-> FALSE, JFIF |-> <<>>, saw_Adobe_marker |-> FALSE, Adobe_transform |-> 0,
     progressive_mode |-> FALSE, arith_code |-> FALSE, data_precision |-> 0,
     image_width |-> 0, image_height |-> 0, comps |-> <<>>,
     cur_comp_info |-> <<>>, Ss |-> 0, Se |-> 0, Ah |-> 0, Al |-> 0]

NoTables == [restart_interval |-> 2,
             quant |-> [i \in 0 .. NUM_QUANT_TBLS - 1 |-> NoTable],
             dc |-> [i \in 0 .. NUM_HUFF_TBLS - 1 |-> NoTable],
             ac |-> [i \in 0 .. NUM_HUFF_TBLS - 1 |-> NoTable]]

\* The byte, and the word, at k from where d reads.
INPUT_BYTE(d, k) == ByteAt(d.in, d.pos + k)
INPUT_2BYTES(d, k) == WordAt(d.in, d.pos + k)
Error(d) == [d EXCEPT !.state = "error"]
Took(d, n) == [d EXCEPT !.pos = @ + n]

get_soi(d) ==
    IF d.saw_SOI THEN Error(d)
    ELSE LET all(v) == [i \in 0 .. NUM_ARITH_TBLS - 1 |-> v]
         IN  [d EXCEPT !.arith_dc_L = all(0), !.arith_dc_U = all(1), !.arith_ac_K = all(5),
                       !.restart_interval = 0, !.saw_JFIF_marker = FALSE,
                       !.JFIF = <<1, 1, 0, 1, 1>>, !.saw_Adobe_marker = FALSE,
                       !.Adobe_transform = 0, !.saw_SOI = TRUE]

get_sof(d, is_prog, is_arith) ==
    LET n == INPUT_BYTE(d, 7)
        byte(ci, k) == INPUT_BYTE(d, 8 + 3 * (ci - 1) + k)
        comp(ci) == [component_id |-> byte(ci, 0), h_samp_factor |-> byte(ci, 1) \div 16,
                     v_samp_factor |-> byte(ci, 1) % 16, quant_tbl_no |-> byte(ci, 2),
                     dc_tbl_no |-> 0, ac_tbl_no |-> 0]
        height == INPUT_2BYTES(d, 3)
        width == INPUT_2BYTES(d, 5)
    IN  IF d.saw_SOF \/ height = 0 \/ width = 0 \/ n = 0 \/ INPUT_2BYTES(d, 0) - 8 # 3 * n
        THEN Error(d)
        ELSE Took([d EXCEPT !.progressive_mode = is_prog, !.arith_code = is_arith,
                            !.data_precision = INPUT_BYTE(d, 2),
                            !.image_height = height, !.image_width = width,
                            !.comps = [ci \in 1 .. n |-> comp(ci)], !.saw_SOF = TRUE], 8 + 3 * n)

\* A component of the scan is the first with its id for whose index nothing has been found yet;
\* it must not be one that has been found.
get_sos(d) ==
    LET n == INPUT_BYTE(d, 2)
        cc(i) == INPUT_BYTE(d, 3 + 2 * (i - 1))
        c(i) == INPUT_BYTE(d, 4 + 2 * (i - 1))
        match(found, i) == {ci \in DOMAIN d.comps : /\ d.comps[ci].component_id = cc(i)
                                                    /\ ci > Len(found) /\ ci <= 4}
        one(found, i) ==
            LET ids == match(found, i)
            IN  Append(found, IF ids = {} THEN 0 ELSE CHOOSE ci \in ids : \A o \in ids : ci <= o)
        cur == Through(one, <<>>, 1, n)
        set(comps, i) == [comps EXCEPT ![cur[i]].dc_tbl_no = c(i) \div 16,
                                       ![cur[i]].ac_tbl_no = c(i) % 16]
        after == 3 + 2 * n
    IN  IF ~d.saw_SOF \/ INPUT_2BYTES(d, 0) # n * 2 + 6 \/ n \notin 1 .. 4 THEN Error(d)
        ELSE IF 0 \in Range(cur) \/ \E i, j \in 1 .. n : i < j /\ cur[i] = cur[j] THEN Error(d)
        ELSE Took([d EXCEPT !.comps = Through(set, @, 1, n), !.cur_comp_info = cur,
                            !.Ss = INPUT_BYTE(d, after), !.Se = INPUT_BYTE(d, after + 1),
                            !.Ah = INPUT_BYTE(d, after + 2) \div 16,
                            !.Al = INPUT_BYTE(d, after + 2) % 16], after + 3)

\* A marker with as many tables as its length allows: one(d) takes one, "least" is the length
\* beyond which there is another.
GetTables(d, one(_), least) ==
    LET end == d.pos + INPUT_2BYTES(d, 0)
        next(x, k) == IF x.state = "reading" /\ end - x.pos > least THEN one(x) ELSE x
        check(x) == IF x.state = "reading" /\ x.pos # end THEN Error(x) ELSE x
    IN  check(Through(next, Took(d, 2), 1, 2 * NUM_ARITH_TBLS))

DefineConditioning(d) ==
    LET index == INPUT_BYTE(d, 0)
        val == INPUT_BYTE(d, 1)
    IN  IF index >= 2 * NUM_ARITH_TBLS THEN Error(d)
        ELSE IF index >= NUM_ARITH_TBLS
        THEN Took([d EXCEPT !.arith_ac_K[index - NUM_ARITH_TBLS] = val], 2)
        ELSE IF val % 16 > val \div 16 THEN Error(d)
        ELSE Took([d EXCEPT !.arith_dc_L[index] = val % 16, !.arith_dc_U[index] = val \div 16], 2)
get_dac(d) == GetTables(d, DefineConditioning, 0)

\* Values beyond those counted are 0.  16 in the index is that of an AC table.
DefineHuffTable(end, d) ==
    LET index == INPUT_BYTE(d, 0)
        bits == [i \in 1 .. 16 |-> INPUT_BYTE(d, i)]
        count == Through(LAMBDA n, i : n + bits[i], 0, 1, 16)
        table == [bits |-> bits, huffval |-> [i \in 1 .. count |-> INPUT_BYTE(d, 16 + i)]]
        is_ac == (index \div 16) % 2 = 1
        number == IF is_ac THEN index - 16 ELSE index
    IN  IF count > 256 \/ count > end - d.pos - 17 \/ number >= NUM_HUFF_TBLS THEN Error(d)
        ELSE Took(IF is_ac THEN [d EXCEPT !.ac[number] = table]
                  ELSE [d EXCEPT !.dc[number] = table], 17 + count)
get_dht(d) ==
    LET one(x) == DefineHuffTable(d.pos + INPUT_2BYTES(d, 0), x) IN GetTables(d, one, 16)

\* The entries come in zigzag order.
DefineQuantTable(d) ==
    LET n == INPUT_BYTE(d, 0) % 16
        prec == INPUT_BYTE(d, 0) \div 16
        tmp(i) == IF prec # 0 THEN INPUT_2BYTES(d, 1 + 2 * (i - 1)) ELSE INPUT_BYTE(d, i)
        table == Through(LAMBDA q, i : [q EXCEPT ![jpeg_natural_order[i]] = tmp(i)],
                         [i \in 1 .. DCTSIZE2 |-> 0], 1, DCTSIZE2)
    IN  IF n >= NUM_QUANT_TBLS THEN Error(d)
        ELSE Took([d EXCEPT !.quant[n] = table], 1 + (IF prec # 0 THEN 2 ELSE 1) * DCTSIZE2)
get_dqt(d) == GetTables(d, DefineQuantTable, 0)

get_dri(d) ==
    IF INPUT_2BYTES(d, 0) # 4 THEN Error(d)
    ELSE Took([d EXCEPT !.restart_interval = INPUT_2BYTES(d, 2)], 4)

\* The bytes of a marker from the first on that are those of a name.
IsNamed(d, name) == \A i \in DOMAIN name : INPUT_BYTE(d, 1 + i) = name[i]
SkipVariable(d) == Took(d, IF INPUT_2BYTES(d, 0) > 2 THEN INPUT_2BYTES(d, 0) ELSE 2)

\* JFIF and Adobe markers that are long enough are looked into; others are skipped.
get_interesting_appn(d, code) ==
    LET length == INPUT_2BYTES(d, 0) - 2
        app0 == [d EXCEPT !.saw_JFIF_marker = TRUE,
                          !.JFIF = <<INPUT_BYTE(d, 7), INPUT_BYTE(d, 8), INPUT_BYTE(d, 9),
                                     INPUT_2BYTES(d, 10), INPUT_2BYTES(d, 12)>>]
        app14 == [d EXCEPT !.saw_Adobe_marker = TRUE, !.Adobe_transform = INPUT_BYTE(d, 13)]
    IN  IF code = M_APP0 /\ length >= 14 /\ IsNamed(d, <<74, 70, 73, 70, 0>>)
        THEN SkipVariable(app0)
        ELSE IF code = M_APP14 /\ length >= 12 /\ IsNamed(d, <<65, 100, 111, 98, 101>>)
        THEN SkipVariable(app14)
        ELSE SkipVariable(d)

\* One marker is processed, d being behind its code.
Process(d, code) ==
    IF code = M_SOI THEN get_soi(d)
    ELSE IF code \in {M_SOF0, M_SOF1} THEN get_sof(d, FALSE, FALSE)
    ELSE IF code = M_SOF2 THEN get_sof(d, TRUE, FALSE)
    ELSE IF code = M_SOF9 THEN get_sof(d, FALSE, TRUE)
    ELSE IF code = M_SOF10 THEN get_sof(d, TRUE, TRUE)
    ELSE IF code = M_SOS THEN get_sos(d)
    ELSE IF code = M_EOI THEN [d EXCEPT !.state = "EOI"]
    ELSE IF code = M_DAC THEN get_dac(d)
    ELSE IF code = M_DHT THEN get_dht(d)
    ELSE IF code = M_DQT THEN get_dqt(d)
    ELSE IF code = M_DRI THEN get_dri(d)
    ELSE IF code \in 224 .. 239 THEN get_interesting_appn(d, code)
    ELSE IF code = M_COM THEN SkipVariable(d)
    ELSE IF code \in M_RSTs \cup {1} THEN d
    ELSE IF code = 220 THEN SkipVariable(d)
    ELSE Error(d)

\* What is not there entirely is waited for, as if nothing had been taken.
Passed(d, at, code, done) ==
    LET whole == \/ code \in {M_SOI, M_EOI, 1} \cup M_RSTs
                 \/ at + 2 <= Len(d.in) /\ at + WordAt(d.in, at + 1) <= Len(d.in)
    IN  IF ~whole \/ done.pos > Len(d.in) + 1 THEN [d EXCEPT !.state = "suspended"]
        ELSE IF code = M_SOS /\ done.state = "reading"
        THEN [done EXCEPT !.scans = Append(@, [done EXCEPT !.in = <<>>, !.scans = <<>>])]
        ELSE done
ReadMarkerAt(d, at) ==
    LET code == ByteAt(d.in, at)
    IN  IF at = 0 \/ Len(d.in) < at THEN [d EXCEPT !.state = "suspended"]
        ELSE IF ~d.saw_SOI /\ <<ByteAt(d.in, 1), code>> # Marker(M_SOI) THEN Error(d)
        ELSE Passed(d, at, code, Process([d EXCEPT !.pos = at + 1], code))
\* One round of read_markers(): SOI must come first.  After SOS the entropy decoder passes over
\* its data to the next marker, as next_marker() does.
ReadMarker(d) ==
    IF d.state # "reading" THEN d
    ELSE ReadMarkerAt(d, IF d.saw_SOI THEN NextMarker(d.in, d.pos, {0}) ELSE 2)

read_markers(f, tables) ==
    LET step(d, k) == ReadMarker(d) IN Through(step, OpenFile(f, tables), 1, Len(f) \div 2 + 1)

-----------------------------------------------------------------------------
\* The end of the parameters of a marker whose length is at p: 0 if the length is wrong, and 0
\* if the file ends before.
EndOfVariable(f, p) ==
    LET end == p + WordAt(f, p) - 1
    IN  IF WordAt(f, p) < 2 \/ end > Len(f) THEN 0 ELSE end

\* process_COM(): the text as it is, or readable: one newline for CR, LF and CR LF, backslashes
\* doubled, and what cannot be printed in octal.
isprint(ch) == ch \in 32 .. 126
Readable(ch, lastch) ==
    IF ch = 13 THEN <<10>>
    ELSE IF ch = 10 THEN IF lastch # 13 THEN <<10>> ELSE <<>>
    ELSE IF ch = 92 THEN <<92, 92>>
    ELSE IF isprint(ch) THEN <<ch>>
    ELSE <<92, 48 + (ch \div 64), 48 + ((ch \div 8) % 8), 48 + (ch % 8)>>
Shown(text, raw) ==
    LET one(i) == Readable(text[i], IF i = 1 THEN 0 ELSE text[i - 1])
    IN  (IF raw THEN text ELSE FlattenSeq([i \in DOMAIN text |-> one(i)])) \o <<10>>

\* process_SOFn(): width, height, components, precision and the process.
Sizes(f, p, code) ==
    <<WordAt(f, p + 5), WordAt(f, p + 3), ByteAt(f, p + 7), ByteAt(f, p + 2), code>>

\* rdjpgcom: what it prints, each a comment or sizes, and whether it has come to SOS or EOI or
\* has failed.
RdjpgcomStep(f, verbose, raw, e) ==
    LET at == NextMarker(f, e.pos, {})
        code == ByteAt(f, at)
        p == at + 1
        end == EndOfVariable(f, p)
        says(what, text) == Append(e.out, [what |-> what, text |-> text])
        comment(what) == says(what, Shown(SubSeq(f, p + 2, end), raw))
        ends(state) == [e EXCEPT !.state = state]
        goes(out) == [e EXCEPT !.pos = end + 1, !.out = out]
    IN  IF e.state # "reading" THEN e
        ELSE IF at = 0 THEN ends("error")
        ELSE IF code \in {M_SOS, M_EOI} THEN ends("done")
        ELSE IF code \in SOFs /\ verbose
        THEN IF p + 7 > Len(f) THEN ends("error")
             ELSE IF end = 0 \/ WordAt(f, p) # 8 + 3 * ByteAt(f, p + 7)
             THEN [ends("error") EXCEPT !.out = says("sizes", Sizes(f, p, code))]
             ELSE goes(says("sizes", Sizes(f, p, code)))
        ELSE IF end = 0 THEN ends("error")
        ELSE IF code = M_COM THEN goes(comment("COM"))
        ELSE IF code = M_APP12 /\ verbose THEN goes(comment("APP12"))
        ELSE goes(e.out)

\* first_marker()
Begins(f) == Len(f) >= 2 /\ SubSeq(f, 1, 2) = Marker(M_SOI)

rdjpgcom(f, verbose, raw) ==
    LET start == [pos |-> 3, out |-> <<>>, state |-> IF Begins(f) THEN "reading" ELSE "error"]
        step(e, k) == RdjpgcomStep(f, verbose, raw, e)
    IN  Through(step, start, 1, Len(f) \div 2 + 1)

\* wrjpgcom, up to SOFn or EOI: markers are copied, without what is between them, comments only
\* if they are kept.
WrjpgcomStep(f, keep_COM, e) ==
    LET at == NextMarker(f, e.pos, {})
        code == ByteAt(f, at)
        end == EndOfVariable(f, at + 1)
    IN  IF e.state # "reading" THEN e
        ELSE IF at = 0 THEN [e EXCEPT !.state = "error"]
        ELSE IF code \in SOFs \cup {M_EOI} THEN [e EXCEPT !.state = "done", !.pos = at]
        ELSE IF code = M_SOS \/ end = 0 THEN [e EXCEPT !.state = "error"]
        ELSE IF code = M_COM /\ ~keep_COM THEN [e EXCEPT !.pos = end + 1]
        ELSE [e EXCEPT !.pos = end + 1,
                       !.out = @ \o Marker(code) \o SubSeq(f, at + 1, end)]

\* A comment of the command line must be shorter than one of a file.
TooLong(comment, from) ==
    IF from = "argument" THEN Len(comment) >= MAX_COM_LENGTH ELSE Len(comment) > MAX_COM_LENGTH

\* Then comes the new comment, if it is not empty, and the rest as it is.
wrjpgcom(f, keep_COM, comment, from) ==
    LET start == [pos |-> 3, out |-> Marker(M_SOI),
                  state |-> IF TooLong(comment, from) \/ ~Begins(f) THEN "error" ELSE "reading"]
        step(e, k) == WrjpgcomStep(f, keep_COM, e)
        header == Through(step, start, 1, Len(f) \div 2 + 1)
        new == IF comment = <<>> THEN <<>> ELSE Segment(M_COM, Len(comment) + 2, comment)
    IN  IF header.state = "error" THEN header
        ELSE [header EXCEPT !.out = @ \o new \o <<255>> \o SubSeq(f, header.pos, Len(f))]

-----------------------------------------------------------------------------
\* ICC profiles.  A marker is what the routines look at of it: whether it is one of a profile, its
\* two bytes of numbering, and its part of the profile.
\* The error of a profile of no bytes, and the result of there being none.
NoProfile == <<>>

Byte(n) == n % 256

\* How many markers a profile takes.
NumMarkers(length) ==
    LET full == length \div MAX_DATA_BYTES_IN_MARKER
    IN  IF full * MAX_DATA_BYTES_IN_MARKER # length THEN full + 1 ELSE full

\* The numbers are written as bytes, whatever they are.
jpeg_write_icc_profile(profile) ==
    LET last(m) == m * MAX_DATA_BYTES_IN_MARKER
        part(m) == SubSeq(profile, last(m - 1) + 1,
                          IF last(m) < Len(profile) THEN last(m) ELSE Len(profile))
    IN  [m \in 1 .. NumMarkers(Len(profile)) |->
            [icc |-> TRUE, seq_no |-> Byte(m), num_markers |-> Byte(NumMarkers(Len(profile))),
             data |-> part(m)]]

\* The markers are put in the order of their numbers.  Nothing is taken of a set of markers that
\* does not agree about how many they are, or that has not each of them once, or no data.
jpeg_read_icc_profile(markers) ==
    LET ours == {i \in DOMAIN markers : markers[i].icc}
        num == markers[CHOOSE i \in ours : \A j \in ours : i <= j].num_markers
        agree == \A i \in ours : markers[i].num_markers = num
        in_range == \A i \in ours : markers[i].seq_no \in 1 .. num
        no_duplicate == \A i, j \in ours : markers[i].seq_no = markers[j].seq_no => i = j
        none_missing == \A n \in 1 .. num : \E i \in ours : markers[i].seq_no = n
        data(n) == markers[CHOOSE i \in ours : markers[i].seq_no = n].data
    IN  IF ours = {} THEN NoProfile
        ELSE IF agree /\ in_range /\ no_duplicate /\ num > 0 /\ none_missing
        THEN Through(LAMBDA e, n : e \o data(n), <<>>, 1, num)
        ELSE NoProfile

=============================================================================
