------------------------------ MODULE Programs ------------------------------
(***************************************************************************)
(* cjpeg, djpeg and jpegtran: what the words of a command line make of the *)
(* parameters of the library (cjpeg.c, djpeg.c, jpegtran.c, cdjpeg.c), the *)
(* parameters that an application has help with (jcparam.c), and the files *)
(* of text and colors that switches name (rdswitch.c, rdcolmap.c).         *)
(*                                                                         *)
(* A word of a command line is [dash, text]: a switch, without its dash    *)
(* and in lower case, or what follows one, which is the number, the list   *)
(* of numbers or the file that it stands for ("bad" where it is none).     *)
(* Only files, keywords and the specification of a region are read by      *)
(* their characters.  A program ends with usage = TRUE if it complains, or *)
(* tells its version.                                                      *)
(* Parameters of the library that no switch sets, and those of a build     *)
(* that lacks something, are left out.                                     *)
(***************************************************************************)
EXTENDS Integers, Sequences, SequencesExt, CodedData

NUM_QUANT_TBLS == 4
DCTSIZE2 == 64
MAX_COMPONENTS == 10
MAX_COMPS_IN_SCAN == 4
MAX_SCANS == 100
MAXJSAMPLE == 255

\* A name or an argument that there is not; a table or a script that there is not is <<>>.
Nothing == "nothing"
Tables == 0 .. NUM_QUANT_TBLS - 1

Clamped(v, least, most) == IF v < least THEN least ELSE IF v > most THEN most ELSE v

-----------------------------------------------------------------------------
\* Quantization tables (jcparam.c).

std_luminance_quant_tbl ==
  <<16,  11,  10,  16,  24,  40,  51,  61,
    12,  12,  14,  19,  26,  58,  60,  55,
    14,  13,  16,  24,  40,  57,  69,  56,
    14,  17,  22,  29,  51,  87,  80,  62,
    18,  22,  37,  56,  68, 109, 103,  77,
    24,  35,  55,  64,  81, 104, 113,  92,
    49,  64,  78,  87, 103, 121, 120, 101,
    72,  92,  95,  98, 112, 100, 103,  99>>
std_chrominance_quant_tbl ==
  <<17,  18,  24,  47,  99,  99,  99,  99,
    18,  21,  26,  66,  99,  99,  99,  99,
    24,  26,  56,  99,  99,  99,  99,  99,
    47,  66,  99,  99,  99,  99,  99,  99,
    99,  99,  99,  99,  99,  99,  99,  99,
    99,  99,  99,  99,  99,  99,  99,  99,
    99,  99,  99,  99,  99,  99,  99,  99,
    99,  99,  99,  99,  99,  99,  99,  99>>

jpeg_add_quant_table(c, which_tbl, basic_table, scale_factor, force_baseline) ==
    LET most == IF force_baseline THEN 255 ELSE 32767
        scaled(b) == Clamped((b * scale_factor + 50) \div 100, 1, most)
    IN  [c EXCEPT !.quant_tbl[which_tbl] = [i \in 1 .. DCTSIZE2 |-> scaled(basic_table[i])]]

\* The two tables of the standard, each scaled by its factor.
jpeg_default_qtables(c, scale, force_baseline) ==
    LET luminance == jpeg_add_quant_table(c, 0, std_luminance_quant_tbl, scale[0], force_baseline)
    IN  jpeg_add_quant_table(luminance, 1, std_chrominance_quant_tbl, scale[1], force_baseline)

jpeg_set_linear_quality(c, scale_factor, force_baseline) ==
    jpeg_default_qtables(c, [t \in 0 .. 1 |-> scale_factor], force_baseline)

jpeg_quality_scaling(quality) ==
    LET q == Clamped(quality, 1, 100) IN IF q < 50 THEN 5000 \div q ELSE 200 - q * 2

jpeg_set_quality(c, quality, force_baseline) ==
    jpeg_set_linear_quality(c, jpeg_quality_scaling(quality), force_baseline)

-----------------------------------------------------------------------------
\* Color spaces and other defaults.

SET_COMP(id, samp, tbl) ==
    [component_id |-> id, h_samp_factor |-> samp, v_samp_factor |-> samp,
     quant_tbl_no |-> tbl, dc_tbl_no |-> tbl, ac_tbl_no |-> tbl]
Chroma(id) == SET_COMP(id, 1, 1)
Plain(ids) == [ci \in DOMAIN ids |-> SET_COMP(ids[ci], 1, 0)]

\* The components of a file in a color space.
ComponentsOf(colorspace, input_components) ==
    CASE colorspace = "gray"  -> Plain(<<1>>)
      [] colorspace = "RGB"   -> Plain(<<82, 71, 66>>)
      [] colorspace = "YCbCr" -> <<SET_COMP(1, 2, 0), Chroma(2), Chroma(3)>>
      [] colorspace = "CMYK"  -> Plain(<<67, 77, 89, 75>>)
      [] colorspace = "YCCK"  -> <<SET_COMP(1, 2, 0), Chroma(2), Chroma(3), SET_COMP(4, 2, 0)>>
      [] colorspace = "unknown" -> Plain([ci \in 1 .. input_components |-> ci - 1])

\* Components beyond those of the file stay in the array as they were.
jpeg_set_colorspace(c, colorspace) ==
    LET comps == ComponentsOf(colorspace, c.input_components)
    IN  [c EXCEPT !.jpeg_color_space = colorspace,
                  !.write_JFIF_header = colorspace \in {"gray", "YCbCr"},
                  !.write_Adobe_marker = colorspace \in {"RGB", "CMYK", "YCCK"},
                  !.num_components = Len(comps),
                  !.comp_info = [ci \in DOMAIN @ |-> IF ci \in DOMAIN comps THEN comps[ci]
                                                     ELSE @[ci]]]

jpeg_default_colorspace(c) ==
    jpeg_set_colorspace(c, IF c.in_color_space = "RGB" THEN "YCbCr" ELSE c.in_color_space)

\* A compression object whose parameters nobody has set.
jpeg_create_compress ==
    [in_color_space |-> Nothing, input_components |-> 3, jpeg_color_space |-> Nothing,
     write_JFIF_header |-> FALSE, write_Adobe_marker |-> FALSE,
     num_components |-> 0, comp_info |-> [ci \in 1 .. MAX_COMPONENTS |-> SET_COMP(0, 0, 0)],
     quant_tbl |-> [t \in Tables |-> <<>>], q_scale_factor |-> [t \in Tables |-> 100],
     arith_code |-> FALSE, optimize_coding |-> FALSE, dct_method |-> "islow",
     smoothing_factor |-> 0, restart_interval |-> 0, restart_in_rows |-> 0,
     scan_info |-> <<>>, num_scans |-> 0, script_space_size |-> 0,
     max_memory_to_use |-> 0, trace_level |-> 0]

jpeg_set_defaults(c) ==
    LET quality == jpeg_set_quality(c, 75, TRUE)
    IN  jpeg_default_colorspace(
            [quality EXCEPT !.arith_code = FALSE, !.optimize_coding = FALSE,
                            !.dct_method = "islow", !.smoothing_factor = 0,
                            !.restart_interval = 0, !.restart_in_rows = 0,
                            !.scan_info = <<>>, !.num_scans = 0])

-----------------------------------------------------------------------------
\* Scripts for progressive files.

Scan(comps, Ss, Se, Ah, Al) ==
    [component_index |-> comps, Ss |-> Ss, Se |-> Se, Ah |-> Ah, Al |-> Al]

fill_scans(ncomps, Ss, Se, Ah, Al) ==
    [k \in 1 .. ncomps |-> Scan(<<k - 1>>, Ss, Se, Ah, Al)]
fill_a_scan(ci, Ss, Se, Ah, Al) == <<Scan(<<ci>>, Ss, Se, Ah, Al)>>
fill_dc_scans(ncomps, Ah, Al) ==
    IF ncomps <= MAX_COMPS_IN_SCAN THEN <<Scan([k \in 1 .. ncomps |-> k - 1], 0, 0, Ah, Al)>>
    ELSE fill_scans(ncomps, 0, 0, Ah, Al)

\* The space is kept, and had anew only for more scans.
jpeg_simple_progression(c) ==
    LET ncomps == c.num_components
        custom == ncomps = 3 /\ c.jpeg_color_space = "YCbCr"
        nscans == IF custom THEN 10
                  ELSE IF ncomps > MAX_COMPS_IN_SCAN THEN 6 * ncomps ELSE 2 + 4 * ncomps
        script == IF custom
                  THEN fill_dc_scans(ncomps, 0, 1) \o fill_a_scan(0, 1, 5, 0, 2)
                       \o fill_a_scan(2, 1, 63, 0, 1) \o fill_a_scan(1, 1, 63, 0, 1)
                       \o fill_a_scan(0, 6, 63, 0, 2) \o fill_a_scan(0, 1, 63, 2, 1)
                       \o fill_dc_scans(ncomps, 1, 0) \o fill_a_scan(2, 1, 63, 1, 0)
                       \o fill_a_scan(1, 1, 63, 1, 0) \o fill_a_scan(0, 1, 63, 1, 0)
                  ELSE fill_dc_scans(ncomps, 0, 1) \o fill_scans(ncomps, 1, 5, 0, 2)
                       \o fill_scans(ncomps, 6, 63, 0, 2) \o fill_scans(ncomps, 1, 63, 2, 1)
                       \o fill_dc_scans(ncomps, 1, 0) \o fill_scans(ncomps, 1, 63, 1, 0)
    IN  [c EXCEPT !.scan_info = script, !.num_scans = nscans,
                  !.script_space_size = IF @ < nscans THEN Biggest(nscans, 10) ELSE @]

-----------------------------------------------------------------------------
\* Files of text (rdswitch.c): the characters of one after the other, a comment being the end of
\* its line, and EOF after them.

EOF == "EOF"
Space == {" ", "\t", "\n", "\r"}
Digits == {"0", "1", "2", "3", "4", "5", "6", "7", "8", "9"}
Value(digit) == CHOOSE d \in 0 .. 9 : SubSeq("0123456789", d + 1, d + 1) = digit

text_getc(text) ==
    LET take(r, at) ==
            LET ch == SubSeq(text, at, at)
                comment == ch # "\n" /\ (r.comment \/ ch = "#")
            IN  [comment |-> comment, chars |-> IF comment THEN r.chars ELSE Append(r.chars, ch)]
    IN  Through(take, [comment |-> FALSE, chars |-> <<>>], 1, Len(text)).chars

Char(chars, at) == IF at > Len(chars) THEN EOF ELSE chars[at]

\* Where the characters of a kind end that begin there.
Behind(kind, chars, at) ==
    CHOOSE p \in at .. Biggest(at, Len(chars) + 1) :
        Char(chars, p) \notin kind /\ \A q \in at .. p - 1 : chars[q] \in kind

\* The number that begins there.
Decimal(chars, at) ==
    LET digits == SubSeq(chars, at, Behind(Digits, chars, at) - 1)
    IN  FoldLeft(LAMBDA v, d : 10 * v + Value(d), 0, digits)

\* An integer, the character behind it, and where the next one is; ok = FALSE if there is none.
read_text_integer(chars, at) ==
    LET number(first, end) ==
            IF first = end
            THEN [ok |-> FALSE, result |-> 0, termchar |-> Char(chars, first), at |-> first + 1]
            ELSE [ok |-> TRUE, result |-> Decimal(chars, first),
                  termchar |-> Char(chars, end), at |-> end + 1]
        from(first) == number(first, Behind(Digits, chars, first))
    IN  from(Behind(Space, chars, at))

\* Of the characters behind it only ':', ';' and the end matter, with spaces before them or not; a
\* digit is put back.
SkipSpace(read, chars, term) ==
    [read EXCEPT !.termchar = IF Char(chars, term) \in {EOF, ";", ":"} THEN Char(chars, term)
                              ELSE " ",
                 !.at = IF Char(chars, term) \in Digits THEN term ELSE term + 1]
EndScanInteger(read, chars) ==
    IF read.ok THEN SkipSpace(read, chars, Behind(Space, chars, read.at - 1)) ELSE read
read_scan_integer(chars, at) == EndScanInteger(read_text_integer(chars, at), chars)

\* Up to NUM_QUANT_TBLS tables, each scaled as the switch -quality has it.
read_quant_tables(c, text, force_baseline) ==
    LET chars == text_getc(text)
        take(r, k) ==
            LET read == read_text_integer(chars, r.at)
            IN  IF r.done THEN r
                ELSE [done |-> ~read.ok, at |-> read.at, termchar |-> read.termchar,
                      vals |-> IF read.ok THEN Append(r.vals, read.result) ELSE r.vals]
        set(vals) ==
            LET table(tblno) == SubSeq(vals, tblno * DCTSIZE2 + 1, (tblno + 1) * DCTSIZE2)
                add(d, tblno) == jpeg_add_quant_table(d, tblno, table(tblno),
                                                      d.q_scale_factor[tblno], force_baseline)
            IN  Through(add, c, 0, Len(vals) \div DCTSIZE2 - 1)
        all(file) ==
            IF file.done /\ Len(file.vals) % DCTSIZE2 = 0 /\ file.termchar = EOF
            THEN [ok |-> TRUE, c |-> set(file.vals)] ELSE [ok |-> FALSE, c |-> c]
    IN  all(Through(take, [done |-> FALSE, at |-> 1, termchar |-> EOF, vals |-> <<>>],
                    0, NUM_QUANT_TBLS * DCTSIZE2))

\* The entry of a scan: up to MAX_COMPS_IN_SCAN components and, behind a colon, four numbers.
More(read) == read.ok /\ read.termchar = " "
ScanOf(read, n) ==
    LET comps == [k \in 1 .. n |-> read[k].result]
        ends(last) == last.ok /\ last.termchar \in {";", EOF}
    IN  IF read[n].ok /\ read[n].termchar = ":"
        THEN [ok |-> ends(read[n + 4]) /\ \A k \in n + 1 .. n + 3 : More(read[k]),
              at |-> read[n + 4].at,
              scan |-> Scan(comps, read[n + 1].result, read[n + 2].result,
                            read[n + 3].result, read[n + 4].result)]
        ELSE [ok |-> ends(read[n]), at |-> read[n].at,
              scan |-> Scan(comps, 0, DCTSIZE2 - 1, 0, 0)]
ReadScan(chars, at) ==
    LET read[k \in 1 .. MAX_COMPS_IN_SCAN + 4] ==
            read_scan_integer(chars, IF k = 1 THEN at ELSE read[k - 1].at)
        entry(all) == ScanOf(all, CHOOSE n \in 1 .. MAX_COMPS_IN_SCAN :
                                      /\ \A k \in 1 .. n - 1 : More(all[k])
                                      /\ n = MAX_COMPS_IN_SCAN \/ ~More(all[n]))
    IN  entry(read)

read_scan_script(c, text) ==
    LET chars == text_getc(text)
        more(at) == read_scan_integer(chars, at).ok
        add(r, entry, scanno) ==
            IF entry.ok /\ scanno < MAX_SCANS
            THEN [r EXCEPT !.at = entry.at, !.scans = Append(@, entry.scan)]
            ELSE [r EXCEPT !.ok = FALSE]
        take(r, scanno) ==
            IF r.ok /\ more(r.at) THEN add(r, ReadScan(chars, r.at), scanno) ELSE r
        set(file) ==
            IF ~file.ok \/ read_scan_integer(chars, file.at).termchar # EOF
            THEN [ok |-> FALSE, c |-> c]
            ELSE [ok |-> TRUE, c |-> IF file.scans = <<>> THEN c
                                     ELSE [c EXCEPT !.scan_info = file.scans,
                                                    !.num_scans = Len(file.scans)]]
    IN  set(Through(take, [ok |-> TRUE, at |-> 1, scans |-> <<>>], 0, MAX_SCANS))

-----------------------------------------------------------------------------
\* Lists of numbers (rdswitch.c).  An argument is [vals, garbage]: the numbers, and whether
\* something follows that is none.  The last number holds for all that have none of their own.

WellFormed(arg, n) == Len(arg.vals) >= n \/ ~arg.garbage
NumberFor(arg, n, otherwise) ==
    IF arg.vals = <<>> THEN otherwise
    ELSE arg.vals[IF n < Len(arg.vals) THEN n ELSE Len(arg.vals)]

set_quality_ratings(c, arg, force_baseline) ==
    LET scale == [t \in Tables |-> jpeg_quality_scaling(NumberFor(arg, t + 1, 75))]
    IN  [ok |-> WellFormed(arg, NUM_QUANT_TBLS),
         c |-> jpeg_default_qtables([c EXCEPT !.q_scale_factor = scale], scale, force_baseline)]

set_quant_slots(c, arg) ==
    LET slot(ci) == NumberFor(arg, ci, 0)
    IN  [ok |-> WellFormed(arg, MAX_COMPONENTS) /\ \A ci \in 1 .. MAX_COMPONENTS : slot(ci) \in Tables,
         c |-> [c EXCEPT !.comp_info = [ci \in DOMAIN @ |->
                                           [@[ci] EXCEPT !.quant_tbl_no = slot(ci)]]]]

\* Pairs of factors; those that have none get 1x1.
set_sample_factors(c, arg) ==
    LET pair(ci) == IF ci <= Len(arg.vals) THEN arg.vals[ci] ELSE <<1, 1>>
        set(comp, p) == [comp EXCEPT !.h_samp_factor = p[1], !.v_samp_factor = p[2]]
    IN  [ok |-> /\ WellFormed(arg, MAX_COMPONENTS)
                /\ \A ci \in 1 .. MAX_COMPONENTS : pair(ci) \in (1 .. 4) \X (1 .. 4),
         c |-> [c EXCEPT !.comp_info = [ci \in DOMAIN @ |-> set(@[ci], pair(ci))]]]

-----------------------------------------------------------------------------
\* Words of a command line.

keymatch(arg, keyword, minchars) ==
    Len(arg) \in minchars .. Len(keyword) /\ SubSeq(keyword, 1, Len(arg)) = arg

\* A keyword, its shortest abbreviation, the switch that it is, and how many words follow it.
Key(keyword, minchars, switch, takes) ==
    [keyword |-> keyword, minchars |-> minchars, switch |-> switch, takes |-> takes]
None == Key("", 0, Nothing, 0)

\* The keys are tried one after the other.
Selected(keys, arg) ==
    FoldRight(LAMBDA key, found : IF keymatch(arg, key.keyword, key.minchars) THEN key ELSE found,
              keys, None)

\* The switches of a command line with their arguments, up to the file name, the only one.
CommandLine(keys, argv) ==
    LET take(line, word) ==
            LET key == Selected(keys, word.text)
                n == Len(line.switches)
            IN  IF line.files > 0 THEN [line EXCEPT !.files = @ + 1]
                ELSE IF line.takes > 0
                THEN [line EXCEPT !.takes = @ - 1, !.switches[n].args = Append(@, word.text)]
                ELSE IF ~word.dash THEN [line EXCEPT !.files = 1]
                ELSE [line EXCEPT !.switches = Append(@, [switch |-> key.switch, args |-> <<>>]),
                                  !.takes = key.takes]
        line == FoldLeft(take, [switches |-> <<>>, takes |-> 0, files |-> 0], argv)
    IN  [switches |-> line.switches, usage |-> line.takes > 0 \/ line.files > 1]

\* The arguments that are keywords themselves.
DctKeys == <<Key("int", 1, "islow", 0), Key("fast", 2, "ifast", 0), Key("float", 2, "float", 0)>>
DitherKeys ==
    <<Key("fs", 2, "fs", 0), Key("none", 2, "none", 0), Key("ordered", 2, "ordered", 0)>>
CopyKeys ==
    <<Key("none", 1, "none", 0), Key("comments", 1, "comments", 0), Key("icc", 1, "icc", 0),
      Key("all", 1, "all", 0)>>
FlipKeys == <<Key("horizontal", 1, "flip_h", 0), Key("vertical", 1, "flip_v", 0)>>
RotateKeys ==
    <<Key("90", 2, "rot_90", 0), Key("180", 3, "rot_180", 0), Key("270", 3, "rot_270", 0)>>

-----------------------------------------------------------------------------
\* What the programs have in common.  The state of one is its variables and, as c, those of the
\* object that it has; usage = TRUE if it has complained.

Complains(s) == [s EXCEPT !.usage = TRUE]
If(holds, s, next) == IF holds THEN next ELSE Complains(s)

\* An interval in MCUs takes the place of one in rows, but not the other way.
SetRestart(s, arg) ==
    LET c == s.c
        set == IF arg.suffix = "B"
               THEN [c EXCEPT !.restart_interval = arg.n, !.restart_in_rows = 0]
               ELSE [c EXCEPT !.restart_in_rows = arg.n]
    IN  If(arg.ok /\ arg.n \in 0 .. 65535, s, [s EXCEPT !.c = set])

SetMaxMemory(s, arg) ==
    If(arg.ok, s, [s EXCEPT !.c.max_memory_to_use =
                               arg.n * (IF arg.suffix = "M" THEN 1000 ELSE 1) * 1000])

SetKeyword(s, keys, arg, set(_)) ==
    LET chosen == Selected(keys, arg).switch IN If(chosen # Nothing, s, set(chosen))

\* What is done after all switches, and may fail.
Settle(s, wanted, r) == IF s.usage \/ ~wanted THEN s ELSE If(r.ok, s, [s EXCEPT !.c = r.c])

\* The scans of a file: -scans has the last word.
SettleScans(s) ==
    LET simple == Settle(s, s.simple_progressive,
                         [ok |-> TRUE, c |-> jpeg_simple_progression(s.c)])
        given(r) == Settle(r, r.scansarg # Nothing, read_scan_script(r.c, r.scansarg))
    IN  given(simple)

\* A program ends with the state that it had before the file was read, and the one behind it.
Ended(first, s, failed) == [usage |-> s.usage, failed |-> failed, first |-> first, s |-> s]

\* Warnings are errors if so wanted, and a file is needed that a switch has named.
Fails(first, input) == (first.strict /\ input.warns) \/ first.icc_filename = "missing"

\* The progress of a decompressor is watched unless it is traced; what it comes to is that a file
\* with more scans is refused.
TooManyScans(report, max_scans, trace_level, scans) ==
    LET watched == (report \/ max_scans # 0) /\ trace_level = 0
    IN  watched /\ max_scans # 0 /\ scans > max_scans

-----------------------------------------------------------------------------
\* cjpeg

CjpegKeys ==
    <<Key("arithmetic", 1, "arithmetic", 0), Key("baseline", 1, "baseline", 0),
      Key("dct", 2, "dct", 1), Key("debug", 1, "debug", 0), Key("verbose", 1, "debug", 0),
      Key("version", 4, "version", 0), Key("grayscale", 2, "grayscale", 0),
      Key("greyscale", 2, "grayscale", 0), Key("rgb", 3, "rgb", 0), Key("icc", 1, "icc", 1),
      Key("maxmemory", 3, "maxmemory", 1), Key("optimize", 1, "optimize", 0),
      Key("optimise", 1, "optimize", 0), Key("outfile", 4, "outfile", 1),
      Key("progressive", 1, "progressive", 0), Key("memdst", 2, "memdst", 0),
      Key("quality", 1, "quality", 1), Key("qslots", 2, "qslots", 1),
      Key("qtables", 2, "qtables", 1), Key("report", 3, "report", 0),
      Key("restart", 1, "restart", 1), Key("sample", 2, "sample", 1), Key("scans", 4, "scans", 1),
      Key("smooth", 2, "smooth", 1), Key("strict", 2, "strict", 0), Key("targa", 1, "targa", 0)>>

\* Every switch of cjpeg: some change the parameters, others wait for the rest of the line.
CjpegSwitch(s, sw) ==
    LET arg == sw.args[1]
    IN  CASE sw.switch = "arithmetic" -> [s EXCEPT !.c.arith_code = TRUE]
          [] sw.switch = "baseline" -> [s EXCEPT !.force_baseline = TRUE]
          [] sw.switch = "dct" ->
                SetKeyword(s, DctKeys, arg, LAMBDA dct : [s EXCEPT !.c.dct_method = dct])
          [] sw.switch = "debug" -> [s EXCEPT !.c.trace_level = @ + 1]
          [] sw.switch = "grayscale" -> [s EXCEPT !.c = jpeg_set_colorspace(@, "gray")]
          [] sw.switch = "rgb" -> [s EXCEPT !.c = jpeg_set_colorspace(@, "RGB")]
          [] sw.switch = "icc" -> [s EXCEPT !.icc_filename = arg]
          [] sw.switch = "maxmemory" -> SetMaxMemory(s, arg)
          [] sw.switch = "optimize" -> [s EXCEPT !.c.optimize_coding = TRUE]
          [] sw.switch = "outfile" -> [s EXCEPT !.outfilename = arg]
          [] sw.switch = "progressive" -> [s EXCEPT !.simple_progressive = TRUE]
          [] sw.switch = "memdst" -> [s EXCEPT !.memdst = TRUE]
          [] sw.switch = "quality" -> [s EXCEPT !.qualityarg = <<arg>>]
          [] sw.switch = "qslots" -> [s EXCEPT !.qslotsarg = <<arg>>]
          [] sw.switch = "qtables" -> [s EXCEPT !.qtablefile = arg]
          [] sw.switch = "report" -> [s EXCEPT !.report = TRUE]
          [] sw.switch = "restart" -> SetRestart(s, arg)
          [] sw.switch = "sample" -> [s EXCEPT !.samplearg = <<arg>>]
          [] sw.switch = "scans" -> [s EXCEPT !.scansarg = arg]
          [] sw.switch = "smooth" ->
                If(arg.ok /\ arg.n \in 0 .. 100, s, [s EXCEPT !.c.smoothing_factor = arg.n])
          [] sw.switch = "strict" -> [s EXCEPT !.strict = TRUE]
          [] sw.switch = "targa" -> [s EXCEPT !.is_targa = TRUE]
          [] OTHER -> Complains(s)

\* What waited, in the order in which it has to be: the tables after the quality, the slots and
\* factors after the color space, and the script that is given after the simple one.
CjpegCleanup(s) ==
    LET quality(r) == Settle(r, r.qualityarg # <<>>,
                             set_quality_ratings(r.c, r.qualityarg[1], r.force_baseline))
        tables(r) == Settle(r, r.qtablefile # Nothing,
                            read_quant_tables(r.c, r.qtablefile, r.force_baseline))
        slots(r) == Settle(r, r.qslotsarg # <<>>, set_quant_slots(r.c, r.qslotsarg[1]))
        factors(r) == Settle(r, r.samplearg # <<>>, set_sample_factors(r.c, r.samplearg[1]))
    IN  SettleScans(factors(slots(tables(quality(s)))))

CjpegParse(c, line, for_real) ==
    LET start == [c |-> [c EXCEPT !.trace_level = 0], usage |-> line.usage,
                  force_baseline |-> FALSE, simple_progressive |-> FALSE, is_targa |-> FALSE,
                  icc_filename |-> Nothing, outfilename |-> Nothing, memdst |-> FALSE,
                  report |-> FALSE, strict |-> FALSE, qualityarg |-> <<>>, qtablefile |-> Nothing,
                  qslotsarg |-> <<>>, samplearg |-> <<>>, scansarg |-> Nothing]
        s == FoldLeft(LAMBDA r, sw : IF r.usage THEN r ELSE CjpegSwitch(r, sw), start,
                      line.switches)
    IN  IF for_real THEN CjpegCleanup(s) ELSE s

\* main(): the line is read to find the file, and again when its color space is known.
CjpegFirst(line) ==
    CjpegParse(jpeg_set_defaults([jpeg_create_compress EXCEPT !.in_color_space = "RGB"]),
               line, FALSE)
CjpegOpen(c, input) ==
    jpeg_default_colorspace([c EXCEPT !.in_color_space = input.space,
                                      !.input_components = input.components])
cjpeg(line, first, input) ==
    IF first.usage THEN Ended(first, first, FALSE)
    ELSE Ended(first, CjpegParse(CjpegOpen(first.c, input), line, TRUE), Fails(first, input))

-----------------------------------------------------------------------------
\* djpeg

DjpegKeys ==
    <<Key("bmp", 1, "bmp", 0), Key("colors", 1, "colors", 1), Key("colours", 1, "colors", 1),
      Key("quantize", 1, "colors", 1), Key("quantise", 1, "colors", 1), Key("dct", 2, "dct", 1),
      Key("dither", 2, "dither", 1), Key("debug", 1, "debug", 0), Key("verbose", 1, "debug", 0),
      Key("version", 4, "version", 0), Key("fast", 1, "fast", 0), Key("gif", 1, "gif", 0),
      Key("gif0", 4, "gif0", 0), Key("grayscale", 2, "grayscale", 0),
      Key("greyscale", 2, "grayscale", 0), Key("rgb", 2, "rgb", 0), Key("rgb565", 2, "rgb565", 0),
      Key("icc", 1, "icc", 1), Key("map", 3, "map", 1), Key("maxmemory", 3, "maxmemory", 1),
      Key("maxscans", 4, "maxscans", 1), Key("nosmooth", 3, "nosmooth", 0),
      Key("onepass", 3, "onepass", 0), Key("os2", 3, "os2", 0), Key("outfile", 4, "outfile", 1),
      Key("memsrc", 2, "memsrc", 0), Key("pnm", 1, "ppm", 0), Key("ppm", 1, "ppm", 0),
      Key("report", 2, "report", 0), Key("scale", 2, "scale", 1), Key("skip", 2, "skip", 1),
      Key("crop", 2, "crop", 1), Key("strict", 2, "strict", 0), Key("targa", 1, "targa", 0)>>

\* A map that is read has each color of the file once (rdcolmap.c).  A file is [kind, maxval,
\* colors], kind being "gif", "P3", "P6" or another; that it is cut off is not modelled.
add_map_entry(map, color) ==
    IF color \in {map.colormap[i] : i \in DOMAIN map.colormap} THEN map
    ELSE IF Len(map.colormap) > MAXJSAMPLE THEN [map EXCEPT !.refused = TRUE]
    ELSE [map EXCEPT !.colormap = Append(@, [i \in 1 .. 3 |-> color[i] % (MAXJSAMPLE + 1)])]
read_color_map(file) ==
    LET fits == \/ file.kind = "gif"
                \/ /\ file.kind \in {"P3", "P6"} /\ file.maxval = MAXJSAMPLE
                   /\ file.colors # <<>>
        add(map, color) == IF map.refused THEN map ELSE add_map_entry(map, color)
    IN  FoldLeft(add, [refused |-> ~fits, colormap |-> <<>>], file.colors)

\* What jpeg_read_header() leaves as the parameters of a file, and jpeg_create_decompress().
default_decompress_parms(c, out_color_space) ==
    [c EXCEPT !.out_color_space = out_color_space, !.scale = <<1, 1>>, !.dct_method = "islow",
              !.do_fancy_upsampling = TRUE, !.quantize_colors = FALSE, !.dither_mode = "fs",
              !.two_pass_quantize = TRUE, !.desired_number_of_colors = 256, !.colormap = <<>>]
jpeg_create_decompress ==
    [out_color_space |-> Nothing, scale |-> <<0, 0>>, dct_method |-> "islow",
     do_fancy_upsampling |-> FALSE, quantize_colors |-> FALSE, dither_mode |-> "none",
     two_pass_quantize |-> FALSE, desired_number_of_colors |-> 0, colormap |-> <<>>,
     max_memory_to_use |-> 0, trace_level |-> 0, saves_icc |-> FALSE]

\* Every switch of djpeg.
DjpegSwitch(s, sw, for_real) ==
    LET arg == sw.args[1]
        with_map == [s EXCEPT !.c.quantize_colors = TRUE,
                              !.c.colormap = read_color_map(arg).colormap]
    IN  CASE sw.switch \in {"bmp", "gif", "gif0", "os2", "ppm", "targa"} ->
                [s EXCEPT !.requested_fmt = sw.switch]
          [] sw.switch = "colors" ->
                If(arg.ok, s, [s EXCEPT !.c.desired_number_of_colors = arg.n,
                                        !.c.quantize_colors = TRUE])
          [] sw.switch = "dct" ->
                SetKeyword(s, DctKeys, arg, LAMBDA dct : [s EXCEPT !.c.dct_method = dct])
          [] sw.switch = "dither" ->
                SetKeyword(s, DitherKeys, arg, LAMBDA mode : [s EXCEPT !.c.dither_mode = mode])
          [] sw.switch = "debug" -> [s EXCEPT !.c.trace_level = @ + 1]
          [] sw.switch = "fast" ->
                [s EXCEPT !.c.two_pass_quantize = FALSE, !.c.dither_mode = "ordered",
                          !.c.desired_number_of_colors = IF s.c.quantize_colors THEN @ ELSE 216,
                          !.c.dct_method = "ifast", !.c.do_fancy_upsampling = FALSE]
          [] sw.switch = "grayscale" -> [s EXCEPT !.c.out_color_space = "gray"]
          [] sw.switch = "rgb" -> [s EXCEPT !.c.out_color_space = "RGB"]
          [] sw.switch = "rgb565" -> [s EXCEPT !.c.out_color_space = "RGB565"]
          [] sw.switch = "icc" -> [s EXCEPT !.icc_filename = arg, !.c.saves_icc = TRUE]
          [] sw.switch = "map" ->
                IF for_real THEN If(arg.kind # Nothing /\ ~read_color_map(arg).refused, s, with_map)
                ELSE s
          [] sw.switch = "maxmemory" -> SetMaxMemory(s, arg)
          [] sw.switch = "maxscans" -> If(arg.ok, s, [s EXCEPT !.max_scans = arg.n])
          [] sw.switch = "nosmooth" -> [s EXCEPT !.c.do_fancy_upsampling = FALSE]
          [] sw.switch = "onepass" -> [s EXCEPT !.c.two_pass_quantize = FALSE]
          [] sw.switch = "outfile" -> [s EXCEPT !.outfilename = arg]
          [] sw.switch = "memsrc" -> [s EXCEPT !.memsrc = TRUE]
          [] sw.switch = "report" -> [s EXCEPT !.report = TRUE]
          [] sw.switch = "scale" -> If(arg.ok, s, [s EXCEPT !.c.scale = arg.of])
          [] sw.switch = "skip" ->
                If(arg.ok /\ arg.start <= arg.end, s, [s EXCEPT !.skip = <<arg.start, arg.end>>])
          [] sw.switch = "crop" ->
                If(arg.ok /\ arg.width >= 1 /\ arg.height >= 1, s, [s EXCEPT !.crop = <<arg>>])
          [] sw.switch = "strict" -> [s EXCEPT !.strict = TRUE]
          [] OTHER -> Complains(s)

DjpegParse(c, line, for_real) ==
    LET start == [c |-> [c EXCEPT !.trace_level = 0], usage |-> line.usage,
                  requested_fmt |-> "ppm", icc_filename |-> Nothing, max_scans |-> 0,
                  outfilename |-> Nothing, memsrc |-> FALSE, report |-> FALSE, strict |-> FALSE,
                  skip |-> <<>>, crop |-> <<>>]
    IN  FoldLeft(LAMBDA r, sw : IF r.usage THEN r ELSE DjpegSwitch(r, sw, for_real), start,
                 line.switches)

\* The rows of the picture that are wanted are written under a header for as many; the others
\* are skipped, and all are read in the end.  refused = TRUE if the region is not in the picture.
NoImage == [refused |-> FALSE, header |-> 0, rows |-> <<>>]
WriteRegion(s, width, height) ==
    LET refused == [NoImage EXCEPT !.refused = TRUE]
        rows(from, to) == [k \in 1 .. to - from |-> from + k - 1]
        all == [refused |-> FALSE, header |-> height, rows |-> rows(0, height)]
        skipped(start, end) ==
            IF end > height - 1 THEN refused
            ELSE [refused |-> FALSE, header |-> height - (end - start + 1),
                  rows |-> rows(0, start) \o rows(end + 1, height)]
        cropped(crop) ==
            IF crop.x + crop.width > width \/ crop.y + crop.height > height THEN refused
            ELSE [refused |-> FALSE, header |-> crop.height,
                  rows |-> rows(crop.y, crop.y + crop.height)]
    IN  IF s.skip # <<>> THEN skipped(s.skip[1], s.skip[2])
        ELSE IF s.crop # <<>> THEN cropped(s.crop[1]) ELSE all

\* main(): the header of the file sets the parameters anew between the two readings of the line.
\* The output is scaled by scale[1] / scale[2], rounded up.
DjpegEnded(first, s, failed, image) == Ended(first, s, failed) @@ [image |-> image]
DjpegShow(first, s, input) ==
    LET scaled(n) == (n * s.c.scale[1] + s.c.scale[2] - 1) \div s.c.scale[2]
        ended(image) == DjpegEnded(first, s, image.refused, image)
    IN  IF \/ s.usage
           \/ TooManyScans(first.report, first.max_scans, first.c.trace_level, input.scans)
           \/ first.strict /\ input.warns
        THEN DjpegEnded(first, s, ~s.usage, NoImage)
        ELSE ended(WriteRegion(s, scaled(input.width), scaled(input.height)))
DjpegFirst(line) == DjpegParse(jpeg_create_decompress, line, FALSE)
djpeg(line, first, input) ==
    LET opened == default_decompress_parms(first.c, input.out_color_space)
    IN  IF first.usage THEN DjpegEnded(first, first, FALSE, NoImage)
        ELSE DjpegShow(first, DjpegParse(opened, line, TRUE), input)

-----------------------------------------------------------------------------
\* jpegtran

JpegtranKeys ==
    <<Key("arithmetic", 1, "arithmetic", 0), Key("copy", 2, "copy", 1), Key("crop", 2, "crop", 1),
      Key("drop", 2, "drop", 2), Key("debug", 1, "debug", 0), Key("verbose", 1, "debug", 0),
      Key("version", 4, "version", 0), Key("flip", 1, "flip", 1),
      Key("grayscale", 1, "grayscale", 0), Key("greyscale", 1, "grayscale", 0),
      Key("icc", 1, "icc", 1), Key("maxmemory", 3, "maxmemory", 1),
      Key("maxscans", 4, "maxscans", 1), Key("optimize", 1, "optimize", 0),
      Key("optimise", 1, "optimize", 0), Key("outfile", 4, "outfile", 1),
      Key("perfect", 2, "perfect", 0), Key("progressive", 2, "progressive", 0),
      Key("report", 3, "report", 0), Key("restart", 1, "restart", 1),
      Key("rotate", 2, "rotate", 1), Key("scans", 1, "scans", 1), Key("strict", 2, "strict", 0),
      Key("transpose", 1, "transpose", 0), Key("transverse", 6, "transverse", 0),
      Key("trim", 3, "trim", 0), Key("wipe", 1, "wipe", 1)>>

NoRegion ==
    [crop |-> FALSE, width |-> <<>>, height |-> <<>>, xoffset |-> <<>>, yoffset |-> <<>>]

\* The specification of a region, [width[fr]][xheight[fr]][{+-}xoffset[{+-}yoffset]]: of each
\* part that is there its kind and its number; crop = FALSE if it is not one.
jtransform_parse_crop_spec(spec) ==
    LET chars == [k \in 1 .. Len(spec) |-> SubSeq(spec, k, k)]
        take(r, i) ==
            LET ch == Char(chars, r.at)
                begins == ch \in (IF i = 1 THEN Digits ELSE IF i = 2 THEN {"x"} ELSE {"+", "-"})
                from == IF i = 1 THEN r.at ELSE r.at + 1
                end == Behind(Digits, chars, from)
                suffix == IF i > 2 THEN "" ELSE Char(chars, end)
                kind == IF suffix = "f" THEN "force" ELSE IF suffix = "r" THEN "reflect"
                        ELSE IF ch = "-" THEN "neg" ELSE "pos"
            IN  IF ~begins THEN r
                ELSE [ok |-> r.ok /\ end > from,
                      at |-> IF suffix \in {"f", "r"} THEN end + 1 ELSE end,
                      parts |-> [r.parts EXCEPT ![i] = <<kind, Decimal(chars, from)>>]]
        region(r) == IF r.ok /\ r.at > Len(chars)
                     THEN [crop |-> TRUE, width |-> r.parts[1], height |-> r.parts[2],
                           xoffset |-> r.parts[3], yoffset |-> r.parts[4]]
                     ELSE NoRegion
    IN  region(Through(take, [ok |-> TRUE, at |-> 1, parts |-> <<<<>>, <<>>, <<>>, <<>>>>], 1, 4))

\* One transform only, which may be asked for again.
select_transform(s, transform) ==
    If(s.transform \in {"none", transform}, s, [s EXCEPT !.transform = transform])

\* One region only, and for -drop a place without a size.
SetRegion(s, spec, sized, next(_)) ==
    LET set(region) == If(/\ ~s.region.crop /\ region.crop
                          /\ sized \/ (region.width = <<>> /\ region.height = <<>>),
                          s, next([s EXCEPT !.region = region]))
    IN  set(jtransform_parse_crop_spec(spec))

\* Every switch of jpegtran.
JpegtranSwitch(s, sw) ==
    LET arg == sw.args[1]
    IN  CASE sw.switch = "arithmetic" -> [s EXCEPT !.c.arith_code = TRUE]
          [] sw.switch = "copy" ->
                SetKeyword(s, CopyKeys, arg, LAMBDA option : [s EXCEPT !.copyoption = option])
          [] sw.switch = "crop" -> SetRegion(s, arg, TRUE, LAMBDA r : r)
          [] sw.switch = "drop" ->
                SetRegion(s, arg, FALSE, LAMBDA r :
                    select_transform([r EXCEPT !.dropfilename = sw.args[2]], "drop"))
          [] sw.switch = "debug" -> [s EXCEPT !.c.trace_level = @ + 1]
          [] sw.switch = "flip" ->
                SetKeyword(s, FlipKeys, arg, LAMBDA flip : select_transform(s, flip))
          [] sw.switch = "grayscale" -> [s EXCEPT !.force_grayscale = TRUE]
          [] sw.switch = "icc" -> [s EXCEPT !.icc_filename = arg]
          [] sw.switch = "maxmemory" -> SetMaxMemory(s, arg)
          [] sw.switch = "maxscans" -> If(arg.ok, s, [s EXCEPT !.max_scans = arg.n])
          [] sw.switch = "optimize" -> [s EXCEPT !.c.optimize_coding = TRUE]
          [] sw.switch = "outfile" -> [s EXCEPT !.outfilename = arg]
          [] sw.switch = "perfect" -> [s EXCEPT !.perfect = TRUE]
          [] sw.switch = "progressive" -> [s EXCEPT !.simple_progressive = TRUE]
          [] sw.switch = "report" -> [s EXCEPT !.report = TRUE]
          [] sw.switch = "restart" -> SetRestart(s, arg)
          [] sw.switch = "rotate" ->
                SetKeyword(s, RotateKeys, arg, LAMBDA rotate : select_transform(s, rotate))
          [] sw.switch = "scans" -> [s EXCEPT !.scansarg = arg]
          [] sw.switch = "strict" -> [s EXCEPT !.strict = TRUE]
          [] sw.switch \in {"transpose", "transverse"} -> select_transform(s, sw.switch)
          [] sw.switch = "trim" -> [s EXCEPT !.trim = TRUE]
          [] sw.switch = "wipe" ->
                SetRegion(s, arg, TRUE, LAMBDA r : select_transform(r, "wipe"))
          [] OTHER -> Complains(s)

JpegtranParse(c, line, for_real) ==
    LET start == [c |-> [c EXCEPT !.trace_level = 0], usage |-> line.usage,
                  simple_progressive |-> FALSE, scansarg |-> Nothing, icc_filename |-> Nothing,
                  max_scans |-> 0, outfilename |-> Nothing, report |-> FALSE, strict |-> FALSE,
                  copyoption |-> "comments", transform |-> "none", perfect |-> FALSE,
                  trim |-> FALSE, force_grayscale |-> FALSE, region |-> NoRegion,
                  dropfilename |-> Nothing]
        s == FoldLeft(LAMBDA r, sw : IF r.usage THEN r ELSE JpegtranSwitch(r, sw), start,
                      line.switches)
    IN  IF for_real THEN SettleScans(s) ELSE s

\* The kinds of markers that are saved: comments, ICC profiles, and others.
jcopy_markers_setup(option) ==
    (IF option \in {"none", "icc"} THEN {} ELSE {"COM"})
    \cup (IF option \in {"all", "all_except_icc"} THEN {"APPn"} ELSE {})
    \cup (IF option \in {"all", "icc"} THEN {"APP2"} ELSE {})

\* With a profile that is given those of the file are not copied.
CopyOption(s) ==
    IF s.icc_filename = Nothing THEN s.copyoption
    ELSE IF s.copyoption = "all" THEN "all_except_icc"
    ELSE IF s.copyoption = "icc" THEN "none" ELSE s.copyoption

\* The parameters of the copy are the defaults for the color space of its source; of a gray one
\* there is one component, and a source that has no gray to copy is refused.
CopiedParameters(c, input, force_grayscale) ==
    LET source == jpeg_set_colorspace(
                      jpeg_set_defaults([c EXCEPT !.in_color_space = input.space,
                                                  !.input_components = input.components]),
                      input.space)
    IN  IF force_grayscale THEN jpeg_set_colorspace(source, "gray") ELSE source
HasGray(input) == input.space \in {"YCbCr", "gray"}

\* main(): what is saved of the source, and the transform, go by the first reading of the line;
\* the parameters of the copy are those of the source first and then what the second one has.
JpegtranFails(s, input) ==
    \/ Fails(s, input) \/ s.dropfilename = "missing"
    \/ TooManyScans(s.report, s.max_scans, s.c.trace_level, input.scans)
    \/ s.force_grayscale /\ ~HasGray(input)
JpegtranFirst(line) == JpegtranParse(jpeg_create_compress, line, FALSE)
jpegtran(line, first, input) ==
    LET saved == jcopy_markers_setup(CopyOption(first)) \cap input.markers
        copied == CopiedParameters(first.c, input, first.force_grayscale)
        ended(s, failed, markers) == Ended(first, s, failed) @@ [markers |-> markers]
    IN  IF first.usage \/ JpegtranFails(first, input) THEN ended(first, ~first.usage, {})
        ELSE ended(JpegtranParse(copied, line, TRUE), FALSE, saved)

=============================================================================
