---------------------------- MODULE ArithCoding ----------------------------
(***************************************************************************)
(* The MCUs of the arithmetic coders (jcarith.c, jdarith.c), as binary     *)
(* decisions with their statistics bins, and the coder that turns those    *)
(* into bytes.  s, mcu and block are as in HuffmanCoding.  None of these   *)
(* routines can suspend.                                                   *)
(***************************************************************************)
EXTENDS CodedData

CONSTANTS
    ARITH_DC_L, ARITH_DC_U, ARITH_AC_K,    \* arith_dc_L[], arith_dc_U[], arith_ac_K[]
    LastK                                  \* DCTSIZE2 - 1

FixedBin == <<"fixed">>
DCBin(s, ci, n) == <<"dc", s.dc_tbl[ci], n>>
ACBin(s, ci, n) == <<"ac", s.ac_tbl[ci], n>>
Behind(bin, n) == [bin EXCEPT ![3] = @ + n]

\* The bins of the magnitude category, in the order in which they are asked: in DC the first
\* one follows from the context and the sign; in AC there are two with the first one.
DCCategoryBins(s, ci, st) ==
    [i \in 1 .. 16 |-> IF i = 1 THEN DCBin(s, ci, st) ELSE DCBin(s, ci, 20 + i - 2)]
ACCategoryBins(s, ci, k) ==
    [i \in 1 .. 16 |-> IF i <= 2 THEN ACBin(s, ci, 3 * (k - 1) + 2)
                       ELSE ACBin(s, ci, (IF k <= ARITH_AC_K THEN 189 ELSE 217) + i - 3)]

\* The context of the next DC difference, after one with m in its magnitude category.
DCContext(m, negative) ==
    IF m < (2 ^ ARITH_DC_L) \div 2 THEN 0
    ELSE (IF m > (2 ^ ARITH_DC_U) \div 2 THEN 12 ELSE 4) + (IF negative THEN 4 ELSE 0)

CategoryOf(n) == IF n = 0 THEN 0 ELSE 2 ^ (n - 1)

-----------------------------------------------------------------------------
(* Encoding *)

Decide(e, bin, v) == [e EXCEPT !.out = Append(@, Decision(bin, v))]

\* Figures F.8 and F.9: the category and the bit pattern of a magnitude less one.
EncodeMagnitude(e, bins, w) ==
    LET n == NBits(w)
        category == Through(LAMBDA f, i : Decide(f, bins[i], IF i <= n THEN 1 ELSE 0), e, 1, n + 1)
        bit(f, i) == Decide(f, Behind(bins[n + 1], 14), (w \div 2 ^ (n - 1 - i)) % 2)
    IN  Through(bit, category, 1, n - 1)

\* Figure F.4
EncodeDCDiff(e, s, ci, m) ==
    LET v == m - e.last_dc_val[ci]
        st == e.dc_context[ci]
        sign == IF v < 0 THEN 1 ELSE 0
        signed == Decide(Decide(e, DCBin(s, ci, st), 1), DCBin(s, ci, st + 1), sign)
        w == Absolute(v) - 1
    IN  IF v = 0 THEN [Decide(e, DCBin(s, ci, st), 0) EXCEPT !.dc_context[ci] = 0]
        ELSE [EncodeMagnitude(signed, DCCategoryBins(s, ci, st + 2 + sign), w)
                EXCEPT !.last_dc_val[ci] = m,
                       !.dc_context[ci] = DCContext(CategoryOf(NBits(w)), v < 0)]

EncodeSign(e, v) == Decide(e, FixedBin, IF v < 0 THEN 1 ELSE 0)

\* Figure F.5.  start: an EOB decision is to be made in front of the next coefficient.
EncodeACs(e, s, ci, block, Ss, Se, Al) ==
    LET v(k) == ShiftedAC(block[k], Al)
        nonzero == {k \in Ss .. Se : v(k) # 0}
        ke == IF nonzero = {} THEN Ss - 1 ELSE CHOOSE k \in nonzero : \A j \in nonzero : j <= k
        coef(f, k) ==
            LET st == 3 * (k - 1)
                begun == IF f.start THEN Decide(f, ACBin(s, ci, st), 0) ELSE f
            IN  IF v(k) = 0 THEN [Decide(begun, ACBin(s, ci, st + 1), 0) EXCEPT !.start = FALSE]
                ELSE [EncodeMagnitude(EncodeSign(Decide(begun, ACBin(s, ci, st + 1), 1), block[k]),
                                      ACCategoryBins(s, ci, k), v(k) - 1) EXCEPT !.start = TRUE]
        coded == Through(coef, [e EXCEPT !.start = TRUE], Ss, ke)
    IN  IF ke < Se THEN Decide(coded, ACBin(s, ci, 3 * ke), 1) ELSE coded

emit_restart_arith(e, s) ==
    IF s.restart_interval = 0 THEN e
    ELSE IF e.restarts_to_go # 0 THEN [e EXCEPT !.restarts_to_go = @ - 1]
    ELSE [e EXCEPT !.out = Append(@, Restart(e.next_restart_num)),
                   !.last_dc_val = [ci \in DOMAIN @ |-> 0],
                   !.dc_context = [ci \in DOMAIN @ |-> 0],
                   !.restarts_to_go = s.restart_interval - 1,
                   !.next_restart_num = (@ + 1) % 8]

\* encode_mcu_DC_first() and _AC_first(), and encode_mcu() of sequential images, which is
\* one after the other.
arith_encode_DC_first(e, s, mcu) ==
    Through(LAMBDA f, b : EncodeDCDiff(f, s, mcu[b].ci, ShiftedDC(mcu[b].block[0], s.Al)),
            emit_restart_arith(e, s), 1, Len(mcu))

arith_encode_AC_first(e, s, mcu) ==
    EncodeACs(emit_restart_arith(e, s), s, 1, mcu[1].block, s.Ss, s.Se, s.Al)

arith_encode_mcu(e, s, mcu) ==
    LET block(f, b) == EncodeACs(EncodeDCDiff(f, s, mcu[b].ci, mcu[b].block[0]),
                                 s, mcu[b].ci, mcu[b].block, 1, LastK, 0)
    IN  Through(block, emit_restart_arith(e, s), 1, Len(mcu))

arith_encode_DC_refine(e, s, mcu) ==
    Through(LAMBDA f, b : Decide(f, FixedBin, ShiftedDC(mcu[b].block[0], s.Al) % 2),
            emit_restart_arith(e, s), 1, Len(mcu))

\* kex: the last coefficient of the block that was nonzero in the scans before.
arith_encode_AC_refine(e, s, mcu) ==
    LET block == mcu[1].block
        v(k) == ShiftedAC(block[k], s.Al)
        LastIn(S) == IF S = {} THEN 0 ELSE CHOOSE k \in S : \A j \in S : j <= k
        ke == LastIn({k \in 1 .. s.Se : v(k) # 0})
        kex == LastIn({k \in 1 .. ke : ShiftedAC(block[k], s.Ah) # 0})
        coef(f, k) ==
            LET st == 3 * (k - 1)
                begun == IF f.start /\ k > kex THEN Decide(f, ACBin(s, 1, st), 0) ELSE f
            IN  IF v(k) = 0 THEN [Decide(begun, ACBin(s, 1, st + 1), 0) EXCEPT !.start = FALSE]
                ELSE IF v(k) > 1
                THEN [Decide(begun, ACBin(s, 1, st + 2), v(k) % 2) EXCEPT !.start = TRUE]
                ELSE [EncodeSign(Decide(begun, ACBin(s, 1, st + 1), 1), block[k])
                        EXCEPT !.start = TRUE]
        coded == Through(coef, [emit_restart_arith(e, s) EXCEPT !.start = TRUE], s.Ss, ke)
        k == Biggest(ke + 1, s.Ss)
    IN  IF k <= s.Se THEN Decide(coded, ACBin(s, 1, 3 * (k - 1)), 1) ELSE coded

-----------------------------------------------------------------------------
(* Decoding *)

Ask(d, bin) == Read(d, "decision", bin, 1)

\* Figures F.23 and F.24; the magnitude less one is left in value, the category in m.
DecodeMagnitude(d, bins) ==
    LET category(f, i) ==
            LET asked == Ask(f, bins[i])
            IN  IF f.done THEN f
                ELSE IF asked.value = 0 THEN [asked EXCEPT !.done = TRUE, !.m = CategoryOf(i - 1),
                                                           !.w = CategoryOf(i - 1)]
                ELSE asked
        bits(c, n) ==
            LET bit(f, i) ==
                    LET asked == Ask(f, Behind(bins[n + 1], 14))
                    IN  [asked EXCEPT !.w = @ + asked.value * 2 ^ (n - 1 - i)]
            IN  Through(bit, c, 1, n - 1)
        pattern(c) == bits(c, NBits(c.m))
    IN  pattern(Through(category, [d EXCEPT !.done = FALSE], 1, 16))

DecodeDCDiff(d, s, b, Al) ==
    LET ci == d.mcu[b].ci
        st == d.dc_context[ci]
        known(mag, sign) ==
            [mag EXCEPT !.dc_context[ci] = DCContext(mag.m, sign = 1),
                        !.last_dc_val[ci] =
                            (@ + IF sign = 1 THEN -(mag.w + 1) ELSE mag.w + 1) % 65536]
        signed(f) ==
            known(DecodeMagnitude(f, DCCategoryBins(s, ci, st + 2 + f.value)), f.value)
        asked(f) == IF f.value = 0 THEN [f EXCEPT !.dc_context[ci] = 0]
                    ELSE signed(Ask(f, DCBin(s, ci, st + 1)))
        put(f) == IF ~Ok(f) THEN f
                  ELSE [f EXCEPT !.mcu[b].block[0] = AsJCOEF(f.last_dc_val[ci] * 2 ^ Al)]
    IN  put(asked(Ask(d, DCBin(s, ci, st))))

DecodeACs(d, s, b, Ss, Se, Al) ==
    LET ci == d.mcu[b].ci
        known(mag, sign, k) ==
            LET v == (mag.w + 1) * 2 ^ Al
            IN  IF ~Ok(mag) THEN mag
                ELSE [mag EXCEPT !.start = TRUE,
                                 !.mcu[b].block[k] = AsJCOEF(IF sign = 1 THEN -v ELSE v)]
        signed(f, k) == known(DecodeMagnitude(f, ACCategoryBins(s, ci, k)), f.value, k)
        asked(f, k) ==
            IF f.value = 1 THEN signed(Ask(f, FixedBin), k)
            ELSE IF k = Se THEN [f EXCEPT !.state = "wrong"] ELSE [f EXCEPT !.start = FALSE]
        begun(f, k) == IF f.start /\ f.value = 1 THEN [f EXCEPT !.eob = TRUE]
                       ELSE asked(Ask(f, ACBin(s, ci, 3 * (k - 1) + 1)), k)
        coef(f, k) ==
            IF f.eob \/ ~Ok(f) THEN f
            ELSE begun(IF f.start THEN Ask(f, ACBin(s, ci, 3 * (k - 1))) ELSE f, k)
    IN  Through(coef, [d EXCEPT !.start = TRUE, !.eob = FALSE], Ss, Se)

process_restart_arith(d, s) ==
    LET read == Read(d, "restart", <<>>, 0)
    IN  IF s.restart_interval = 0 THEN d
        ELSE IF d.restarts_to_go # 0 THEN [d EXCEPT !.restarts_to_go = @ - 1]
        ELSE IF ~Ok(read) THEN [read EXCEPT !.state = "wrong"]
        ELSE IF read.value # d.next_restart_num THEN [read EXCEPT !.state = "wrong"]
        ELSE [read EXCEPT !.last_dc_val = [ci \in DOMAIN @ |-> 0],
                          !.dc_context = [ci \in DOMAIN @ |-> 0],
                          !.restarts_to_go = s.restart_interval - 1,
                          !.next_restart_num = (@ + 1) % 8]

arith_decode_DC_first(d, s) ==
    Through(LAMBDA f, b : DecodeDCDiff(f, s, b, s.Al), process_restart_arith(d, s), 1, Len(d.mcu))

arith_decode_AC_first(d, s) ==
    DecodeACs(process_restart_arith(d, s), s, 1, s.Ss, s.Se, s.Al)

arith_decode_mcu(d, s) ==
    Through(LAMBDA f, b : DecodeACs(DecodeDCDiff(f, s, b, 0), s, b, 1, LastK, 0),
            process_restart_arith(d, s), 1, Len(d.mcu))

arith_decode_DC_refine(d, s) ==
    LET bit(f, b) ==
            LET asked == Ask(f, FixedBin)
            IN  IF Ok(asked) /\ asked.value = 1 /\ ~HasBit(f.mcu[b].block[0], s.Al)
                THEN [asked EXCEPT !.mcu[b].block[0] = @ + 2 ^ s.Al] ELSE asked
    IN  Through(bit, process_restart_arith(d, s), 1, Len(d.mcu))

arith_decode_AC_refine(d, s) ==
    LET Bin(k, n) == ACBin(s, 1, 3 * (k - 1) + n)
        old(f, k) ==
            [f EXCEPT !.start = TRUE,
                      !.mcu[1].block[k] = IF f.value = 0 THEN @
                                          ELSE IF @ < 0 THEN @ - 2 ^ s.Al ELSE @ + 2 ^ s.Al]
        new(f, k) ==
            [f EXCEPT !.start = TRUE,
                      !.mcu[1].block[k] = IF f.value = 1 THEN -(2 ^ s.Al) ELSE 2 ^ s.Al]
        asked(f, k) ==
            IF f.value = 1 THEN new(Ask(f, FixedBin), k)
            ELSE IF k = s.Se THEN [f EXCEPT !.state = "wrong"] ELSE [f EXCEPT !.start = FALSE]
        begun(f, k, ends) ==
            IF ends /\ f.value = 1 THEN [f EXCEPT !.eob = TRUE]
            ELSE IF f.mcu[1].block[k] # 0 THEN old(Ask(f, Bin(k, 2)), k)
            ELSE asked(Ask(f, Bin(k, 1)), k)
        coef(f, k, ends) == begun(IF ends THEN Ask(f, Bin(k, 0)) ELSE f, k, ends)
        \* kex: the last coefficient that was nonzero before this scan.
        band(d1, kex) ==
            Through(LAMBDA f, k : IF f.eob \/ ~Ok(f) THEN f ELSE coef(f, k, f.start /\ k > kex),
                    d1, s.Ss, s.Se)
        started(d1) ==
            LET nonzero == {k \in 1 .. s.Se : d1.mcu[1].block[k] # 0}
                highest == CHOOSE k \in nonzero : \A j \in nonzero : j <= k
            IN  band(d1, IF nonzero = {} THEN 0 ELSE highest)
    IN  started([process_restart_arith(d, s) EXCEPT !.start = TRUE, !.eob = FALSE])

-----------------------------------------------------------------------------
(* The binary arithmetic coder itself, register by register: how a         *)
(* sequence of decisions, each with its statistics bin, becomes bytes, and  *)
(* how the bytes become decisions again.                                    *)

\* jpeg_aritab[]: Qe_Value, Next_Index_LPS, Next_Index_MPS, Switch_MPS; index from 0 on.
jpeg_aritab == <<
    <<23069, 1, 1, 1>>, <<9606, 14, 2, 0>>, <<4372, 16, 3, 0>>, <<2059, 18, 4, 0>>,
    <<984, 20, 5, 0>>, <<474, 23, 6, 0>>, <<229, 25, 7, 0>>, <<111, 28, 8, 0>>,
    <<54, 30, 9, 0>>, <<26, 33, 10, 0>>, <<13, 35, 11, 0>>, <<6, 9, 12, 0>>,
    <<3, 10, 13, 0>>, <<1, 12, 13, 0>>, <<23167, 15, 15, 1>>, <<16165, 36, 16, 0>>,
    <<11506, 38, 17, 0>>, <<8316, 39, 18, 0>>, <<6073, 40, 19, 0>>, <<4482, 42, 20, 0>>,
    <<3311, 43, 21, 0>>, <<2465, 45, 22, 0>>, <<1839, 46, 23, 0>>, <<1372, 48, 24, 0>>,
    <<1030, 49, 25, 0>>, <<771, 51, 26, 0>>, <<576, 52, 27, 0>>, <<433, 54, 28, 0>>,
    <<324, 56, 29, 0>>, <<245, 57, 30, 0>>, <<183, 59, 31, 0>>, <<138, 60, 32, 0>>,
    <<104, 62, 33, 0>>, <<78, 63, 34, 0>>, <<59, 32, 35, 0>>, <<44, 33, 9, 0>>,
    <<23265, 37, 37, 1>>, <<18508, 64, 38, 0>>, <<14861, 65, 39, 0>>,
    <<12017, 67, 40, 0>>, <<9759, 68, 41, 0>>, <<7987, 69, 42, 0>>, <<6568, 70, 43, 0>>,
    <<5400, 72, 44, 0>>, <<4471, 73, 45, 0>>, <<3700, 74, 46, 0>>, <<3067, 75, 47, 0>>,
    <<2552, 77, 48, 0>>, <<2145, 78, 49, 0>>, <<1798, 79, 50, 0>>, <<1485, 48, 51, 0>>,
    <<1246, 50, 52, 0>>, <<1039, 50, 53, 0>>, <<867, 51, 54, 0>>, <<724, 52, 55, 0>>,
    <<604, 53, 56, 0>>, <<504, 54, 57, 0>>, <<420, 55, 58, 0>>, <<352, 56, 59, 0>>,
    <<293, 57, 60, 0>>, <<246, 58, 61, 0>>, <<203, 59, 62, 0>>, <<171, 61, 63, 0>>,
    <<143, 61, 32, 0>>, <<23314, 65, 65, 1>>, <<19716, 80, 66, 0>>,
    <<16684, 81, 67, 0>>, <<14296, 82, 68, 0>>, <<12264, 83, 69, 0>>,
    <<10556, 84, 70, 0>>, <<9081, 86, 71, 0>>, <<7903, 87, 72, 0>>, <<6825, 87, 73, 0>>,
    <<5966, 72, 74, 0>>, <<5156, 72, 75, 0>>, <<4508, 74, 76, 0>>, <<3947, 74, 77, 0>>,
    <<3409, 75, 78, 0>>, <<2998, 77, 79, 0>>, <<2624, 77, 48, 0>>, <<22578, 80, 81, 1>>,
    <<19740, 88, 82, 0>>, <<17294, 89, 83, 0>>, <<15325, 90, 84, 0>>,
    <<13550, 91, 85, 0>>, <<11950, 92, 86, 0>>, <<10650, 93, 87, 0>>,
    <<9494, 86, 71, 0>>, <<21872, 88, 89, 1>>, <<19625, 95, 90, 0>>,
    <<17625, 96, 91, 0>>, <<15906, 97, 92, 0>>, <<14372, 99, 93, 0>>,
    <<12980, 99, 94, 0>>, <<11799, 93, 86, 0>>, <<22184, 95, 96, 1>>,
    <<20294, 101, 97, 0>>, <<18405, 102, 98, 0>>, <<16847, 103, 99, 0>>,
    <<15421, 104, 100, 0>>, <<14174, 99, 93, 0>>, <<21041, 105, 102, 0>>,
    <<19471, 106, 103, 0>>, <<17977, 107, 104, 0>>, <<16734, 103, 99, 0>>,
    <<22055, 105, 106, 1>>, <<20711, 108, 107, 0>>, <<19333, 109, 103, 0>>,
    <<21911, 110, 109, 0>>, <<20559, 111, 107, 0>>, <<23056, 110, 111, 1>>,
    <<21794, 112, 109, 0>>, <<23019, 112, 111, 1>>, <<23069, 113, 113, 0>>
>>

\* A statistics bin: its index into the table, and the more probable symbol (bit 7).
Fresh(bin) == IF bin = <<"fixed">> THEN [index |-> 113, mps |-> 0] ELSE [index |-> 0, mps |-> 0]
Bins(stats, bin) == IF bin \in DOMAIN stats THEN stats[bin] ELSE Fresh(bin)
WithBin(stats, bin, v) == [b \in DOMAIN stats \cup {bin} |-> IF b = bin THEN v ELSE stats[b]]

Qe(sv) == jpeg_aritab[sv.index + 1][1]
AfterLPS(sv) == [index |-> jpeg_aritab[sv.index + 1][2],
                 mps |-> (sv.mps + jpeg_aritab[sv.index + 1][4]) % 2]
AfterMPS(sv) == [sv EXCEPT !.index = jpeg_aritab[sv.index + 1][3]]

-----------------------------------------------------------------------------
(* Encoding.  buffer: the last byte, -1 if none; sc: the 0xFF bytes, zc: the 00 bytes that  *)
(* wait in front of and behind it for a carry, or for a byte that is not 00.                *)

StartEncoder == [c |-> 0, a |-> 65536, sc |-> 0, zc |-> 0, ct |-> 11, buffer |-> -1,
                 bytes |-> <<>>, stats |-> <<>>]

Times(n, bytes) == [i \in 1 .. n * Len(bytes) |-> bytes[((i - 1) % Len(bytes)) + 1]]
Stuffed(b) == IF b = 255 THEN <<255, 0>> ELSE <<b>>

EmitZeros(e) == [e EXCEPT !.bytes = @ \o Times(e.zc, <<0>>), !.zc = 0]
emit_byte(e, b) == [e EXCEPT !.bytes = @ \o Stuffed(b)]

\* Mutant of Carried: the 0xFF bytes that become 00 by the carry are forgotten.
Carried_StackLost(e) ==
    [(IF e.buffer >= 0 THEN emit_byte(EmitZeros(e), e.buffer + 1) ELSE e) EXCEPT !.sc = 0]

\* The carry reaches the last byte that was not 0xFF.
Carried(e) ==
    LET out == IF e.buffer >= 0 THEN emit_byte(EmitZeros(e), e.buffer + 1) ELSE e
    IN  [out EXCEPT !.zc = @ + e.sc, !.sc = 0]

\* There can be no carry any more.
NotCarried(e) ==
    LET last == IF e.buffer = 0 THEN [e EXCEPT !.zc = @ + 1]
                ELSE IF e.buffer < 0 THEN e
                ELSE [EmitZeros(e) EXCEPT !.bytes = Append(@, e.buffer)]
    IN  IF e.sc = 0 THEN last
        ELSE [EmitZeros(last) EXCEPT !.bytes = @ \o Times(e.sc, <<255, 0>>), !.sc = 0]

\* Another byte is ready.
ByteOut(e) ==
    LET temp == e.c \div 2 ^ 19
        out == IF temp > 255 THEN [Carried(e) EXCEPT !.buffer = temp % 256]
               ELSE IF temp = 255 THEN [e EXCEPT !.sc = @ + 1]
               ELSE [NotCarried(e) EXCEPT !.buffer = temp]
    IN  [out EXCEPT !.c = @ % 2 ^ 19, !.ct = @ + 8]

\* One turn of the renormalization.
RenormE(e) ==
    LET doubled == [e EXCEPT !.a = 2 * @, !.c = 2 * @, !.ct = @ - 1]
    IN  IF e.ct = 1 THEN ByteOut(doubled) ELSE doubled

arith_encode(e, bin, val) ==
    LET sv == Bins(e.stats, bin)
        qe == Qe(sv)
        a == e.a - qe
        lps == val # sv.mps
        exchanged == IF lps THEN a >= qe ELSE a < qe
        next == [e EXCEPT !.c = IF exchanged THEN @ + a ELSE @,
                          !.a = IF exchanged THEN qe ELSE a,
                          !.stats = WithBin(@, bin, IF lps THEN AfterLPS(sv) ELSE AfterMPS(sv))]
        turn(f, i) == IF i > 1 /\ f.a >= 32768 THEN f ELSE RenormE(f)
    IN  IF ~lps /\ a >= 32768 THEN [e EXCEPT !.a = a]
        ELSE Through(turn, next, 1, 17)

\* finish_pass(): the shortest code within the interval; final 00 bytes are left out.
finish_pass(e) ==
    LET temp == ((e.a - 1 + e.c) \div 65536) * 65536
        c == (IF temp < e.c THEN temp + 32768 ELSE temp) * 2 ^ e.ct
        out == IF c >= 2 ^ 27 THEN Carried(e) ELSE NotCarried(e)
        first == (c \div 2 ^ 19) % 256
        second == (c \div 2 ^ 11) % 256
        one == emit_byte(EmitZeros(out), first)
    IN  IF first = 0 /\ second = 0 THEN out.bytes
        ELSE IF second = 0 THEN one.bytes ELSE emit_byte(one, second).bytes

Encoded(decisions) ==
    finish_pass(Through(LAMBDA e, i : arith_encode(e, decisions[i].at, decisions[i].value),
                        StartEncoder, 1, Len(decisions)))

-----------------------------------------------------------------------------
(* Decoding *)

StartDecoder(bytes) == [c |-> 0, a |-> 0, ct |-> -16, pos |-> 1, bytes |-> bytes,
                        stats |-> <<>>, got |-> <<>>]

\* A byte of data, and how many bytes it takes; behind the data there is a marker, which is
\* zero data from then on.
DataByte(d) ==
    IF d.pos > Len(d.bytes) THEN [value |-> 0, taken |-> 0]
    ELSE [value |-> d.bytes[d.pos], taken |-> IF d.bytes[d.pos] = 255 THEN 2 ELSE 1]

\* One turn of the renormalization.
RenormD(d) ==
    LET data == DataByte(d)
        ct8 == d.ct + 7
        more == [d EXCEPT !.c = @ * 256 + data.value, !.pos = @ + data.taken,
                          !.ct = IF ct8 < 0 THEN ct8 + 1 ELSE ct8,
                          !.a = IF ct8 = -1 THEN 32768 ELSE @]
        filled == IF d.ct - 1 < 0 THEN more ELSE [d EXCEPT !.ct = @ - 1]
    IN  [filled EXCEPT !.a = 2 * @]

arith_decode(d, bin) ==
    LET turn(f, i) == IF f.a >= 32768 THEN f ELSE RenormD(f)
        told(r, sv, qe, a) ==
            LET upper == r.c >= a * 2 ^ r.ct
                lps == IF upper THEN a >= qe ELSE a < 32768 /\ a < qe
                estimated == upper \/ a < 32768
            IN  [r EXCEPT !.c = IF upper THEN @ - a * 2 ^ r.ct ELSE @,
                          !.a = IF upper THEN qe ELSE a,
                          !.stats = IF ~estimated THEN @
                                    ELSE WithBin(@, bin, IF lps THEN AfterLPS(sv)
                                                               ELSE AfterMPS(sv)),
                          !.got = Append(@, IF lps THEN 1 - sv.mps ELSE sv.mps)]
        within(r, sv) == told(r, sv, Qe(sv), r.a - Qe(sv))
        renormed(r) == within(r, Bins(r.stats, bin))
    IN  renormed(Through(turn, d, 1, 18))

Decoded(bytes, bins) ==
    Through(LAMBDA d, i : arith_decode(d, bins[i]), StartDecoder(bytes), 1, Len(bins)).got

\* What is decoded with the bins of the decisions is what was decided; and the code does not
\* end in a zero byte but for a stuffed one.
CodesDecisions(decisions) ==
    \E bytes \in {Encoded(decisions)} :
        /\ Decoded(bytes, [i \in DOMAIN decisions |-> decisions[i].at])
           = [i \in DOMAIN decisions |-> decisions[i].value]
        /\ bytes # <<>> /\ bytes[Len(bytes)] = 0
           => Len(bytes) > 1 /\ bytes[Len(bytes) - 1] = 255

=============================================================================
