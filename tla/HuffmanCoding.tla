--------------------------- MODULE HuffmanCoding ---------------------------
(***************************************************************************)
(* The MCUs of the Huffman coders: sequential (jchuff.c, jdhuff.c) and     *)
(* progressive (jcphuff.c, jdphuff.c).  A block is a function from zigzag   *)
(* positions to coefficients, an MCU a sequence of [ci, block]; s is the   *)
(* scan, with its Ss, Se, Ah, Al, the tables of its components, and the    *)
(* restart interval.                                                       *)
(*                                                                         *)
(* And the tables: their making from the counts of the symbols             *)
(* (jpeg_gen_optimal_table() of jchuff.c), and what the encoder and the    *)
(* decoder derive from them (jpeg_make_c_derived_tbl() there,              *)
(* jpeg_make_d_derived_tbl() and jpeg_huff_decode() of jdhuff.c).          *)
(***************************************************************************)
EXTENDS CodedData, TLC

CONSTANTS
    DCTSIZE2,        \* coefficients in a block
    EOBRUN_BITS,     \* an EOB run is less than 2 ^ EOBRUN_BITS (15 in the code)
    MAX_CORR_BITS    \* the size of the correction bit buffer (1000)

DCTable(s, ci) == <<"dc", s.dc_tbl[ci]>>
ACTable(s, ci) == <<"ac", s.ac_tbl[ci]>>

-----------------------------------------------------------------------------
(* Encoding *)

\* In a pass that gathers statistics symbols are counted and bits are nothing.
EmitSymbol(e, table, r, n) ==
    IF e.gather THEN [e EXCEPT !.counted = @ \cup {Symbol(table, r, n)}]
    ELSE [e EXCEPT !.out = Append(@, Symbol(table, r, n))]

EmitBits(e, n, v) ==
    IF e.gather \/ n = 0 THEN e ELSE [e EXCEPT !.out = Append(@, RawBits(n, v % 2 ^ n))]

EmitBuffered(e, bits) ==
    IF e.gather THEN e ELSE [e EXCEPT !.out = @ \o [i \in DOMAIN bits |-> RawBits(1, bits[i])]]

emit_eobrun(e, s) ==
    LET coded(nbits) ==
            IF nbits > EOBRUN_BITS - 1 THEN [e EXCEPT !.error = "JERR_HUFF_MISSING_CODE"]
            ELSE [EmitBuffered(EmitBits(EmitSymbol(e, ACTable(s, 1), nbits, 0), nbits, e.EOBRUN),
                               e.BE) EXCEPT !.EOBRUN = 0, !.BE = <<>>]
    IN  IF e.EOBRUN = 0 THEN e ELSE coded(NBits(e.EOBRUN) - 1)

\* emit_restart(), called before an MCU if the interval has ended, and the counting after it.
emit_restart(e, s) ==
    LET sent(done) ==
            IF done.gather THEN done
            ELSE [done EXCEPT !.out = Append(@, Restart(done.next_restart_num))]
        reset(f) == IF s.Ss = 0 THEN [f EXCEPT !.last_dc_val = [ci \in DOMAIN @ |-> 0]]
                    ELSE [f EXCEPT !.EOBRUN = 0, !.BE = <<>>]
    IN  IF s.restart_interval = 0 \/ e.restarts_to_go # 0 THEN e
        ELSE reset(sent(IF s.progressive THEN emit_eobrun(e, s) ELSE e))

CountRestart(e, s) ==
    IF s.restart_interval = 0 THEN e
    ELSE IF e.restarts_to_go # 0 THEN [e EXCEPT !.restarts_to_go = @ - 1]
    ELSE [e EXCEPT !.restarts_to_go = s.restart_interval - 1,
                   !.next_restart_num = (@ + 1) % 8]

\* A DC coefficient, point-transformed already.
EncodeDC(e, s, ci, v) ==
    LET diff == v - e.last_dc_val[ci]
        n == NBits(Absolute(diff))
    IN  EmitBits(EmitSymbol([e EXCEPT !.last_dc_val[ci] = v], DCTable(s, ci), 0, n),
                 n, BitsOf(diff, n))

EmitZRLs(e, table) == Through(LAMBDA f, i : EmitSymbol(f, table, 15, 0), e, 1, e.r \div 16)

\* encode_one_block(): the coefficients behind DC.
EncodeBlock(e, s, ci, block) ==
    LET table == ACTable(s, ci)
        kloop(f, k) ==
            LET n == NBits(Absolute(block[k]))
            IN  IF block[k] = 0 THEN [f EXCEPT !.r = @ + 1]
                ELSE [EmitBits(EmitSymbol(EmitZRLs(f, table), table, f.r % 16, n),
                               n, BitsOf(block[k], n)) EXCEPT !.r = 0]
        ended(coded) == IF coded.r > 0 THEN EmitSymbol(coded, table, 0, 0) ELSE coded
    IN  ended(Through(kloop, [EncodeDC(e, s, ci, block[0]) EXCEPT !.r = 0], 1, DCTSIZE2 - 1))

encode_mcu_huff(e, s, mcu) ==
    CountRestart(Through(LAMBDA f, b : EncodeBlock(f, s, mcu[b].ci, mcu[b].block),
                         emit_restart(e, s), 1, Len(mcu)), s)

\* htest_one_block(), which has code of its own for what encode_one_block() does.
htest_one_block(e, s, ci, block) ==
    LET ac == ACTable(s, ci)
        zeros(k) == k - 1 - (CHOOSE j \in 0 .. k - 1 :
                               /\ j = 0 \/ block[j] # 0
                               /\ \A i \in j + 1 .. k - 1 : block[i] = 0)
        nonzero == {k \in 1 .. DCTSIZE2 - 1 : block[k] # 0}
    IN  [e EXCEPT !.counted = @
           \cup {Symbol(DCTable(s, ci), 0, NBits(Absolute(block[0] - e.last_dc_val[ci])))}
           \cup {Symbol(ac, 15, 0) : k \in {j \in nonzero : zeros(j) > 15}}
           \cup {Symbol(ac, zeros(k) % 16, NBits(Absolute(block[k]))) : k \in nonzero}
           \cup (IF block[DCTSIZE2 - 1] = 0 THEN {Symbol(ac, 0, 0)} ELSE {})]

\* Mutant of encode_mcu_gather: the predictions are not reset at a restart.
encode_mcu_gather_NoReset(e, s, mcu) ==
    LET tested(f, b) == [htest_one_block(f, s, mcu[b].ci, mcu[b].block)
                           EXCEPT !.last_dc_val[mcu[b].ci] = mcu[b].block[0]]
    IN  Through(tested, e, 1, Len(mcu))

encode_mcu_gather(e, s, mcu) ==
    LET restarted ==
            IF s.restart_interval = 0 THEN e
            ELSE IF e.restarts_to_go # 0 THEN [e EXCEPT !.restarts_to_go = @ - 1]
            ELSE [e EXCEPT !.last_dc_val = [ci \in DOMAIN @ |-> 0],
                           !.restarts_to_go = s.restart_interval - 1]
        tested(f, b) == [htest_one_block(f, s, mcu[b].ci, mcu[b].block)
                           EXCEPT !.last_dc_val[mcu[b].ci] = mcu[b].block[0]]
    IN  Through(tested, restarted, 1, Len(mcu))

encode_mcu_DC_first(e, s, mcu) ==
    CountRestart(
        Through(LAMBDA f, b : EncodeDC(f, s, mcu[b].ci, ShiftedDC(mcu[b].block[0], s.Al)),
                emit_restart(e, s), 1, Len(mcu)), s)

\* Mutant of CountEOB: the next block may add as many bits as it has coefficients, and one
\* more than there is room for.
CountEOB_OffByOne(e, s, correction) ==
    LET counted == [e EXCEPT !.EOBRUN = @ + 1, !.BE = @ \o correction]
    IN  IF \/ counted.EOBRUN = 2 ^ EOBRUN_BITS - 1
           \/ Len(counted.BE) > MAX_CORR_BITS - DCTSIZE2 + 2
        THEN emit_eobrun(counted, s) ELSE counted

\* An EOB is counted; it is forced out before the run or the buffer could overflow.
CountEOB(e, s, correction) ==
    LET counted == [e EXCEPT !.EOBRUN = @ + 1, !.BE = @ \o correction]
    IN  IF \/ counted.EOBRUN = 2 ^ EOBRUN_BITS - 1
           \/ Len(counted.BE) > MAX_CORR_BITS - DCTSIZE2 + 1
        THEN emit_eobrun(counted, s) ELSE counted

encode_mcu_AC_first(e, s, mcu) ==
    LET block == mcu[1].block
        table == ACTable(s, 1)
        v(k) == ShiftedAC(block[k], s.Al)
        coef(f, k) ==
            LET n == NBits(v(k))
            IN  IF v(k) = 0 THEN [f EXCEPT !.r = @ + 1]
                ELSE [EmitBits(EmitSymbol(EmitZRLs(f, table), table, f.r % 16, n), n,
                               BitsOf(IF block[k] < 0 THEN -v(k) ELSE v(k), n)) EXCEPT !.r = 0]
        begun(f) == IF \E k \in s.Ss .. s.Se : v(k) # 0 THEN emit_eobrun(f, s) ELSE f
        ended(coded) == IF coded.r > 0 THEN CountEOB(coded, s, <<>>) ELSE coded
    IN  CountRestart(ended(Through(coef, [begun(emit_restart(e, s)) EXCEPT !.r = 0], s.Ss, s.Se)),
                     s)

encode_mcu_DC_refine(e, s, mcu) ==
    CountRestart(
        Through(LAMBDA f, b : EmitBits(f, 1, ShiftedDC(mcu[b].block[0], s.Al)),
                emit_restart(e, s), 1, Len(mcu)), s)

\* BR: the correction bits since the last symbol; most: (history) how full the buffer was.
encode_mcu_AC_refine(e, s, mcu) ==
    LET block == mcu[1].block
        table == ACTable(s, 1)
        v(k) == ShiftedAC(block[k], s.Al)
        newly == {k \in s.Ss .. s.Se : v(k) = 1}
        ZRL(f, i) == [EmitBuffered(EmitSymbol(emit_eobrun(f, s), table, 15, 0), f.BR)
                        EXCEPT !.r = @ - 16, !.BR = <<>>]
        old(f, k) ==
            LET more == Append(f.BR, v(k) % 2)
            IN  [f EXCEPT !.BR = more, !.most = Biggest(@, Len(f.BE) + Len(more))]
        new(f, k) ==
            [EmitBuffered(EmitBits(EmitSymbol(emit_eobrun(f, s), table, f.r % 16, 1), 1,
                                   IF block[k] < 0 THEN 0 ELSE 1), f.BR)
                EXCEPT !.r = 0, !.BR = <<>>]
        nonzero(runs, k) == IF v(k) > 1 THEN old(runs, k) ELSE new(runs, k)
        coef(f, k) ==
            IF v(k) = 0 THEN [f EXCEPT !.r = @ + 1]
            ELSE nonzero(IF \E j \in newly : k <= j THEN Through(ZRL, f, 1, f.r \div 16) ELSE f, k)
        ended(coded) == IF coded.r > 0 \/ coded.BR # <<>> THEN CountEOB(coded, s, coded.BR)
                        ELSE coded
    IN  CountRestart(ended(Through(coef, [emit_restart(e, s) EXCEPT !.r = 0, !.BR = <<>>],
                                   s.Ss, s.Se)), s)

-----------------------------------------------------------------------------
(* Decoding *)

\* process_restart(), called before an MCU; what it does stays done if the MCU suspends.
process_restart(d, s) ==
    LET read == Read(d, "restart", <<>>, 0)
    IN  IF s.restart_interval = 0 \/ d.restarts_to_go # 0 THEN d
        ELSE IF ~Ok(read) THEN read
        ELSE IF read.value # d.next_restart_num THEN [read EXCEPT !.state = "wrong"]
        ELSE [read EXCEPT !.last_dc_val = [ci \in DOMAIN @ |-> 0], !.EOBRUN = 0,
                          !.restarts_to_go = s.restart_interval,
                          !.next_restart_num = (@ + 1) % 8]

RestartCounted(d, s) ==
    IF s.restart_interval = 0 THEN d ELSE [d EXCEPT !.restarts_to_go = @ - 1]

\* A number of "size" bits.
DecodeBits(d, size) ==
    IF size = 0 THEN [d EXCEPT !.value = 0] ELSE Read(d, "bits", <<>>, size)

DecodeDC(d, s, b) ==
    LET ci == d.mcu[b].ci
        size == Read(d, "symbol", DCTable(s, ci), 0)
        bits == DecodeBits(size, size.value)
        v == Extended(bits.value, size.value) + d.last_dc_val[ci]
    IN  IF ~Ok(size) THEN size ELSE IF ~Ok(bits) THEN bits
        ELSE [bits EXCEPT !.last_dc_val[ci] = v, !.mcu[b].block[0] = AsJCOEF(v * 2 ^ s.Al)]

decode_mcu_DC_first(d, s) ==
    RestartCounted(Through(LAMBDA f, b : IF Ok(f) THEN DecodeDC(f, s, b) ELSE f,
                           d, 1, Len(d.mcu)), s)

\* One turn of the loop over the coefficients from k on of a block that is coded for the
\* first time; last is the end of the band, run whether an EOB may stand for a run of them.
DecodeCoef(d, table, b, k, last, Al, run) ==
    LET rs == Read(d, "symbol", table, 0)
        bits == DecodeBits(rs, rs.value)
        eob == DecodeBits(rs, rs.n)
    IN  IF ~Ok(d) \/ k < d.k THEN d
        ELSE IF ~Ok(rs) THEN rs
        ELSE IF rs.value # 0 THEN
            IF k + rs.n > last THEN [rs EXCEPT !.state = "wrong"]
            ELSE IF ~Ok(bits) THEN bits
            ELSE [bits EXCEPT !.mcu[b].block[k + rs.n] =
                                   AsJCOEF(Extended(bits.value, rs.value) * 2 ^ Al),
                              !.k = k + rs.n + 1]
        ELSE IF rs.n = 15 THEN [rs EXCEPT !.k = k + 16]
        ELSE IF ~run THEN [rs EXCEPT !.k = last + 1]
        ELSE IF ~Ok(eob) THEN eob
        ELSE [eob EXCEPT !.EOBRUN = 2 ^ rs.n + eob.value - 1, !.k = last + 1]

decode_mcu_AC_first(d, s) ==
    LET coef(f, k) == DecodeCoef(f, ACTable(s, 1), 1, k, s.Se, s.Al, TRUE)
    IN  RestartCounted(IF d.EOBRUN > 0 THEN [d EXCEPT !.EOBRUN = @ - 1]
                       ELSE Through(coef, [d EXCEPT !.k = s.Ss], s.Ss, s.Se), s)

\* decode_mcu_slow() and decode_mcu_fast()
decode_mcu_huff(d, s) ==
    LET block(f, b) ==
            LET coef(g, k) ==
                    DecodeCoef(g, ACTable(s, g.mcu[b].ci), b, k, DCTSIZE2 - 1, 0, FALSE)
            IN  Through(coef, [(IF Ok(f) THEN DecodeDC(f, s, b) ELSE f) EXCEPT !.k = 1],
                        1, DCTSIZE2 - 1)
    IN  RestartCounted(Through(block, d, 1, Len(d.mcu)), s)

decode_mcu_DC_refine(d, s) ==
    LET bit(f, b) ==
            LET read == Read(f, "bits", <<>>, 1)
                v == f.mcu[b].block[0]
            IN  IF Ok(read) /\ read.value = 1 /\ ~HasBit(v, s.Al)
                THEN [read EXCEPT !.mcu[b].block[0] = v + 2 ^ s.Al] ELSE read
    IN  RestartCounted(Through(bit, d, 1, Len(d.mcu)), s)

\* A correction bit for the coefficient at k, which a suspended call may have added already.
Corrected(d, s, k) ==
    LET read == Read(d, "bits", <<>>, 1)
        v == d.mcu[1].block[k]
        p1 == 2 ^ s.Al
    IN  IF Ok(read) /\ read.value = 1 /\ ~HasBit(v, s.Al)
        THEN [read EXCEPT !.mcu[1].block[k] = IF v >= 0 THEN v + p1 ELSE v - p1]
        ELSE read

\* One position of the band.  symbol: one is to be read here; r: zeros still to pass;
\* new: the coefficient to be put behind them (0 for ZRL).
RefineCoef(d, s, k) ==
    LET rs == Read(d, "symbol", ACTable(s, 1), 0)
        sign == Read(rs, "bits", <<>>, 1)
        eob == DecodeBits(rs, rs.n)
        read == IF ~d.symbol THEN d
                 ELSE IF rs.value # 0
                 THEN [sign EXCEPT !.r = rs.n, !.symbol = FALSE,
                                   !.new = IF sign.value = 1 THEN 2 ^ s.Al ELSE -(2 ^ s.Al)]
                 ELSE IF rs.n = 15 THEN [rs EXCEPT !.r = 15, !.symbol = FALSE, !.new = 0]
                 ELSE [eob EXCEPT !.EOBRUN = 2 ^ rs.n + eob.value, !.symbol = FALSE]
        passed(asked) ==
            IF ~Ok(asked) THEN asked
            ELSE IF asked.mcu[1].block[k] # 0 THEN Corrected(asked, s, k)
            ELSE IF asked.EOBRUN > 0 THEN asked
            ELSE IF asked.r > 0 THEN [asked EXCEPT !.r = @ - 1]
            ELSE IF asked.new = 0 THEN [asked EXCEPT !.symbol = TRUE]
            ELSE [asked EXCEPT !.symbol = TRUE, !.mcu[1].block[k] = asked.new,
                               !.newnz = @ \cup {k}]
    IN  IF ~Ok(d) THEN d
        ELSE IF d.EOBRUN > 0
        THEN IF d.mcu[1].block[k] # 0 THEN Corrected(d, s, k) ELSE d
        ELSE IF d.symbol /\ ~Ok(rs) THEN rs
        ELSE passed(read)

\* Mutant of UndoIt: nothing is undone.
UndoIt_Not(d) == d

\* undoit: what was made newly nonzero is made zero again.
UndoIt(d) == [d EXCEPT !.mcu[1].block = [k \in DOMAIN @ |-> IF k \in d.newnz THEN 0 ELSE @[k]]]

decode_mcu_AC_refine(d, s) ==
    LET ended(refined) == IF ~Ok(refined) THEN UndoIt(refined)
                          ELSE [refined EXCEPT !.EOBRUN = IF @ > 0 THEN @ - 1 ELSE @]
    IN  RestartCounted(ended(Through(LAMBDA f, k : RefineCoef(f, s, k),
                                     [d EXCEPT !.symbol = TRUE, !.newnz = {}], s.Ss, s.Se)), s)

-----------------------------------------------------------------------------
(* Huffman tables: a table is [bits, huffval]: how many codes there are of *)
(* each length, and the symbols in the order of the codes.  "bad" stands   *)
(* for ERREXIT.                                                            *)

MAX_CLEN == 32
HUFF_LOOKAHEAD == 8
Lengths == 1 .. 16

-----------------------------------------------------------------------------
\* Of the symbols that are left the one of the least count, the last of several.
Least(freq, symbols) ==
    CHOOSE c \in symbols :
        \A d \in symbols : freq[c] < freq[d] \/ (d <= c /\ freq[c] = freq[d])

\* Two of the trees become one, freq being what is left of the counts and others the chains of
\* the symbols of a tree.
Merged(e, k) ==
    LET left == {s \in DOMAIN e.freq : e.freq[s] # 0 /\ e.freq[s] <= 1000000000}
        c1 == Least(e.freq, left)
        c2 == Least(e.freq, left \ {c1})
        chain(c) == {s \in DOMAIN e.freq : e.tree[s] = c}
    IN  IF Cardinality(left) < 2 THEN e
        ELSE [freq |-> [e.freq EXCEPT ![c1] = @ + e.freq[c2], ![c2] = 0],
              codesize |-> [s \in chain(c1) \cup chain(c2) |-> e.codesize[s] + 1] @@ e.codesize,
              tree |-> [s \in chain(c2) |-> c1] @@ e.tree]

\* The lengths of the codes: 256 is a symbol that gets the code of all ones.
CodeSizes(freq) ==
    LET counted == (256 :> 1) @@ freq
    IN  Through(Merged, [freq |-> counted, codesize |-> [s \in DOMAIN counted |-> 0],
                         tree |-> [s \in DOMAIN counted |-> s]],
                1, Cardinality(DOMAIN counted)).codesize

\* Two of the longest codes go: one takes the place of their prefix, the other shares that of
\* a shorter code, which becomes two.
Shortened(bits, i) ==
    LET j == CHOOSE j \in 1 .. i - 2 : bits[j] # 0 /\ \A k \in j + 1 .. i - 2 : bits[k] = 0
        moved == [bits EXCEPT ![i] = @ - 2, ![i - 1] = @ + 1]
    IN  [moved EXCEPT ![j + 1] = @ + 2, ![j] = @ - 1]

Limit16(bits) ==
    LET AtLength(b, n) ==
            LET i == MAX_CLEN + 1 - n
            IN  Through(LAMBDA x, k : Shortened(x, i), b, 1, b[i] \div 2)
    IN  Through(AtLength, bits, 1, MAX_CLEN - 16)

\* Mutant of WithoutAllOnes: the code of all ones is given away.
WithoutAllOnes_Kept(bits) == bits

\* The longest code is that of symbol 256, which is not coded.
WithoutAllOnes(bits) ==
    LET i == CHOOSE i \in Lengths : bits[i] # 0 /\ \A k \in i + 1 .. 16 : bits[k] = 0
    IN  [bits EXCEPT ![i] = @ - 1]

jpeg_gen_optimal_table(freq) ==
    LET codesize == CodeSizes(freq)
        of(l) == {s \in DOMAIN codesize : codesize[s] = l}
        bits == [l \in 1 .. MAX_CLEN |-> Cardinality(of(l))] \o <<>>
        Ascending(set) ==
            [i \in 1 .. Cardinality(set) |->
                CHOOSE s \in set : Cardinality({t \in set : t < s}) = i - 1]
        huffval == Through(LAMBDA e, l : e \o Ascending(of(l) \ {256}), <<>>, 1, MAX_CLEN)
    IN  IF \E s \in DOMAIN codesize : codesize[s] > MAX_CLEN THEN [bad |-> TRUE]
        ELSE [bad |-> FALSE, bits |-> SubSeq(WithoutAllOnes(Limit16(bits)), 1, 16),
              huffval |-> huffval]

-----------------------------------------------------------------------------
\* Figure C.1: the length of each code, in the order of the codes.
HuffSizes(htbl) ==
    Through(LAMBDA e, l : e \o [i \in 1 .. htbl.bits[l] |-> l], <<>>, 1, 16)

\* Figure C.2: the codes themselves; a length after the first that codes do not fit in, with
\* room for the code of all ones, is an error.
HuffCodes(huffsize) ==
    LET next(e, p) ==
            LET shift == IF p = 1 THEN 0 ELSE huffsize[p] - huffsize[p - 1]
                code == e.code * 2 ^ shift
            IN  [codes |-> Append(e.codes, code), code |-> code + 1,
                 bad |-> e.bad \/ code + 1 > 2 ^ huffsize[p] - 1]
    IN  Through(next, [codes |-> <<>>, code |-> 0, bad |-> FALSE], 1, Len(huffsize))

Allowed(isDC) == IF isDC THEN 0 .. 15 ELSE 0 .. 255

\* What both sides refuse; the encoder refuses a symbol that occurs twice, too.
Refused(isDC, htbl) ==
    LET huffsize == HuffSizes(htbl)
    IN  \/ Len(huffsize) > 256
        \/ HuffCodes(huffsize).bad
        \/ \E p \in DOMAIN huffsize : htbl.huffval[p] \notin Allowed(isDC)

\* The code and the length of each symbol that has one.
jpeg_make_c_derived_tbl(isDC, htbl) ==
    LET huffsize == HuffSizes(htbl)
        huffcode == HuffCodes(huffsize).codes
        place(s) == CHOOSE p \in DOMAIN huffsize : htbl.huffval[p] = s
        coded == {htbl.huffval[p] : p \in DOMAIN huffsize}
    IN  IF Refused(isDC, htbl) \/ Cardinality(coded) < Len(huffsize) THEN [bad |-> TRUE]
        ELSE [bad |-> FALSE, ehufco |-> [s \in coded |-> huffcode[place(s)]],
              ehufsi |-> [s \in coded |-> huffsize[place(s)]]]

\* For each length the largest code and where its symbols are, and for each value of the next
\* 8 bits the code that it begins with, if that is not longer.
jpeg_make_d_derived_tbl(isDC, htbl) ==
    LET of(size, l) == {p \in DOMAIN size : size[p] = l}
        first(ps) == CHOOSE p \in ps : \A q \in ps : p <= q
        last(ps) == CHOOSE p \in ps : \A q \in ps : p >= q
        begins(size, code, p, look) ==
            /\ size[p] <= HUFF_LOOKAHEAD
            /\ look \div 2 ^ (HUFF_LOOKAHEAD - size[p]) = code[p]
        entry(size, found) ==
            IF found = {} THEN [nb |-> HUFF_LOOKAHEAD + 1, symbol |-> 0]
            ELSE LET p == CHOOSE p \in found : TRUE IN [nb |-> size[p], symbol |-> htbl.huffval[p]]
        derived(size, code) ==
            [bad |-> FALSE, huffval |-> htbl.huffval,
             valoffset |-> [l \in Lengths |-> IF of(size, l) = {} THEN 0
                               ELSE first(of(size, l)) - 1 - code[first(of(size, l))]],
             maxcode |-> [l \in 1 .. 17 |-> IF l = 17 THEN 1048575
                             ELSE IF of(size, l) = {} THEN -1 ELSE code[last(of(size, l))]],
             lookup |-> [look \in 0 .. 255 |->
                            entry(size, {p \in DOMAIN size : begins(size, code, p, look)})]]
        sized(size) == derived(size, HuffCodes(size).codes)
    IN  IF Refused(isDC, htbl) THEN [bad |-> TRUE] ELSE sized(HuffSizes(htbl))

\* The symbol that the bits begin with, and how many of them it takes; the bits are those of a
\* number of 17.  A code that is none is taken for 0.
jpeg_huff_decode(dtbl, bits17, min_bits) ==
    LET code(l) == bits17 \div 2 ^ (17 - l)
        l == CHOOSE l \in min_bits .. 17 : /\ code(l) <= dtbl.maxcode[l]
                                           /\ \A k \in min_bits .. l - 1 : code(k) > dtbl.maxcode[k]
    IN  IF l > 16 THEN [symbol |-> 0, length |-> l]
        ELSE [symbol |-> dtbl.huffval[code(l) + dtbl.valoffset[l] + 1], length |-> l]

\* HUFF_DECODE(), with 8 bits at hand or, near the end of the data, without.
HUFF_DECODE(dtbl, bits17, ahead) ==
    LET look == dtbl.lookup[bits17 \div 2 ^ 9]
    IN  IF ~ahead THEN jpeg_huff_decode(dtbl, bits17, 1)
        ELSE IF look.nb <= HUFF_LOOKAHEAD THEN [symbol |-> look.symbol, length |-> look.nb]
        ELSE jpeg_huff_decode(dtbl, bits17, look.nb)

=============================================================================
