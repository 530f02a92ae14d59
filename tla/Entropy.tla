------------------------------ MODULE Entropy ------------------------------
(***************************************************************************)
(* An image goes through the entropy coders scan by scan: the encoder      *)
(* gathers statistics and codes the MCUs of a scan (jcmaster.c, jcphuff.c, *)
(* jchuff.c, jcarith.c), then the decoder decodes them from data that      *)
(* arrive bit by bit (jdphuff.c, jdhuff.c, jdarith.c).  A Huffman decoder  *)
(* which runs out of data suspends in the middle of an MCU and is called   *)
(* again for the same MCU.                                                 *)
(***************************************************************************)
EXTENDS HuffmanCoding, ArithCoding

CONSTANTS
    Jobs,         \* images with the parameters they are coded with
    MAX_AH_AL,    \* the largest Ah and Al of a script
    MaxArriving   \* how many data may arrive between two calls of the decoder

ASSUME EntropyAssumption == LastK = DCTSIZE2 - 1

VARIABLES
    job,          \* [blocks, h_samp, script, arith_code, optimize_coding, restart_interval,
                  \*  dc_tbl, ac_tbl], never changed
    phase,        \* "gather", "output", "decode", "done", "refused" or "failed"
    scan,         \* the number of the scan, from 1 on
    cur,          \* its parameters
    mcu,          \* the number of the next MCU, from 1 on
    enc, dec,     \* the coders' states (see HuffmanCoding)
    arrived,      \* how much of the scan's data the decoder is known to have
    coefs,        \* the decoder's coefficients
    coef_bits,    \* the precision to which they are known, -1 for not at all
    warned        \* the decoder has warned of the order of the scans

vars == <<job, phase, scan, cur, mcu, enc, dec, arrived, coefs, coef_bits, warned>>

Comps == DOMAIN job.blocks
NoBits == [ci \in Comps |-> [k \in 0 .. DCTSIZE2 - 1 |-> -1]]

-----------------------------------------------------------------------------
(* Scripts *)

\* Mutant of ProgressionOk: a refinement may begin at any bit.
ProgressionOk_AnyBit(s, last) ==
    /\ 0 <= s.Ss /\ s.Ss <= s.Se /\ s.Se < DCTSIZE2
    /\ {s.Ah, s.Al} \subseteq 0 .. MAX_AH_AL
    /\ IF s.Ss = 0 THEN s.Se = 0 ELSE Len(s.comps) = 1
    /\ \A c \in {s.comps[i] : i \in DOMAIN s.comps} :
          /\ s.Ss # 0 => last[c][0] >= 0
          /\ \A k \in s.Ss .. s.Se :
                IF last[c][k] < 0 THEN s.Ah = 0 ELSE s.Al = s.Ah - 1

\* What validate_script() asks of a scan of a progressive image, where "last" are the Al
\* that were the last ones for each coefficient.
ProgressionOk(s, last) ==
    /\ 0 <= s.Ss /\ s.Ss <= s.Se /\ s.Se < DCTSIZE2
    /\ {s.Ah, s.Al} \subseteq 0 .. MAX_AH_AL
    /\ IF s.Ss = 0 THEN s.Se = 0 ELSE Len(s.comps) = 1
    /\ \A c \in {s.comps[i] : i \in DOMAIN s.comps} :
          /\ s.Ss # 0 => last[c][0] >= 0
          /\ \A k \in s.Ss .. s.Se :
                IF last[c][k] < 0 THEN s.Ah = 0 ELSE s.Ah = last[c][k] /\ s.Al = s.Ah - 1

validate_script(script, comps) ==
    LET progressive == <<script[1].Ss, script[1].Se>> # <<0, DCTSIZE2 - 1>>
        inOrder(s) == /\ \A i \in DOMAIN s.comps : s.comps[i] \in comps
                      /\ \A i \in 2 .. Len(s.comps) : s.comps[i] > s.comps[i - 1]
        sent(s) == {s.comps[i] : i \in DOMAIN s.comps}
        scanOk(v, n) ==
            LET s == script[n]
            IN  IF ~v.ok THEN v
                ELSE IF progressive
                THEN [v EXCEPT
                        !.ok = inOrder(s) /\ ProgressionOk(s, v.last),
                        !.last = [c \in comps |-> [k \in 0 .. DCTSIZE2 - 1 |->
                                    IF c \in sent(s) /\ k \in s.Ss .. s.Se THEN s.Al
                                    ELSE @[c][k]]]]
                ELSE [v EXCEPT
                        !.ok = /\ inOrder(s) /\ sent(s) \cap v.sent = {}
                               /\ <<s.Ss, s.Se, s.Ah, s.Al>> = <<0, DCTSIZE2 - 1, 0, 0>>,
                        !.sent = @ \cup sent(s)]
        v == Through(scanOk, [ok |-> TRUE, sent |-> {},
                              last |-> [c \in comps |-> [k \in 0 .. DCTSIZE2 - 1 |-> -1]]],
                     1, Len(script))
    IN  [ok |-> v.ok /\ \A c \in comps : IF progressive THEN v.last[c][0] >= 0 ELSE c \in v.sent,
         progressive |-> progressive]

Progressive == validate_script(job.script, Comps).progressive

\* select_scan_parameters(): the scan's parameters, and the tables of its components.
select_scan_parameters(n) ==
    LET s == job.script[n]
    IN  [comps |-> s.comps, Ss |-> s.Ss, Se |-> s.Se, Ah |-> s.Ah, Al |-> s.Al,
         progressive |-> Progressive, restart_interval |-> job.restart_interval,
         dc_tbl |-> [i \in DOMAIN s.comps |-> job.dc_tbl[s.comps[i]]],
         ac_tbl |-> [i \in DOMAIN s.comps |-> job.ac_tbl[s.comps[i]]]]

\* Where the blocks of an MCU are: a scan of one component has one block to an MCU, one of
\* several has as many as the sampling factors say.
Membership(s, m) ==
    LET h(i) == job.h_samp[s.comps[i]]
        of(i) == [b \in 1 .. h(i) |-> [ci |-> i, at |-> (m - 1) * h(i) + b]]
    IN  IF Len(s.comps) = 1 THEN <<[ci |-> 1, at |-> m]>>
        ELSE Through(LAMBDA q, i : q \o of(i), <<>>, 1, Len(s.comps))
MCUs(s) ==
    LET n == Len(job.blocks[s.comps[1]])
    IN  IF Len(s.comps) = 1 THEN n ELSE n \div job.h_samp[s.comps[1]]
MCU(image, s, m) ==
    LET q == Membership(s, m)
    IN  [b \in DOMAIN q |-> [ci |-> q[b].ci, block |-> image[s.comps[q[b].ci]][q[b].at]]]

-----------------------------------------------------------------------------
(* The encoders' passes *)

Zeros(s) == [i \in DOMAIN s.comps |-> 0]
start_pass_encoder(s, gather, counted) ==
    [gather |-> gather, counted |-> counted, out |-> <<>>, last_dc_val |-> Zeros(s),
     dc_context |-> Zeros(s), EOBRUN |-> 0, BE |-> <<>>, BR |-> <<>>, r |-> 0, start |-> TRUE,
     most |-> 0, restarts_to_go |-> s.restart_interval, next_restart_num |-> 0, error |-> "none"]
Idle == [out |-> <<>>]

\* A DC refinement scan needs no table, and no statistics.
FirstPass(s) ==
    IF ~job.arith_code /\ (s.progressive \/ job.optimize_coding)
          /\ ~(s.progressive /\ s.Ss = 0 /\ s.Ah # 0)
    THEN "gather" ELSE "output"

encode_mcu(e, s, m) ==
    LET first == s.Ah = 0
    IN  IF job.arith_code
        THEN IF ~s.progressive THEN arith_encode_mcu(e, s, m)
             ELSE IF s.Ss = 0
             THEN IF first THEN arith_encode_DC_first(e, s, m) ELSE arith_encode_DC_refine(e, s, m)
             ELSE IF first THEN arith_encode_AC_first(e, s, m) ELSE arith_encode_AC_refine(e, s, m)
        ELSE IF ~s.progressive
        THEN IF e.gather THEN encode_mcu_gather(e, s, m) ELSE encode_mcu_huff(e, s, m)
        ELSE IF s.Ss = 0
        THEN IF first THEN encode_mcu_DC_first(e, s, m) ELSE encode_mcu_DC_refine(e, s, m)
        ELSE IF first THEN encode_mcu_AC_first(e, s, m) ELSE encode_mcu_AC_refine(e, s, m)

EncodeMCU ==
    /\ phase \in {"gather", "output"}
    /\ mcu <= MCUs(cur)
    /\ enc' = encode_mcu(enc, cur, MCU(job.blocks, cur, mcu))
    /\ mcu' = mcu + 1
    /\ UNCHANGED <<job, phase, scan, cur, dec, arrived, coefs, coef_bits, warned>>

\* finish_pass_gather_phuff(), finish_pass_phuff() and those of the other coders
Finished(e, s) == IF s.progressive /\ ~job.arith_code THEN emit_eobrun(e, s) ELSE e

FinishGathering ==
    /\ phase = "gather" /\ mcu > MCUs(cur)
    /\ enc' = start_pass_encoder(cur, FALSE, Finished(enc, cur).counted)
    /\ phase' = "output"
    /\ mcu' = 1
    /\ UNCHANGED <<job, scan, cur, dec, arrived, coefs, coef_bits, warned>>

-----------------------------------------------------------------------------
(* The decoders *)

start_pass_decoder(s) ==
    [in |-> <<>>, pos |-> 1, state |-> "ok", n |-> 0, value |-> 0, mcu |-> <<>>, k |-> 0, r |-> 0,
     new |-> 0, symbol |-> TRUE, newnz |-> {}, EOBRUN |-> 0, last_dc_val |-> Zeros(s),
     dc_context |-> Zeros(s), restarts_to_go |-> s.restart_interval, next_restart_num |-> 0,
     start |-> TRUE, eob |-> FALSE, done |-> FALSE, m |-> 0, w |-> 0]

\* start_pass_phuff_decoder() and the start_pass() of jdarith.c
BadProgression(s) ==
    \/ IF s.Ss = 0 THEN s.Se # 0 ELSE s.Ss > s.Se \/ s.Se >= DCTSIZE2 \/ Len(s.comps) # 1
    \/ s.Ah # 0 /\ s.Al # s.Ah - 1
    \/ s.Al > 13
BogusProgression(s) ==
    \E i \in DOMAIN s.comps :
        \/ s.Ss # 0 /\ coef_bits[s.comps[i]][0] < 0
        \/ \E k \in s.Ss .. s.Se : s.Ah # Biggest(0, coef_bits[s.comps[i]][k])

StartDecoding ==
    LET e == Finished(enc, cur)
        sent == {cur.comps[i] : i \in DOMAIN cur.comps}
        sequential == <<cur.Ss, cur.Se, cur.Ah, cur.Al>> = <<0, DCTSIZE2 - 1, 0, 0>>
    IN  /\ phase = "output" /\ mcu > MCUs(cur)
        /\ enc' = e
        /\ mcu' = 1
        /\ arrived' = 0
        /\ dec' = start_pass_decoder(cur)
        /\ phase' = IF e.error # "none" \/ (cur.progressive /\ BadProgression(cur))
                    THEN "failed" ELSE "decode"
        /\ warned' = (warned \/ IF cur.progressive THEN BogusProgression(cur) ELSE ~sequential)
        /\ coef_bits' = IF ~cur.progressive THEN coef_bits
                        ELSE [c \in Comps |-> [k \in 0 .. DCTSIZE2 - 1 |->
                                IF c \in sent /\ k \in cur.Ss .. cur.Se THEN cur.Al
                                ELSE coef_bits[c][k]]]
        /\ UNCHANGED <<job, scan, cur, coefs>>

decode_mcu(d, s) ==
    IF job.arith_code
    THEN IF ~s.progressive THEN arith_decode_mcu(d, s)
         ELSE IF s.Ss = 0
         THEN IF s.Ah = 0 THEN arith_decode_DC_first(d, s) ELSE arith_decode_DC_refine(d, s)
         ELSE IF s.Ah = 0 THEN arith_decode_AC_first(d, s) ELSE arith_decode_AC_refine(d, s)
    ELSE IF ~s.progressive THEN decode_mcu_huff(d, s)
    ELSE IF s.Ss = 0
    THEN IF s.Ah = 0 THEN decode_mcu_DC_first(d, s) ELSE decode_mcu_DC_refine(d, s)
    ELSE IF s.Ah = 0 THEN decode_mcu_AC_first(d, s) ELSE decode_mcu_AC_refine(d, s)

\* The coefficients with those of an MCU in their places.
Stored(s, m, blocks) ==
    LET q == Membership(s, m)
        put(c, b) == [c EXCEPT ![s.comps[q[b].ci]][q[b].at] = blocks[b].block]
    IN  Through(put, coefs, 1, Len(q))

Arrived ==
    IF job.arith_code THEN {Len(enc.out)}
    ELSE {n \in arrived .. arrived + MaxArriving : n <= Len(enc.out)}

\* A call of decode_mcu() when n of the scan's data have arrived.  If it suspends only a
\* restart and the coefficients that were assigned already remain of it.
DecodeMCU ==
    \E n \in Arrived :
        /\ phase = "decode" /\ mcu <= MCUs(cur)
        /\ \E given \in {[dec EXCEPT !.in = SubSeq(enc.out, 1, n), !.mcu = MCU(coefs, cur, mcu)]} :
           \E begun \in {IF job.arith_code THEN given ELSE process_restart(given, cur)} :
           \E tried \in {IF Ok(begun) THEN decode_mcu(begun, cur) ELSE begun} :
              LET kept == IF tried.state # "suspended" THEN tried
                          ELSE IF Ok(begun) THEN begun ELSE given
              IN  /\ arrived' = IF Ok(tried) THEN tried.pos - 1 ELSE n
                  /\ dec' = [kept EXCEPT !.in = <<>>, !.mcu = <<>>]
                  /\ coefs' = Stored(cur, mcu, tried.mcu)
                  /\ mcu' = IF Ok(tried) THEN mcu + 1 ELSE mcu
                  /\ phase' = IF tried.state = "wrong" THEN "failed" ELSE phase
        /\ UNCHANGED <<job, scan, cur, enc, coef_bits, warned>>

-----------------------------------------------------------------------------
Begin(n) ==
    /\ scan' = n
    /\ cur' = select_scan_parameters(n)
    /\ mcu' = 1
    /\ phase' = FirstPass(cur')
    /\ enc' = start_pass_encoder(cur', phase' = "gather", {})

Init ==
    /\ job \in Jobs
    /\ scan = 1 /\ mcu = 1 /\ arrived = 0
    /\ dec = Idle
    /\ warned = FALSE
    /\ coef_bits = NoBits
    /\ coefs = [c \in Comps |-> [b \in DOMAIN job.blocks[c] |-> [k \in 0 .. DCTSIZE2 - 1 |-> 0]]]
    /\ IF validate_script(job.script, Comps).ok
       THEN /\ cur = select_scan_parameters(1)
            /\ phase = FirstPass(cur)
            /\ enc = start_pass_encoder(cur, FirstPass(cur) = "gather", {})
       ELSE phase = "refused" /\ cur = <<>> /\ enc = Idle

NextScan ==
    /\ phase = "decode" /\ mcu > MCUs(cur)
    /\ IF scan < Len(job.script) THEN Begin(scan + 1)
       ELSE phase' = "done" /\ UNCHANGED <<scan, cur, mcu, enc>>
    /\ arrived' = 0
    /\ dec' = Idle
    /\ UNCHANGED <<job, coefs, coef_bits, warned>>

Next == EncodeMCU \/ FinishGathering \/ StartDecoding \/ DecodeMCU \/ NextScan

Spec == Init /\ [][Next]_vars

-----------------------------------------------------------------------------
(* What the coders must do *)

\* A coefficient to the precision that is sent with Al: DC is rounded down, AC towards zero.
Known(v, k, Al) ==
    IF k = 0 THEN ShiftedDC(v, Al) * 2 ^ Al
    ELSE IF v < 0 THEN -(ShiftedAC(v, Al) * 2 ^ Al) ELSE ShiftedAC(v, Al) * 2 ^ Al

\* The MCUs of the scan that are decoded have the coefficients that were encoded, to the
\* precision of the scan, and no coder failed: whatever the data are cut into and however
\* often a call was repeated.  At the end of the scan all data were read.
DecodedAsEncoded ==
    /\ phase # "failed"
    /\ phase = "decode" =>
          /\ \A m \in 1 .. mcu - 1 : \A b \in DOMAIN Membership(cur, m) :
                LET c == cur.comps[Membership(cur, m)[b].ci]
                    at == Membership(cur, m)[b].at
                IN  \A k \in cur.Ss .. cur.Se :
                       coefs[c][at][k] = Known(job.blocks[c][at][k], k, cur.Al)
          /\ mcu > MCUs(cur) => dec.pos = Len(enc.out) + 1

\* The pass that gathers statistics counts the symbols that the output pass emits, which
\* other code does for sequential images: a symbol that was not counted has no code, and
\* one that is counted in vain makes the others longer.
CountedAsEncoded ==
    phase = "decode" /\ FirstPass(cur) = "gather" =>
        enc.counted = {enc.out[i] : i \in {j \in DOMAIN enc.out : enc.out[j].kind = "symbol"}}

\* The correction bits never overflow their buffer, and no run of EOBs its code.
CorrectionBitsFit ==
    phase \in {"gather", "output"} => enc.most <= MAX_CORR_BITS /\ enc.EOBRUN < 2 ^ EOBRUN_BITS

\* The decoder neither refuses nor warns of a script that validate_script() accepted, and
\* every component has been sent in the end.
ScriptsAgree ==
    /\ ~warned
    /\ phase = "done" /\ Progressive => \A c \in Comps : coef_bits[c][0] >= 0

\* The decisions of a scan between two restarts, as bytes and back.
BytesDecode ==
    LET restarts == {i \in DOMAIN enc.out : enc.out[i].kind = "restart"}
        ends == restarts \cup {Len(enc.out) + 1}
        before(i) == {j \in restarts : j < i}
        begin(i) == IF before(i) = {} THEN 1
                    ELSE 1 + CHOOSE j \in before(i) : \A k \in before(i) : k <= j
    IN  phase = "decode" /\ job.arith_code /\ mcu = 1 /\ arrived = 0 =>
            \A i \in ends : CodesDecisions(SubSeq(enc.out, begin(i), i - 1))

=============================================================================
