----------------------------- MODULE CodedData -----------------------------
(***************************************************************************)
(* What passes from an entropy encoder to the decoder.  Coded data are a   *)
(* sequence of items, each of which the decoder must ask for as the        *)
(* encoder made it:                                                        *)
(*   - a Huffman symbol RRRRSSSS of the table "at" (n = RRRR, value = SSSS), *)
(*   - n bits as they are,                                                 *)
(*   - a binary decision of the arithmetic coder, coded with the statistics *)
(*     bin "at" (or the fixed one),                                        *)
(*   - a restart marker.                                                   *)
(* How symbols and decisions become bytes is the matter of the tables in   *)
(* HuffmanCoding and of ArithCoding; markers and damaged data are that of  *)
(* MarkerReader.                                                           *)
(***************************************************************************)
EXTENDS Integers, Sequences, FiniteSets

Symbol(table, r, s)  == [kind |-> "symbol", at |-> table, n |-> r, value |-> s]
RawBits(n, v)        == [kind |-> "bits", at |-> <<>>, n |-> n, value |-> v]
Decision(bin, v)     == [kind |-> "decision", at |-> bin, n |-> 1, value |-> v]
Restart(num)         == [kind |-> "restart", at |-> <<>>, n |-> 0, value |-> num]

\* step(...step(e, from)..., to).  The choices, which are none, have TLC evaluate one step
\* after the other and not one within the other, and the blocks of steps keep it from
\* recursions that are too deep.
Steps(step(_, _), e, from, to) ==
    LET f[k \in (from - 1) .. to] ==
            IF k < from THEN e ELSE CHOOSE next \in {step(x, k) : x \in {f[k - 1]}} : TRUE
    IN  IF to < from THEN e ELSE f[to]

Through(step(_, _), e, from, to) ==
    LET blocks == (to - from) \div 32
        end(j) == IF j = blocks THEN to ELSE from + 32 * j + 31
        f[j \in -1 .. blocks] ==
            IF j < 0 THEN e
            ELSE CHOOSE next \in {Steps(step, x, from + 32 * j, end(j)) : x \in {f[j - 1]}} : TRUE
    IN  IF to < from THEN e ELSE f[blocks]

Absolute(v) == IF v < 0 THEN -v ELSE v
Biggest(a, b) == IF a > b THEN a ELSE b

-----------------------------------------------------------------------------
\* JPEG_NBITS(): the number of bits of a magnitude.
NBits(v) ==
    LET f[n \in 0 .. 31] == IF v < 2 ^ n THEN n ELSE f[n + 1]
    IN  f[0]

\* The point transforms: an arithmetic shift for DC, rounding towards 0 for AC.
ShiftedDC(v, Al) == v \div 2 ^ Al
ShiftedAC(v, Al) == Absolute(v) \div 2 ^ Al

\* The bits that are sent of v: itself, or the complement of its magnitude.
BitsOf(v, n) == IF v >= 0 THEN v ELSE (v - 1) % 2 ^ n

\* HUFF_EXTEND()
Extended(x, s) == IF s > 0 /\ x < 2 ^ (s - 1) THEN x - 2 ^ s + 1 ELSE x

\* A cast to JCOEF, 16 bits.
AsJCOEF(v) == LET w == v % 65536 IN IF w >= 32768 THEN w - 65536 ELSE w

\* v & (1 << Al)
HasBit(v, Al) == (v \div 2 ^ Al) % 2 = 1

-----------------------------------------------------------------------------
\* A decoder d reads from d.in, the data that have arrived.  After an item that is not as
\* asked for its state is "wrong", where it finds none it is "suspended"; then nothing more
\* is read.  n and value are those of the item that was read last.
Read(d, kind, at, n) ==
    IF d.state # "ok" THEN d
    ELSE IF d.pos > Len(d.in) THEN [d EXCEPT !.state = "suspended"]
    ELSE LET i == d.in[d.pos]
         IN  IF i.kind = kind /\ i.at = at /\ (kind = "bits" => i.n = n)
             THEN [d EXCEPT !.pos = @ + 1, !.n = i.n, !.value = i.value]
             ELSE [d EXCEPT !.state = "wrong"]

Ok(d) == d.state = "ok"

=============================================================================
