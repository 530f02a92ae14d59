-------------------------- MODULE DecompRowsProofs --------------------------
(***************************************************************************)
(* Proofs about DecompRows, for every setup of RowsAssumption and calls of *)
(* any length: the counters stay in range, the pointer lists stay in the   *)
(* workspace, reads get on and skips get where they were asked to go.      *)
(*                                                                         *)
(* The invariant, Between, says where the controllers stand before line    *)
(* output_scanline: which iMCU row is in the buffer, which of its row      *)
(* groups is next, how many lines of that are handed out, and in which     *)
(* state the context state machine is.  The lemmas go from the inside out: *)
(* the upsamplers (Emits), the postprocessor (Posts), the main controller  *)
(* (Result), a read (ReadHolds), reads in a row (DiscardHolds), a skip     *)
(* (SkipHolds), a pass (StartHolds, DummyHolds, CrankHolds).               *)
(***************************************************************************)
EXTENDS DecompRows, FiniteSets, FiniteSetTheorems, TLAPS

(* A decompressor state is a record of these fields, its rows a sequence.  *)
Fields == {"buffer", "xbuffer", "buffer_full", "rowgroup_ctr", "rowgroups_avail",
           "whichptr", "context_state", "iMCU_row_ctr", "output_iMCU_row",
           "color_buf", "next_row_out", "rows_to_go", "spare_full", "spare_row",
           "starting_row", "next_row", "whole_image", "output_scanline",
           "out_row_ctr", "rows"}
IsSeq(q) == q \in Seq({q[i] : i \in 1 .. Len(q)})
Shape(x) == x = [f \in Fields |-> x[f]] /\ IsSeq(x.rows)

(* lines_per_iMCU_row and total_iMCU_rows of a setup.                      *)
IMCULines(s) == s.M * s.V
IMCURows(s) == CeilDiv(s.output_height, IMCULines(s))

(* The counters in their ranges.                                           *)
Counters(s, x) ==
    /\ x.buffer_full \in BOOLEAN /\ x.spare_full \in BOOLEAN
    /\ x.rowgroup_ctr \in 0 .. s.M + 2 /\ x.rowgroups_avail \in 0 .. s.M + 2
    /\ x.whichptr \in 0 .. 1
    /\ x.iMCU_row_ctr \in 0 .. IMCURows(s)
    /\ x.output_iMCU_row \in 0 .. IMCURows(s)
    /\ x.next_row_out \in 0 .. s.V
    /\ x.rows_to_go \in 0 .. s.output_height
    /\ x.next_row \in 0 .. s.V - 1 /\ x.starting_row \in Nat

(* Lines of the current row group that are handed out already.             *)
Within(s, x) ==
    IF s.kind = "merged" THEN IF x.spare_full THEN 1 ELSE 0
    ELSE IF x.next_row_out = s.V THEN 0 ELSE x.next_row_out

(* n lines fill whole row groups of v lines.                               *)
Whole(v, n) == n % v = 0

(* The upsampler before line p.  rows_to_go is what is left at least; it   *)
(* may be more if the lines left fill whole row groups, or (~e) in the     *)
(* middle of a skip, which counts it anew at its end.                      *)
Upsampler(s, e, p, x) ==
    /\ Within(s, x) \in 0 .. s.V - 1
    /\ x.rows_to_go >= s.output_height - p
    /\ e => \/ x.rows_to_go = s.output_height - p
            \/ Whole(s.V, s.output_height - p + Within(s, x))

(* The iMCU row that the next line is in.                                  *)
Row(x) == IF x.buffer_full THEN x.output_iMCU_row - 1 ELSE x.output_iMCU_row

(* Lines of that iMCU row before the next.                                 *)
Given(s, x) == x.rowgroup_ctr * s.V + Within(s, x)

(* Without context rows: line p is the one that rowgroup_ctr and the       *)
(* upsampler stand at; b: a buffer that is full has been used.             *)
PlaceSimple(s, b, p, x) ==
    /\ x.rowgroup_ctr < s.M
    /\ p = Row(x) * IMCULines(s) + Given(s, x)
    /\ IF x.buffer_full THEN x.output_iMCU_row > 0 /\ (b => Given(s, x) > 0)
                        ELSE Within(s, x) = 0

(* All row groups of an iMCU row but the last, or those with lines in them *)
(* at the bottom.                                                          *)
AvailOK(s, o, avail) ==
    IF o < IMCURows(s) THEN avail = s.M - 1
    ELSE /\ avail <= s.M
         /\ (o - 1) * IMCULines(s) + avail * s.V >= s.output_height

(* The three states of the context state machine before line p.            *)
Preparing(s, p, x) ==
    /\ x.context_state = "CTX_PREPARE_FOR_IMCU"
    /\ Within(s, x) = 0
    /\ p = Row(x) * IMCULines(s)
Processing(s, b, p, x) ==
    /\ x.context_state = "CTX_PROCESS_IMCU"
    /\ x.buffer_full
    /\ x.rowgroup_ctr < x.rowgroups_avail
    /\ p = Row(x) * IMCULines(s) + Given(s, x)
    /\ b => Given(s, x) > 0
    /\ AvailOK(s, x.output_iMCU_row, x.rowgroups_avail)
Postponed(s, b, p, x) ==
    /\ x.context_state = "CTX_POSTPONED_ROW"
    /\ x.rowgroup_ctr = s.M + 1 /\ x.rowgroups_avail = s.M + 2
    /\ p = Row(x) * IMCULines(s) - s.V + Within(s, x)
    /\ IF x.buffer_full THEN b => Within(s, x) > 0
       ELSE Within(s, x) = 0 /\ x.output_iMCU_row < IMCURows(s)

PlaceContext(s, b, p, x) ==
    /\ x.iMCU_row_ctr = x.output_iMCU_row
    /\ x.buffer_full => x.output_iMCU_row > 0
    /\ Preparing(s, p, x) \/ Processing(s, b, p, x) \/ Postponed(s, b, p, x)

Place(s, b, p, x) == IF s.kind = "context" THEN PlaceContext(s, b, p, x)
                                        ELSE PlaceSimple(s, b, p, x)

(* Above the bottom the controllers stand at line p.                       *)
Somewhere(s, e, b, p, x) ==
    p < s.output_height => Upsampler(s, e, p, x) /\ Place(s, b, p, x)

(* The workspace and the pointer lists.                                    *)
SampleRows(s, c) == IF c = "luma" THEN s.V ELSE s.rgroup
SampleHeight(s, c) == CeilDiv(s.output_height * SampleRows(s, c), s.V)
BufferRows(s, c) ==
    0 .. (IF s.kind = "context" THEN s.M + 2 ELSE s.M) * SampleRows(s, c) - 1
PointerRows(s, c) == -SampleRows(s, c) .. (s.M + 3) * SampleRows(s, c) - 1

BufferOK(s, b) ==
    \A c \in Components :
        b[c] \in [BufferRows(s, c) -> 0 .. SampleHeight(s, c) - 1 \cup {Padding}]
PointersOK(s, xb) ==
    s.kind = "context" =>
        /\ xb = [w \in 0 .. 1 |-> xb[w]]
        /\ \A w \in 0 .. 1, c \in Components : \A i \in PointerRows(s, c) :
              xb[w][c][i] \in BufferRows(s, c) \cup {Unset}
Buffers(s, x) == BufferOK(s, x.buffer) /\ PointersOK(s, x.xbuffer)

(* What holds between two calls.  In the final pass of two-pass            *)
(* quantization only the place in the strips counts.                       *)
Between(s, q, x) ==
   /\ s \in Setups /\ q \in {"read", "dummy", "crank"}
   /\ Shape(x)
   /\ Counters(s, x)
   /\ Buffers(s, x)
   /\ x.output_scanline \in 0 .. s.output_height
   /\ IF q = "crank" THEN x.starting_row + x.next_row = x.output_scanline
      ELSE Somewhere(s, TRUE, TRUE, x.output_scanline, x)

Inv == Between(setup, pass, d)

-----------------------------------------------------------------------------
(* Arithmetic.                                                             *)
LEMMA QuotientIs ==
    ASSUME NEW a \in Nat, NEW b \in Nat \ {0}
    PROVE  /\ a \div b \in Nat /\ a % b \in 0 .. b - 1
           /\ a = (a \div b) * b + (a % b)
OBVIOUS

(* Whole multiples of b do not change a remainder.                         *)
LEMMA OfWholes ==
    ASSUME NEW b \in Nat \ {0}, NEW q \in Int, NEW r \in 0 .. b - 1
    PROVE  (q * b + r) % b = r
OBVIOUS

(* What is no greater is no greater when both are multiplied.              *)
LEMMA ProductsOrdered ==
    ASSUME NEW a \in Int, NEW b \in Int, NEW n \in Nat, a <= b
    PROVE  a * n <= b * n
OBVIOUS

(* Once more b.                                                            *)
LEMMA OneMore == ASSUME NEW a \in Int, NEW n \in Int PROVE (a + 1) * n = a * n + n
OBVIOUS

(* A product with a sum.                                                   *)
LEMMA Sums ==
    ASSUME NEW a \in Int, NEW b \in Int, NEW n \in Int PROVE (a + b) * n = a * n + b * n
OBVIOUS

(* CeilDiv(a, b) counts the multiples of b below a.                        *)
LEMMA BelowCeil ==
    ASSUME NEW a \in Nat \ {0}, NEW b \in Nat \ {0}, NEW k \in Nat
    PROVE  k < CeilDiv(a, b) <=> k * b < a
<1> DEFINE n == a + b - 1
           q == n \div b
<1>0. n \in Nat OBVIOUS
<1>1. q \in Nat /\ n % b \in 0 .. b - 1 /\ n = q * b + (n % b)
  <2> HIDE DEF n
  <2> QED BY <1>0, QuotientIs
<1>2. CeilDiv(a, b) = q BY DEF CeilDiv
<1> HIDE DEF q
<1>3. q * b \in Nat /\ k * b \in Nat BY <1>1
<1>4. q * b <= a + b - 1 /\ a + b - 1 < q * b + b BY <1>1, <1>3
<1>5. CASE k < q
  <2>1. (k + 1) * b <= q * b BY <1>1, <1>5, ProductsOrdered
  <2>2. (k + 1) * b = k * b + b BY OneMore
  <2> QED BY <1>2, <1>3, <1>4, <1>5, <2>1, <2>2
<1>6. CASE ~(k < q)
  <2>1. q * b <= k * b BY <1>1, <1>6, ProductsOrdered
  <2> QED BY <1>2, <1>3, <1>4, <1>6, <2>1
<1> QED BY <1>5, <1>6

(* At least one part of size b is needed.                                  *)
LEMMA CeilIsNat ==
    ASSUME NEW a \in Nat \ {0}, NEW b \in Nat \ {0}
    PROVE  CeilDiv(a, b) \in Nat \ {0}
<1>1. a + b - 1 \in Nat OBVIOUS
<1>2. CeilDiv(a, b) \in Nat BY <1>1, QuotientIs DEF CeilDiv
<1>3. 0 < CeilDiv(a, b)
  <2>1. 0 * b < a OBVIOUS
  <2> QED BY <2>1, BelowCeil
<1> QED BY <1>2, <1>3

-----------------------------------------------------------------------------
(* What RowsAssumption says of one setup.                                  *)
LEMMA SetupsAre ==
    ASSUME NEW s \in Setups
    PROVE  /\ s.kind \in Kinds /\ s.M \in Nat \ {0} /\ s.V \in 1 .. 4
           /\ s.rgroup \in 1 .. s.V /\ s.output_height \in Nat \ {0}
           /\ s.kind = "context" => s.M > 1 /\ s.V \in {2, 4} /\ s.V = 2 * s.rgroup
           /\ s.kind = "merged" => s.V \in 1 .. 2
BY RowsAssumption DEF Kinds

(* The lines of an iMCU row, and the iMCU rows of the image: the last one  *)
(* begins above the bottom.                                                *)
LEMMA SizesAre ==
    ASSUME NEW s \in Setups
    PROVE  /\ IMCULines(s) \in Nat \ {0} /\ IMCURows(s) \in Nat \ {0}
           /\ \A k \in Nat : k < IMCURows(s) <=> k * IMCULines(s) < s.output_height
           /\ \A a \in Int : (a * s.M) * s.V = a * IMCULines(s)
<1>1. s.M \in Nat \ {0} /\ s.V \in Nat \ {0} /\ s.output_height \in Nat \ {0}
  BY SetupsAre
<1>2. IMCULines(s) \in Nat \ {0} BY <1>1 DEF IMCULines
<1>3. \A a \in Int : (a * s.M) * s.V = a * IMCULines(s) BY <1>1 DEF IMCULines
<1> QED BY <1>1, <1>2, <1>3, CeilIsNat, BelowCeil DEF IMCURows

(* Adding to a sequence.                                                   *)
LEMMA Appended ==
    ASSUME NEW q, IsSeq(q), NEW t, IsSeq(t)
    PROVE  IsSeq(q \o t) /\ Len(q \o t) = Len(q) + Len(t)
<1> DEFINE A == {q[i] : i \in 1 .. Len(q)}
           B == {t[i] : i \in 1 .. Len(t)}
           r == q \o t
<1>1. q \in Seq(A \cup B) /\ t \in Seq(A \cup B)
  <2>1. q \in Seq(A) /\ t \in Seq(B) BY DEF IsSeq
  <2> QED BY <2>1
<1>2. r \in Seq(A \cup B) /\ Len(r) = Len(q) + Len(t) BY <1>1
<1>3. r \in Seq({r[i] : i \in 1 .. Len(r)})
  <2> HIDE DEF r, A, B
  <2>1. r = [i \in 1 .. Len(r) |-> r[i]] /\ Len(r) \in Nat BY <1>2
  <2> QED BY <2>1
<1> QED BY <1>2, <1>3 DEF IsSeq

-----------------------------------------------------------------------------
(* The upsamplers.                                                         *)
Kept(x, y) ==
    /\ y.buffer = x.buffer /\ y.xbuffer = x.xbuffer
    /\ y.buffer_full = x.buffer_full /\ y.rowgroups_avail = x.rowgroups_avail
    /\ y.whichptr = x.whichptr /\ y.context_state = x.context_state
    /\ y.iMCU_row_ctr = x.iMCU_row_ctr /\ y.output_iMCU_row = x.output_iMCU_row
    /\ y.output_scanline = x.output_scanline
KeptToo(x, y) ==
    /\ y.starting_row = x.starting_row /\ y.next_row = x.next_row
    /\ y.out_row_ctr = x.out_row_ctr

(* n lines more, from position p on, and where that leaves the upsampler.  *)
Advances(s, e, p, x, y, n) ==
    /\ Upsampler(s, e, p + n, y)
    /\ y.next_row_out \in 0 .. s.V /\ y.spare_full \in BOOLEAN
    /\ y.rows_to_go \in 0 .. s.output_height
    /\ e => p + n <= s.output_height
    /\ n \in 1 .. s.V - Within(s, x)
    /\ IF n = s.V - Within(s, x)
         THEN y.rowgroup_ctr = x.rowgroup_ctr + 1 /\ Within(s, y) = 0
         ELSE y.rowgroup_ctr = x.rowgroup_ctr /\ Within(s, y) = Within(s, x) + n

(* The upsampler makes x into y, which has n lines more: the rest of the   *)
(* row group, or as many as there is room for, or all there are.           *)
Emits(s, e, p, x, y, n, room) ==
    /\ Shape(y) /\ Kept(x, y) /\ KeptToo(x, y)
    /\ Len(y.rows) = Len(x.rows) + n
    /\ Advances(s, e, p, x, y, n)
    /\ n <= room
    /\ \/ n = s.V - Within(s, x)
       \/ n = room
       \/ e => p + n = s.output_height

(* From lines that fill whole row groups one row group may be taken.       *)
LEMMA WholeGroups ==
    ASSUME NEW v \in 1 .. 4, NEW n \in Int, Whole(v, n)
    PROVE  Whole(v, n - v) /\ (n > 0 => n >= v)
<1>1. CASE v = 1 BY <1>1 DEF Whole
<1>2. CASE v = 2 BY <1>2 DEF Whole
<1>3. CASE v = 3 BY <1>3 DEF Whole
<1>4. CASE v = 4 BY <1>4 DEF Whole
<1> QED BY <1>1, <1>2, <1>3, <1>4

(* Filling the conversion buffer changes nothing that is counted but       *)
(* next_row_out.                                                           *)
LEMMA FillShape ==
    ASSUME NEW x, Shape(x)
    PROVE  LET z == FillColorBuf(x)
           IN  /\ Shape(z) /\ Kept(x, z) /\ KeptToo(x, z)
               /\ z.rows = x.rows /\ z.spare_full = x.spare_full
               /\ z.rows_to_go = x.rows_to_go /\ z.rowgroup_ctr = x.rowgroup_ctr
               /\ z.next_row_out = 0
<1> DEFINE buf == [luma   |-> <<x.whichptr, x.rowgroup_ctr * max_v_samp_factor>>,
                   chroma |-> [v \in Lines |-> ChromaRows(x, x.rowgroup_ctr, v)]]
           z == [x EXCEPT !.color_buf = buf, !.next_row_out = 0]
<1>1. FillColorBuf(x) = z BY DEF FillColorBuf
<1> HIDE DEF buf
<1>2. x = [f \in Fields |-> x[f]] BY DEF Shape
<1>3. z = [f \in Fields |-> z[f]] BY <1>2 DEF Fields
<1>4. /\ Kept(x, z) /\ KeptToo(x, z)
      /\ z.rows = x.rows /\ z.spare_full = x.spare_full
      /\ z.rows_to_go = x.rows_to_go /\ z.rowgroup_ctr = x.rowgroup_ctr
      /\ z.next_row_out = 0
  BY <1>2 DEF Fields, Kept, KeptToo
<1> HIDE DEF z
<1>5. Shape(z) BY <1>3, <1>4 DEF Shape
<1> QED BY <1>1, <1>4, <1>5

(* A row group is written as a sequence.                                   *)
LEMMA RowsAreSeq ==
    ASSUME NEW n \in Nat, NEW t, t = [i \in 1 .. n |-> t[i]]
    PROVE  IsSeq(t) /\ Len(t) = n
<1>1. t \in [1 .. n -> {t[i] : i \in 1 .. n}] OBVIOUS
<1>2. t \in Seq({t[i] : i \in 1 .. n}) /\ Len(t) = n BY <1>1
<1> QED BY <1>2 DEF IsSeq

(* What EmitRows changes, if it hands out n lines.                         *)
LEMMA EmitShape ==
    ASSUME NEW x, Shape(x), NEW room \in Nat,
           NEW num \in Nat,
           num = Min3(max_v_samp_factor - x.next_row_out, x.rows_to_go, room)
    PROVE  LET y == EmitRows(x, room)
           IN  /\ Shape(y) /\ Kept(x, y) /\ KeptToo(x, y)
               /\ Len(y.rows) = Len(x.rows) + num
               /\ y.spare_full = x.spare_full
               /\ y.rows_to_go = x.rows_to_go - num
               /\ y.next_row_out = x.next_row_out + num
               /\ y.rowgroup_ctr = IF x.next_row_out + num >= max_v_samp_factor
                                     THEN x.rowgroup_ctr + 1 ELSE x.rowgroup_ctr
<1> DEFINE t == [i \in 1 .. num |-> color_convert(x, x.next_row_out + i - 1)]
           r == IF x.next_row_out + num >= max_v_samp_factor
                  THEN x.rowgroup_ctr + 1 ELSE x.rowgroup_ctr
           q == x.rows \o t
           y == [x EXCEPT !.rows = q, !.rows_to_go = x.rows_to_go - num,
                          !.next_row_out = x.next_row_out + num, !.rowgroup_ctr = r]
<1>1. x = [f \in Fields |-> x[f]] /\ IsSeq(x.rows) BY DEF Shape
<1>2. EmitRows(x, room) = y BY <1>1 DEF EmitRows, Fields
<1>3. IsSeq(q) /\ Len(q) = Len(x.rows) + num
  <2>1. t = [i \in 1 .. num |-> t[i]] OBVIOUS
  <2> HIDE DEF t
  <2>2. IsSeq(t) /\ Len(t) = num BY <2>1, RowsAreSeq
  <2> QED BY <1>1, <2>2, Appended
<1> HIDE DEF q, r
<1>4. y = [f \in Fields |-> y[f]] BY <1>1 DEF Fields
<1>5. /\ Kept(x, y) /\ KeptToo(x, y)
      /\ y.rows = q /\ y.spare_full = x.spare_full
      /\ y.rows_to_go = x.rows_to_go - num
      /\ y.next_row_out = x.next_row_out + num /\ y.rowgroup_ctr = r
  BY <1>1 DEF Fields, Kept, KeptToo
<1> HIDE DEF y
<1>6. Shape(y) BY <1>3, <1>4, <1>5 DEF Shape
<1> QED BY <1>2, <1>3, <1>5, <1>6 DEF r

(* What follows from the counters.                                         *)
LEMMA EmitsFrom ==
    ASSUME NEW s \in Setups, NEW x, Counters(s, x),
           NEW p \in Int, p < s.output_height, NEW e \in BOOLEAN,
           Upsampler(s, e, p, x), NEW room \in Nat \ {0},
           NEW y, Shape(y), Kept(x, y), KeptToo(x, y),
           NEW n \in 1 .. s.V - Within(s, x),
           n <= room, n <= x.rows_to_go,
           n = s.V - Within(s, x) \/ n = room \/ n = x.rows_to_go,
           Len(y.rows) = Len(x.rows) + n,
           y.rows_to_go = x.rows_to_go - n,
           y.next_row_out \in 0 .. s.V, y.spare_full \in BOOLEAN,
           Within(s, y) = IF Within(s, x) + n = s.V THEN 0
                                                        ELSE Within(s, x) + n,
           y.rowgroup_ctr = IF Within(s, x) + n >= s.V THEN x.rowgroup_ctr + 1
                                            ELSE x.rowgroup_ctr
    PROVE  Emits(s, e, p, x, y, n, room)
<1> DEFINE V == s.V
           H == s.output_height
           w == Within(s, x)
<1>2. V \in 1 .. 4 /\ H \in Nat BY SetupsAre
<1>3. /\ w \in 0 .. V - 1 /\ x.rows_to_go \in 1 .. H /\ x.rows_to_go >= H - p
  BY <1>2 DEF Upsampler, Counters
<1>4. e => x.rows_to_go = H - p \/ Whole(V, H - p + w) BY DEF Upsampler
<1>6. n \in Nat /\ 1 <= n /\ n <= V - w /\ w \in Int /\ V \in Int BY <1>2, <1>3
<1>7. /\ n <= room /\ n <= x.rows_to_go
      /\ n = V - w \/ n = room \/ n = x.rows_to_go
      /\ y.rows_to_go = x.rows_to_go - n
  OBVIOUS
<1>8. Within(s, y) = IF w + n = V THEN 0 ELSE w + n OBVIOUS
<1>9. y.rowgroup_ctr = IF w + n >= V THEN x.rowgroup_ctr + 1 ELSE x.rowgroup_ctr OBVIOUS
<1>10. /\ p \in Int /\ p < H /\ H \in Int /\ 0 <= w /\ w < V
       /\ x.rows_to_go \in Int /\ 1 <= x.rows_to_go /\ x.rows_to_go <= H
       /\ x.rows_to_go >= H - p
  BY <1>2, <1>3
<1> HIDE DEF w
<1>13. e => /\ p + n <= H
            /\ y.rows_to_go = H - (p + n) \/ Whole(V, H - (p + n) + Within(s, y))
            /\ n = V - w \/ n = room \/ p + n = H
  <2>1. CASE x.rows_to_go = H - p
    <3>1. y.rows_to_go = H - (p + n) BY <1>6, <1>7, <1>10, <2>1
    <3>2. p + n <= H BY <1>6, <1>7, <1>10, <2>1
    <3>3. n = V - w \/ n = room \/ p + n = H BY <1>6, <1>7, <1>10, <2>1
    <3> QED BY <3>1, <3>2, <3>3
  <2>2. CASE Whole(V, H - p + w)
    <3> DEFINE t == H - p + w
    <3>1. t \in Int /\ t > 0 BY <1>6, <1>10
    <3>2. Whole(V, t - V) /\ t >= V
      <4> HIDE DEF t
      <4> QED BY <1>2, <2>2, <3>1, WholeGroups DEF t
    <3>3. p + n <= H BY <1>6, <1>10, <3>2
    <3>4. n = V - w \/ n = room \/ p + n = H BY <1>6, <1>7, <1>10, <3>3
    <3>5. CASE w + n = V
      <4>1. Within(s, y) = 0 BY <1>8, <3>5
      <4>2. H - (p + n) + 0 = t - V BY <1>6, <1>10, <3>5
      <4> QED BY <3>2, <3>3, <3>4, <4>1, <4>2
    <3>6. CASE w + n # V
      <4>1. Within(s, y) = w + n BY <1>8, <3>6
      <4>2. H - (p + n) + (w + n) = t BY <1>6, <1>10
      <4> QED BY <2>2, <3>3, <3>4, <4>1, <4>2
    <3> QED BY <3>5, <3>6
  <2> QED BY <1>4, <2>1, <2>2
<1>14. Upsampler(s, e, p + n, y)
  <2>1. Within(s, y) \in 0 .. V - 1
    <3>1. CASE w + n = V BY <1>2, <1>8, <3>1
    <3>2. CASE w + n # V
      <4>1. w + n \in Int /\ 0 <= w + n /\ w + n <= V BY <1>6, <1>10
      <4>2. w + n \in 0 .. V - 1
        <5> DEFINE k == w + n
        <5> HIDE DEF k
        <5>1. k \in 0 .. V - 1 BY <1>6, <3>2, <4>1 DEF k
        <5> QED BY <5>1 DEF k
      <4> QED BY <1>8, <3>2, <4>2
    <3> QED BY <3>1, <3>2
  <2>2. y.rows_to_go >= H - (p + n) BY <1>6, <1>7, <1>10
  <2> QED BY <1>13, <2>1, <2>2 DEF Upsampler
<1>15. Advances(s, e, p, x, y, n)
  <2>1. w + n >= V <=> n = V - w BY <1>6
  <2>2. w + n = V <=> n = V - w BY <1>6
  <2>3. y.rows_to_go \in 0 .. H
    <3>1. x.rows_to_go - n \in 0 .. H BY <1>6, <1>7, <1>10
    <3> QED BY <1>7, <3>1
  <2>4. n \in 1 .. V - w BY <1>6
  <2> QED BY <1>8, <1>9, <1>13, <1>14, <2>1, <2>2, <2>3, <2>4 DEF Advances, w
<1>16. n = V - w \/ n = room \/ (e => p + n = H) BY <1>13
<1> QED BY <1>7, <1>15, <1>16 DEF Emits, w

(* sep_upsample hands out what is left of the row group, or what there is  *)
(* room for, or what is left of the image.                                 *)
LEMMA SepEmits ==
    ASSUME setup \in Setups, ~using_merged_upsample,
           NEW x, Shape(x), Counters(setup, x),
           NEW p \in Int, p < setup.output_height, NEW e \in BOOLEAN,
           Upsampler(setup, e, p, x), NEW room \in Nat \ {0}
    PROVE  \E n \in 1 .. 4 : Emits(setup, e, p, x, sep_upsample(x, room), n, room)
<1> DEFINE z == IF x.next_row_out >= max_v_samp_factor THEN FillColorBuf(x) ELSE x
           y == EmitRows(z, room)
           V == setup.V
           H == setup.output_height
           w == Within(setup, x)
           n == Min3(V - w, x.rows_to_go, room)
<1>1. sep_upsample(x, room) = y BY DEF sep_upsample
<1>2. /\ V \in 1 .. 4 /\ H \in Nat /\ setup.kind # "merged" /\ max_v_samp_factor = V
  BY SetupsAre DEF using_merged_upsample, max_v_samp_factor
<1>3. /\ w \in 0 .. V - 1 /\ x.rows_to_go \in 1 .. H /\ x.rows_to_go >= H - p
      /\ x.next_row_out \in 0 .. V
      /\ w = IF x.next_row_out = V THEN 0 ELSE x.next_row_out
      /\ x.spare_full \in BOOLEAN
  BY <1>2 DEF Upsampler, Counters, Within
<1>4. e => x.rows_to_go = H - p \/ Whole(V, H - p + w) BY DEF Upsampler
<1>5. /\ Shape(z) /\ Kept(x, z) /\ KeptToo(x, z)
      /\ z.rows = x.rows /\ z.spare_full = x.spare_full
      /\ z.rows_to_go = x.rows_to_go /\ z.rowgroup_ctr = x.rowgroup_ctr
      /\ z.next_row_out = w
  <2>1. CASE x.next_row_out = V
    <3>1. z = FillColorBuf(x) BY <1>2, <2>1
    <3> HIDE DEF z
    <3> QED BY <1>3, <2>1, <3>1, FillShape
  <2>2. CASE x.next_row_out # V
    <3>1. z = x BY <1>2, <1>3, <2>2
    <3> HIDE DEF z
    <3> QED BY <1>3, <2>2, <3>1 DEF Kept, KeptToo
  <2> QED BY <2>1, <2>2
<1> HIDE DEF w, z
<1>6. /\ n \in 1 .. V - w /\ n <= room /\ n <= x.rows_to_go
      /\ n = V - w \/ n = room \/ n = x.rows_to_go
  BY <1>2, <1>3 DEF Min3, Min2
<1>7. n = Min3(max_v_samp_factor - z.next_row_out, z.rows_to_go, room)
  BY <1>2, <1>5
<1> HIDE DEF n
<1>8. n \in Nat BY <1>2, <1>3, <1>6
<1>9. /\ Shape(y) /\ Kept(z, y) /\ KeptToo(z, y)
      /\ Len(y.rows) = Len(z.rows) + n
      /\ y.spare_full = z.spare_full
      /\ y.rows_to_go = z.rows_to_go - n
      /\ y.next_row_out = z.next_row_out + n
      /\ y.rowgroup_ctr = IF z.next_row_out + n >= V
                            THEN z.rowgroup_ctr + 1 ELSE z.rowgroup_ctr
  BY <1>2, <1>5, <1>7, <1>8, EmitShape
<1> HIDE DEF y
<1>10. /\ y.spare_full = x.spare_full /\ y.rows_to_go = x.rows_to_go - n
       /\ y.next_row_out = w + n
       /\ y.rowgroup_ctr = IF w + n >= V THEN x.rowgroup_ctr + 1 ELSE x.rowgroup_ctr
       /\ Len(y.rows) = Len(x.rows) + n
  BY <1>5, <1>9
<1>11. Kept(x, y) /\ KeptToo(x, y) BY <1>5, <1>9 DEF Kept, KeptToo
<1>12. Within(setup, y) = IF w + n = V THEN 0 ELSE w + n
  BY <1>2, <1>10 DEF Within
<1>13. w + n <= V /\ w + n \in Nat BY <1>2, <1>3, <1>6, <1>8
<1>14. y.next_row_out \in 0 .. setup.V BY <1>2, <1>10, <1>13
<1>15. Emits(setup, e, p, x, y, n, room)
  <2>1. w = Within(setup, x) BY DEF w
  <2> QED BY <1>3, <1>6, <1>9, <1>10, <1>11, <1>12, <1>14, <2>1, EmitsFrom
<1> QED BY <1>1, <1>2, <1>3, <1>6, <1>15

(* Appending one row.                                                      *)
LEMMA OneMoreRow ==
    ASSUME NEW q, IsSeq(q), NEW row
    PROVE  IsSeq(Append(q, row)) /\ Len(Append(q, row)) = Len(q) + 1
<1> DEFINE A == {q[i] : i \in 1 .. Len(q)}
           r == Append(q, row)
<1>1. q \in Seq(A \cup {row})
  <2>1. q \in Seq(A) BY DEF IsSeq
  <2> QED BY <2>1
<1>2. r \in Seq(A \cup {row}) /\ Len(r) = Len(q) + 1 BY <1>1
<1>3. r \in Seq({r[i] : i \in 1 .. Len(r)})
  <2> HIDE DEF r, A
  <2>1. r = [i \in 1 .. Len(r) |-> r[i]] /\ Len(r) \in Nat BY <1>2
  <2> QED BY <2>1
<1> QED BY <1>2, <1>3 DEF IsSeq

(* What merged_1v_upsample changes.                                        *)
LEMMA Merged1Shape ==
    ASSUME NEW x, Shape(x)
    PROVE  LET y == merged_1v_upsample(x)
           IN  /\ Shape(y) /\ Kept(x, y) /\ KeptToo(x, y)
               /\ Len(y.rows) = Len(x.rows) + 1
               /\ y.spare_full = x.spare_full
               /\ y.rows_to_go = x.rows_to_go
               /\ y.next_row_out = x.next_row_out
               /\ y.rowgroup_ctr = x.rowgroup_ctr + 1
<1> DEFINE q == Append(x.rows, MergedLine(x, 0))
           y == [x EXCEPT !.rows = q, !.rowgroup_ctr = x.rowgroup_ctr + 1]
<1>1. x = [f \in Fields |-> x[f]] /\ IsSeq(x.rows) BY DEF Shape
<1>2. merged_1v_upsample(x) = y BY <1>1 DEF merged_1v_upsample, Fields
<1>3. IsSeq(q) /\ Len(q) = Len(x.rows) + 1 BY <1>1, OneMoreRow
<1> HIDE DEF q
<1>4. y = [f \in Fields |-> y[f]] BY <1>1 DEF Fields
<1>5. /\ Kept(x, y) /\ KeptToo(x, y)
      /\ y.rows = q /\ y.spare_full = x.spare_full
      /\ y.rows_to_go = x.rows_to_go
      /\ y.next_row_out = x.next_row_out /\ y.rowgroup_ctr = x.rowgroup_ctr + 1
  BY <1>1 DEF Fields, Kept, KeptToo
<1> HIDE DEF y
<1>6. Shape(y) BY <1>3, <1>4, <1>5 DEF Shape
<1> QED BY <1>2, <1>3, <1>5, <1>6

(* What merged_2v_upsample changes if the spare row is full.               *)
LEMMA SpareShape ==
    ASSUME NEW x, Shape(x), x.spare_full, NEW room
    PROVE  LET y == merged_2v_upsample(x, room)
           IN  /\ Shape(y) /\ Kept(x, y) /\ KeptToo(x, y)
               /\ Len(y.rows) = Len(x.rows) + 1
               /\ y.spare_full = FALSE
               /\ y.rows_to_go = x.rows_to_go - 1
               /\ y.next_row_out = x.next_row_out
               /\ y.rowgroup_ctr = x.rowgroup_ctr + 1
<1> DEFINE q == Append(x.rows, x.spare_row)
           y == [x EXCEPT !.rows = q, !.spare_full = FALSE,
                          !.rows_to_go = x.rows_to_go - 1,
                          !.rowgroup_ctr = x.rowgroup_ctr + 1]
<1>1. x = [f \in Fields |-> x[f]] /\ IsSeq(x.rows) BY DEF Shape
<1>2. merged_2v_upsample(x, room) = y BY <1>1 DEF merged_2v_upsample, Fields
<1>3. IsSeq(q) /\ Len(q) = Len(x.rows) + 1 BY <1>1, OneMoreRow
<1> HIDE DEF q
<1>4. y = [f \in Fields |-> y[f]] BY <1>1 DEF Fields
<1>5. /\ Kept(x, y) /\ KeptToo(x, y)
      /\ y.rows = q /\ y.spare_full = FALSE
      /\ y.rows_to_go = x.rows_to_go - 1
      /\ y.next_row_out = x.next_row_out /\ y.rowgroup_ctr = x.rowgroup_ctr + 1
  BY <1>1 DEF Fields, Kept, KeptToo
<1> HIDE DEF y
<1>6. Shape(y) BY <1>3, <1>4, <1>5 DEF Shape
<1> QED BY <1>2, <1>3, <1>5, <1>6

(* What merged_2v_upsample changes if it upsamples a row group.            *)
LEMMA Merged2Shape ==
    ASSUME NEW x, Shape(x), ~x.spare_full, NEW room, NEW num \in Nat,
           num = Min3(2, x.rows_to_go, room)
    PROVE  LET y == merged_2v_upsample(x, room)
           IN  /\ Shape(y) /\ Kept(x, y) /\ KeptToo(x, y)
               /\ Len(y.rows) = Len(x.rows) + num
               /\ y.spare_full = (num <= 1)
               /\ y.rows_to_go = x.rows_to_go - num
               /\ y.next_row_out = x.next_row_out
               /\ y.rowgroup_ctr = IF num <= 1 THEN x.rowgroup_ctr
                                               ELSE x.rowgroup_ctr + 1
<1> DEFINE t == [i \in 1 .. num |-> MergedLine(x, i - 1)]
           q == x.rows \o t
           spare == IF num <= 1 THEN MergedLine(x, 1) ELSE x.spare_row
           r == IF num <= 1 THEN x.rowgroup_ctr ELSE x.rowgroup_ctr + 1
           y == [x EXCEPT !.rows = q, !.spare_full = (num <= 1), !.spare_row = spare,
                          !.rows_to_go = x.rows_to_go - num,
                          !.rowgroup_ctr = r]
<1>1. x = [f \in Fields |-> x[f]] /\ IsSeq(x.rows) BY DEF Shape
<1>2. merged_2v_upsample(x, room) = y BY <1>1 DEF merged_2v_upsample, Fields
<1>3. IsSeq(q) /\ Len(q) = Len(x.rows) + num
  <2>1. t = [i \in 1 .. num |-> t[i]] OBVIOUS
  <2> HIDE DEF t
  <2>2. IsSeq(t) /\ Len(t) = num BY <2>1, RowsAreSeq
  <2> QED BY <1>1, <2>2, Appended
<1> HIDE DEF q, r, spare
<1>4. y = [f \in Fields |-> y[f]] BY <1>1 DEF Fields
<1>5. /\ Kept(x, y) /\ KeptToo(x, y)
      /\ y.rows = q /\ y.spare_full = (num <= 1)
      /\ y.rows_to_go = x.rows_to_go - num
      /\ y.next_row_out = x.next_row_out /\ y.rowgroup_ctr = r
  BY <1>1 DEF Fields, Kept, KeptToo
<1> HIDE DEF y
<1>6. Shape(y) BY <1>3, <1>4, <1>5 DEF Shape
<1> QED BY <1>2, <1>3, <1>5, <1>6 DEF r

(* The merged upsampler, as SepEmits says it of the other one.             *)
LEMMA MergedEmits ==
    ASSUME setup \in Setups, using_merged_upsample,
           NEW x, Shape(x), Counters(setup, x),
           NEW p \in Int, p < setup.output_height, NEW e \in BOOLEAN,
           Upsampler(setup, e, p, x), NEW room \in Nat \ {0}
    PROVE  \E n \in 1 .. 4 : Emits(setup, e, p, x, upsample(x, room), n, room)
<1> DEFINE V == setup.V
           H == setup.output_height
           y == upsample(x, room)
<1>1. V \in 1 .. 2 /\ H \in Nat /\ setup.kind = "merged" /\ max_v_samp_factor = V
  BY SetupsAre DEF using_merged_upsample, max_v_samp_factor
<1>2. /\ Within(setup, x) \in 0 .. V - 1 /\ x.rows_to_go \in 1 .. H
      /\ x.next_row_out \in 0 .. V /\ x.spare_full \in BOOLEAN
      /\ Within(setup, x) = IF x.spare_full THEN 1 ELSE 0
  BY <1>1 DEF Upsampler, Counters, Within
<1>3. CASE V = 1
  <2>1. y = merged_1v_upsample(x) BY <1>1, <1>3 DEF upsample
  <2> HIDE DEF y
  <2>2. /\ Shape(y) /\ Kept(x, y) /\ KeptToo(x, y)
        /\ Len(y.rows) = Len(x.rows) + 1
        /\ y.spare_full = x.spare_full
        /\ y.rows_to_go = x.rows_to_go
        /\ y.next_row_out = x.next_row_out
        /\ y.rowgroup_ctr = x.rowgroup_ctr + 1
    BY <2>1, Merged1Shape
  <2>3. Within(setup, x) = 0 /\ Within(setup, y) = 0
    BY <1>1, <1>2, <1>3, <2>2 DEF Within
  <2>4. Upsampler(setup, e, p + 1, y)
    <3>1. \A t \in Int : Whole(V, t) BY <1>3 DEF Whole
    <3>2. H - (p + 1) + Within(setup, y) \in Int BY <1>1, <2>3
    <3>3. x.rows_to_go >= H - p BY DEF Upsampler
    <3>4. y.rows_to_go >= H - (p + 1) BY <1>1, <1>2, <2>2, <3>3
    <3> QED BY <1>1, <2>3, <3>1, <3>2, <3>4 DEF Upsampler
  <2>5. Advances(setup, e, p, x, y, 1)
    BY <1>1, <1>2, <1>3, <2>2, <2>3, <2>4 DEF Advances
  <2>6. Emits(setup, e, p, x, y, 1, room)
    BY <1>1, <1>3, <2>2, <2>3, <2>5 DEF Emits
  <2> QED BY <2>6 DEF y
<1>4. CASE V = 2 /\ x.spare_full
  <2>1. y = merged_2v_upsample(x, room) BY <1>1, <1>4 DEF upsample
  <2> HIDE DEF y
  <2>2. /\ Shape(y) /\ Kept(x, y) /\ KeptToo(x, y)
        /\ Len(y.rows) = Len(x.rows) + 1
        /\ y.spare_full = FALSE
        /\ y.rows_to_go = x.rows_to_go - 1
        /\ y.next_row_out = x.next_row_out
        /\ y.rowgroup_ctr = x.rowgroup_ctr + 1
    BY <1>4, <2>1, SpareShape
  <2>3. Within(setup, x) = 1 /\ Within(setup, y) = 0
    BY <1>1, <1>2, <1>4, <2>2 DEF Within
  <2>4. /\ 1 \in 1 .. V - Within(setup, x) /\ 1 <= room /\ 1 <= x.rows_to_go
        /\ 1 = V - Within(setup, x)
        /\ y.next_row_out \in 0 .. V /\ y.spare_full \in BOOLEAN
        /\ Within(setup, y) = IF Within(setup, x) + 1 = V THEN 0
                                                         ELSE Within(setup, x) + 1
        /\ y.rowgroup_ctr = IF Within(setup, x) + 1 >= V THEN x.rowgroup_ctr + 1
                                                        ELSE x.rowgroup_ctr
    <3>1. /\ 1 \in 1 .. V - 1 /\ 1 <= room /\ 1 <= x.rows_to_go /\ 1 = V - 1
          /\ 1 + 1 = V /\ 1 + 1 >= V
      BY <1>2, <1>4
    <3>2. y.next_row_out \in 0 .. V /\ y.spare_full \in BOOLEAN BY <1>2, <2>2
    <3> QED BY <2>2, <2>3, <3>1, <3>2
  <2>5. Emits(setup, e, p, x, y, 1, room) BY <2>2, <2>4, EmitsFrom
  <2> QED BY <2>5 DEF y
<1>5. CASE V = 2 /\ ~x.spare_full
  <2> DEFINE n == Min3(2, x.rows_to_go, room)
  <2>0. n \in 1 .. 2 /\ n <= room /\ n <= x.rows_to_go
        /\ (n = 2 \/ n = room \/ n = x.rows_to_go)
    BY <1>1, <1>2 DEF Min3, Min2
  <2>1. y = merged_2v_upsample(x, room) BY <1>1, <1>5 DEF upsample
  <2> HIDE DEF y
  <2>2. /\ Shape(y) /\ Kept(x, y) /\ KeptToo(x, y)
        /\ Len(y.rows) = Len(x.rows) + n
        /\ y.spare_full = (n <= 1)
        /\ y.rows_to_go = x.rows_to_go - n
        /\ y.next_row_out = x.next_row_out
        /\ y.rowgroup_ctr = IF n <= 1 THEN x.rowgroup_ctr ELSE x.rowgroup_ctr + 1
    <3>1. n \in Nat BY <2>0
    <3> HIDE DEF n
    <3>2. n = Min3(2, x.rows_to_go, room) BY DEF n
    <3> QED BY <1>5, <2>1, <3>1, <3>2, Merged2Shape
  <2> HIDE DEF n
  <2>3. Within(setup, x) = 0 /\ Within(setup, y) = IF n = 2 THEN 0 ELSE n
    <3>1. CASE n = 1
      <4>1. n <= 1 BY <3>1
      <4>2. y.spare_full BY <2>2, <4>1, Zenon
      <4> QED BY <1>1, <1>2, <1>5, <3>1, <4>2 DEF Within
    <3>2. CASE n = 2 BY <1>1, <1>2, <1>5, <2>2, <3>2 DEF Within
    <3> QED BY <2>0, <3>1, <3>2
  <2>4. /\ n \in 1 .. V - Within(setup, x)
        /\ n = V - Within(setup, x) \/ n = room \/ n = x.rows_to_go
        /\ y.next_row_out \in 0 .. V /\ y.spare_full \in BOOLEAN
        /\ Within(setup, y) = IF Within(setup, x) + n = V THEN 0
                                                         ELSE Within(setup, x) + n
    BY <1>1, <1>2, <1>5, <2>0, <2>2, <2>3
  <2>5. y.rowgroup_ctr = IF Within(setup, x) + n >= V THEN x.rowgroup_ctr + 1
                                                    ELSE x.rowgroup_ctr
    BY <1>1, <1>2, <1>5, <2>0, <2>2, <2>3
  <2>6. Emits(setup, e, p, x, y, n, room) BY <2>0, <2>2, <2>4, <2>5, EmitsFrom
  <2> QED BY <2>0, <2>6 DEF y
<1> QED BY <1>1, <1>2, <1>3, <1>4, <1>5

(* Whichever the upsampler is.                                             *)
LEMMA UpsampleEmits ==
    ASSUME setup \in Setups,
           NEW x, Shape(x), Counters(setup, x),
           NEW p \in Int, p < setup.output_height, NEW e \in BOOLEAN,
           Upsampler(setup, e, p, x), NEW room \in Nat \ {0}
    PROVE  \E n \in 1 .. 4 : Emits(setup, e, p, x, upsample(x, room), n, room)
<1>1. CASE using_merged_upsample BY <1>1, MergedEmits
<1>2. CASE ~using_merged_upsample
  <2>1. upsample(x, room) = sep_upsample(x, room) BY <1>2 DEF upsample
  <2> QED BY <1>2, <2>1, SepEmits
<1> QED BY <1>1, <1>2

-----------------------------------------------------------------------------
(* The postprocessor.                                                      *)
SameUpsampler(x, y) ==
    /\ y.next_row_out = x.next_row_out /\ y.spare_full = x.spare_full
    /\ y.rows_to_go = x.rows_to_go /\ y.rowgroup_ctr = x.rowgroup_ctr

(* Counting the rows handed out changes out_row_ctr only.                  *)
LEMMA CountShape ==
    ASSUME NEW x, NEW y, Shape(y)
    PROVE  LET z == CountRows(x, y)
           IN  /\ Shape(z) /\ Kept(y, z) /\ SameUpsampler(y, z) /\ z.rows = y.rows
               /\ z.starting_row = y.starting_row /\ z.next_row = y.next_row
               /\ z.out_row_ctr = y.out_row_ctr + Emitted(x, y)
<1> DEFINE c == y.out_row_ctr + Emitted(x, y)
           z == [y EXCEPT !.out_row_ctr = c]
<1>1. y = [f \in Fields |-> y[f]] BY DEF Shape
<1>2. CountRows(x, y) = z BY <1>1 DEF CountRows, Fields
<1> HIDE DEF c
<1>3. z = [f \in Fields |-> z[f]] BY <1>1 DEF Fields
<1>4. /\ Kept(y, z) /\ SameUpsampler(y, z) /\ z.rows = y.rows
      /\ z.starting_row = y.starting_row /\ z.next_row = y.next_row
      /\ z.out_row_ctr = c
  BY <1>1 DEF Fields, Kept, SameUpsampler
<1> HIDE DEF z
<1>5. Shape(z) BY <1>3, <1>4 DEF Shape
<1> QED BY <1>2, <1>4, <1>5 DEF c

(* Storing the rows of the dummy pass changes whole_image and rows only.   *)
LEMMA StoreShape ==
    ASSUME NEW x, NEW y, Shape(y)
    PROVE  LET z == StoreRows(x, y)
           IN  /\ Shape(z) /\ Kept(y, z) /\ SameUpsampler(y, z) /\ Len(z.rows) = 0
               /\ z.starting_row = y.starting_row /\ z.next_row = y.next_row
               /\ z.out_row_ctr = y.out_row_ctr
<1> DEFINE first == x.starting_row + x.next_row
           image == [r \in DOMAIN y.whole_image |->
                        IF r \in first .. first + Emitted(x, y) - 1
                          THEN y.rows[r - first + 1] ELSE y.whole_image[r]]
           z == [y EXCEPT !.rows = << >>, !.whole_image = image]
<1>1. y = [f \in Fields |-> y[f]] BY DEF Shape
<1>2. StoreRows(x, y) = z BY <1>1 DEF StoreRows, Fields
<1> HIDE DEF image
<1>3. z = [f \in Fields |-> z[f]] BY <1>1 DEF Fields
<1>4. /\ Kept(y, z) /\ SameUpsampler(y, z) /\ z.rows = << >>
      /\ z.starting_row = y.starting_row /\ z.next_row = y.next_row
      /\ z.out_row_ctr = y.out_row_ctr
  BY <1>1 DEF Fields, Kept, SameUpsampler
<1> HIDE DEF z
<1>5. IsSeq(<< >>) /\ Len(<< >>) = 0 BY DEF IsSeq
<1>6. Shape(z) BY <1>3, <1>4, <1>5 DEF Shape
<1> QED BY <1>2, <1>4, <1>5, <1>6

(* The place in the strips goes on by n rows.                              *)
LEMMA StripShape ==
    ASSUME NEW x, Shape(x), NEW n,
           max_v_samp_factor \in Nat, n \in Nat, x.next_row \in Nat, x.starting_row \in Nat,
           x.next_row + n <= max_v_samp_factor, max_v_samp_factor > 0
    PROVE  LET z == AdvanceStrip(x, n)
           IN  /\ Shape(z) /\ Kept(x, z) /\ SameUpsampler(x, z) /\ z.rows = x.rows
               /\ z.starting_row \in Nat /\ z.next_row \in 0 .. max_v_samp_factor - 1
               /\ z.starting_row + z.next_row = x.starting_row + x.next_row + n
               /\ z.out_row_ctr = x.out_row_ctr
<1> DEFINE V == max_v_samp_factor
<1>0. x = [f \in Fields |-> x[f]] BY DEF Shape
<1>1. CASE x.next_row + n >= V
  <2> DEFINE z == [x EXCEPT !.starting_row = x.starting_row + V, !.next_row = 0]
  <2>1. AdvanceStrip(x, n) = z BY <1>0, <1>1 DEF AdvanceStrip, Fields
  <2> HIDE DEF V
  <2>2. z = [f \in Fields |-> z[f]] BY <1>0 DEF Fields
  <2>3. /\ Kept(x, z) /\ SameUpsampler(x, z) /\ z.rows = x.rows
        /\ z.starting_row = x.starting_row + V /\ z.next_row = 0
        /\ z.out_row_ctr = x.out_row_ctr
    BY <1>0 DEF Fields, Kept, SameUpsampler
  <2> HIDE DEF z
  <2>4. Shape(z) BY <2>2, <2>3 DEF Shape
  <2>5. /\ z.starting_row \in Nat /\ z.next_row \in 0 .. V - 1
        /\ z.starting_row + z.next_row = x.starting_row + x.next_row + n
    BY <1>1, <2>3 DEF V
  <2> QED BY <2>1, <2>3, <2>4, <2>5 DEF V
<1>2. CASE ~(x.next_row + n >= V)
  <2> DEFINE z == [x EXCEPT !.next_row = x.next_row + n]
  <2>1. AdvanceStrip(x, n) = z BY <1>0, <1>2 DEF AdvanceStrip, Fields
  <2>2. z = [f \in Fields |-> z[f]] BY <1>0 DEF Fields
  <2>3. /\ Kept(x, z) /\ SameUpsampler(x, z) /\ z.rows = x.rows
        /\ z.starting_row = x.starting_row /\ z.next_row = x.next_row + n
        /\ z.out_row_ctr = x.out_row_ctr
    BY <1>0 DEF Fields, Kept, SameUpsampler
  <2> HIDE DEF z
  <2>4. Shape(z) BY <2>2, <2>3 DEF Shape
  <2>5. /\ z.starting_row \in Nat /\ z.next_row \in 0 .. V - 1
        /\ z.starting_row + z.next_row = x.starting_row + x.next_row + n
    BY <1>2, <2>3
  <2> QED BY <2>1, <2>3, <2>4, <2>5
<1> QED BY <1>1, <1>2

(* Advances is about the fields of SameUpsampler only.                     *)
LEMMA AdvancesSame ==
    ASSUME NEW s, NEW e \in BOOLEAN, NEW p, NEW x, NEW y, NEW n,
           Advances(s, e, p, x, y, n), NEW z, SameUpsampler(y, z)
    PROVE  Advances(s, e, p, x, z, n)
<1>1. Within(s, z) = Within(s, y) BY DEF SameUpsampler, Within
<1>2. Upsampler(s, e, p + n, z)
  BY <1>1 DEF SameUpsampler, Upsampler, Advances
<1> QED BY <1>1, <1>2 DEF SameUpsampler, Advances

(* The postprocessor makes x into y, which has n lines more.               *)
Posts(s, e, p, x, y, n, avail) ==
    /\ Shape(y) /\ Kept(x, y)
    /\ y.out_row_ctr = x.out_row_ctr + n
    /\ Advances(s, e, p, x, y, n)
    /\ y.next_row \in 0 .. s.V - 1 /\ y.starting_row \in Nat
    /\ pass = "read" => /\ y.out_row_ctr <= avail
                        /\ \/ n = s.V - Within(s, x)
                           \/ y.out_row_ctr = avail
                           \/ e => p + n = s.output_height

(* The postprocessor hands out a line at least, and in a call no more than *)
(* the call has room for; in the dummy pass its place in the strip stays   *)
(* in range.                                                               *)
LEMMA PostEmits ==
    ASSUME setup \in Setups, pass \in {"read", "dummy"},
           NEW x, Shape(x), Counters(setup, x),
           NEW p \in Int, p < setup.output_height, NEW e \in BOOLEAN,
           Upsampler(setup, e, p, x), NEW avail \in Nat,
           x.out_row_ctr \in Nat, pass = "read" => x.out_row_ctr < avail
    PROVE  \E n \in 1 .. 4 : Posts(setup, e, p, x, post_process_data(x, avail), n, avail)
<1> DEFINE V == setup.V
           H == setup.output_height
           y == post_process_data(x, avail)
           w == Within(setup, x)
<1>1. V \in 1 .. 4 /\ H \in Nat /\ max_v_samp_factor = V
  BY SetupsAre DEF max_v_samp_factor
<1>2. w \in 0 .. V - 1 /\ x.next_row \in 0 .. V - 1 /\ x.starting_row \in Nat
  BY <1>1 DEF Upsampler, Counters
<1>3. CASE pass = "dummy"
  <2> DEFINE room == V - x.next_row
             u == upsample(x, room)
  <2>1. y = KeepRows(x, u) BY <1>1, <1>3 DEF post_process_data, post_process_prepass
  <2>2. room \in Nat \ {0} BY <1>1, <1>2
  <2>3. PICK n \in 1 .. 4 : Emits(setup, e, p, x, u, n, room)
    <3> HIDE DEF room
    <3> QED BY <2>2, UpsampleEmits
  <2> HIDE DEF u, y, room
  <2>4. /\ Shape(u) /\ Kept(x, u) /\ KeptToo(x, u) /\ n <= room
        /\ Advances(setup, e, p, x, u, n)
    BY <2>3 DEF Emits
  <2>5. Emitted(x, u) = n
    <3>1. Len(u.rows) = Len(x.rows) + n BY <2>3 DEF Emits
    <3>2. Len(x.rows) \in Nat
      <4>1. x.rows \in Seq({x.rows[i] : i \in 1 .. Len(x.rows)}) BY DEF Shape, IsSeq
      <4> QED BY <4>1
    <3> QED BY <3>1, <3>2 DEF Emitted
  <2> DEFINE c == CountRows(x, u)
             t == StoreRows(x, c)
  <2>6. /\ Shape(c) /\ Kept(u, c) /\ SameUpsampler(u, c)
        /\ c.starting_row = u.starting_row /\ c.next_row = u.next_row
        /\ c.out_row_ctr = u.out_row_ctr + n
    BY <2>4, <2>5, CountShape
  <2> HIDE DEF c
  <2>7. /\ Shape(t) /\ Kept(c, t) /\ SameUpsampler(c, t)
        /\ t.starting_row = c.starting_row /\ t.next_row = c.next_row
        /\ t.out_row_ctr = c.out_row_ctr
    BY <2>6, StoreShape
  <2>8. y = AdvanceStrip(t, n) BY <2>1, <2>5 DEF KeepRows, c
  <2> HIDE DEF t
  <2>9. /\ t.next_row = x.next_row /\ t.starting_row = x.starting_row
        /\ t.out_row_ctr = x.out_row_ctr + n
    BY <2>4, <2>6, <2>7 DEF KeptToo
  <2>10. t.next_row + n <= V BY <1>1, <1>2, <2>4, <2>9 DEF room
  <2>11. /\ t.next_row \in Nat /\ t.starting_row \in Nat /\ n \in Nat
         /\ max_v_samp_factor \in Nat /\ max_v_samp_factor > 0
         /\ t.next_row + n <= max_v_samp_factor
    <3>1. t.next_row \in Nat /\ t.starting_row \in Nat /\ n \in Nat BY <1>1, <1>2, <2>9
    <3>2. max_v_samp_factor \in Nat /\ max_v_samp_factor > 0 BY <1>1
    <3> QED BY <1>1, <2>10, <3>1, <3>2
  <2>12. /\ Shape(y) /\ Kept(t, y) /\ SameUpsampler(t, y)
         /\ y.starting_row \in Nat /\ y.next_row \in 0 .. V - 1
         /\ y.out_row_ctr = t.out_row_ctr
    BY <1>1, <2>7, <2>8, <2>11, StripShape
  <2>13. Kept(x, y) BY <2>4, <2>6, <2>7, <2>12 DEF Kept
  <2>14. SameUpsampler(u, y) BY <2>6, <2>7, <2>12 DEF SameUpsampler
  <2>15. Advances(setup, e, p, x, y, n) BY <2>4, <2>14, AdvancesSame
  <2>16. Posts(setup, e, p, x, y, n, avail)
    BY <1>3, <2>9, <2>12, <2>13, <2>15 DEF Posts
  <2> QED BY <2>16 DEF y
<1>4. CASE pass = "read"
  <2> DEFINE room == IF setup.quant = "none" THEN avail - x.out_row_ctr
                     ELSE Min2(avail - x.out_row_ctr, V)
             u == upsample(x, room)
  <2>1. y = CountRows(x, u) BY <1>1, <1>4 DEF post_process_data, post_process_1pass
  <2>2. /\ room \in Nat \ {0} /\ room <= avail - x.out_row_ctr
        /\ room = V \/ room = avail - x.out_row_ctr
    <3>1. avail - x.out_row_ctr \in Nat \ {0} BY <1>4
    <3> QED BY <1>1, <3>1 DEF Min2
  <2>3. PICK n \in 1 .. 4 : Emits(setup, e, p, x, u, n, room)
    <3> HIDE DEF room
    <3> QED BY <2>2, UpsampleEmits
  <2> HIDE DEF u, y, room
  <2>4. /\ Shape(u) /\ Kept(x, u) /\ KeptToo(x, u) /\ n <= room
        /\ Advances(setup, e, p, x, u, n)
        /\ n = V - w \/ n = room \/ (e => p + n = H)
    BY <2>3 DEF Emits
  <2>5. Emitted(x, u) = n
    <3>1. Len(u.rows) = Len(x.rows) + n BY <2>3 DEF Emits
    <3>2. Len(x.rows) \in Nat
      <4>1. x.rows \in Seq({x.rows[i] : i \in 1 .. Len(x.rows)}) BY DEF Shape, IsSeq
      <4> QED BY <4>1
    <3> QED BY <3>1, <3>2 DEF Emitted
  <2>6. /\ Shape(y) /\ Kept(u, y) /\ SameUpsampler(u, y)
        /\ y.starting_row = u.starting_row /\ y.next_row = u.next_row
        /\ y.out_row_ctr = u.out_row_ctr + n
    BY <2>1, <2>4, <2>5, CountShape
  <2>7. Kept(x, y) BY <2>4, <2>6 DEF Kept
  <2>8. Advances(setup, e, p, x, y, n) BY <2>4, <2>6, AdvancesSame
  <2>9. /\ y.next_row \in 0 .. V - 1 /\ y.starting_row \in Nat
        /\ y.out_row_ctr = x.out_row_ctr + n
    BY <1>2, <2>4, <2>6 DEF KeptToo
  <2>10. y.out_row_ctr <= avail BY <2>2, <2>4, <2>9
  <2>11. n = V - w \/ y.out_row_ctr = avail \/ (e => p + n = H)
    <3>1. n <= V - w BY <1>1, <1>2, <2>8 DEF Advances
    <3>2. CASE n = room /\ room = V BY <1>1, <1>2, <3>1, <3>2
    <3>3. CASE n = room /\ room = avail - x.out_row_ctr BY <2>9, <3>3
    <3> QED BY <2>2, <2>4, <3>2, <3>3
  <2>12. Posts(setup, e, p, x, y, n, avail)
    BY <2>6, <2>7, <2>8, <2>9, <2>10, <2>11 DEF Posts
  <2> QED BY <2>12 DEF y
<1> QED BY <1>3, <1>4

-----------------------------------------------------------------------------
(* The workspace and the pointer lists.                                    *)
LEMMA SameSizes ==
    ASSUME NEW c \in Components
    PROVE  /\ rgroup(c) = SampleRows(setup, c) /\ WorkRows(c) = BufferRows(setup, c)
           /\ ListRows(c) = PointerRows(setup, c)
           /\ downsampled_height(c) = SampleHeight(setup, c)
BY DEF rgroup, SampleRows, max_v_samp_factor, WorkRows, BufferRows, GroupsInBuffer, M,
       need_context_rows, ListRows, PointerRows, downsampled_height, SampleHeight,
       output_height

(* A row group has one to four sample rows.                                *)
LEMMA SampleRowsAre ==
    ASSUME NEW s \in Setups, NEW c \in Components
    PROVE  SampleRows(s, c) \in 1 .. 4
BY SetupsAre DEF SampleRows

(* What is decoded is a sample row of the component, or padding.           *)
LEMMA SampleIn ==
    ASSUME setup \in Setups, NEW c \in Components, NEW r \in Nat
    PROVE  Sample(c, r) \in 0 .. SampleHeight(setup, c) - 1 \cup {Padding}
<1>1. SampleHeight(setup, c) \in Nat
  <2> DEFINE a == setup.output_height * SampleRows(setup, c)
  <2>1. a \in Nat \ {0} /\ setup.V \in Nat \ {0} BY SetupsAre, SampleRowsAre
  <2> HIDE DEF a
  <2>2. CeilDiv(a, setup.V) \in Nat BY <2>1, CeilIsNat
  <2> QED BY <2>2 DEF SampleHeight, a
<1>2. Sample(c, r) = IF r < SampleHeight(setup, c) THEN r ELSE Padding
  BY SameSizes DEF Sample
<1>3. CASE r < SampleHeight(setup, c) BY <1>1, <1>2, <1>3
<1>4. CASE ~(r < SampleHeight(setup, c)) BY <1>2, <1>4
<1> QED BY <1>3, <1>4

(* decompress_data fills the workspace and counts the iMCU row.            *)
LEMMA DecompressShape ==
    ASSUME setup \in Setups, NEW x, Shape(x), Buffers(setup, x),
           x.output_iMCU_row \in Nat
    PROVE  LET z == decompress_data(x)
           IN  /\ Shape(z) /\ Buffers(setup, z) /\ SameUpsampler(x, z) /\ KeptToo(x, z)
               /\ z.rows = x.rows /\ z.output_scanline = x.output_scanline
               /\ z.rowgroups_avail = x.rowgroups_avail
               /\ z.whichptr = x.whichptr /\ z.context_state = x.context_state
               /\ z.buffer_full = TRUE
               /\ z.output_iMCU_row = x.output_iMCU_row + 1
               /\ z.iMCU_row_ctr = IF setup.kind = "context" THEN x.iMCU_row_ctr + 1
                                                             ELSE x.iMCU_row_ctr
<1> DEFINE first(c) == x.output_iMCU_row * M * rgroup(c)
           target(c, k) == WorkRow(x, x.whichptr, c, k)
           Filled(c) == 0 .. M * rgroup(c) - 1
           row(c, r) == IF \E k \in Filled(c) : target(c, k) = r
                          THEN Sample(c, first(c) + CHOOSE k \in Filled(c) :
                                                        target(c, k) = r)
                          ELSE x.buffer[c][r]
           b == [c \in Components |-> [r \in WorkRows(c) |-> row(c, r)]]
           k1 == IF setup.kind = "context" THEN x.iMCU_row_ctr + 1 ELSE x.iMCU_row_ctr
           z == [x EXCEPT !.buffer = b, !.output_iMCU_row = x.output_iMCU_row + 1,
                          !.iMCU_row_ctr = k1, !.buffer_full = TRUE]
<1>1. x = [f \in Fields |-> x[f]] BY DEF Shape
<1>2. decompress_data(x) = z
  BY <1>1 DEF decompress_data, Fields, need_context_rows
<1>3. BufferOK(setup, b)
  <2>1. SUFFICES ASSUME NEW c \in Components, NEW r \in WorkRows(c)
                 PROVE  row(c, r) \in 0 .. SampleHeight(setup, c) - 1 \cup {Padding}
    <3>1. \A c \in Components : BufferRows(setup, c) = WorkRows(c) BY SameSizes
    <3> HIDE DEF row
    <3> QED BY <2>1, <3>1 DEF BufferOK
  <2>2. CASE \E k \in Filled(c) : target(c, k) = r
    <3> DEFINE k == CHOOSE k \in Filled(c) : target(c, k) = r
    <3>1. k \in Filled(c)
      <4> HIDE DEF Filled, target
      <4> QED BY <2>2
    <3>2. row(c, r) = Sample(c, first(c) + k) BY <2>2
    <3>3. first(c) + k \in Nat
      <4>1. M \in Nat /\ rgroup(c) \in Nat BY SetupsAre, SampleRowsAre, SameSizes DEF M
      <4> HIDE DEF k
      <4>2. k \in Nat BY <3>1, <4>1
      <4>3. first(c) \in Nat BY <4>1
      <4> HIDE DEF first
      <4> QED BY <4>2, <4>3
    <3> HIDE DEF row, k, first
    <3> QED BY <3>2, <3>3, SampleIn
  <2>3. CASE ~\E k \in Filled(c) : target(c, k) = r
    <3>1. row(c, r) = x.buffer[c][r] BY <2>3
    <3>2. r \in BufferRows(setup, c) BY SameSizes
    <3> HIDE DEF row
    <3> QED BY <3>1, <3>2 DEF Buffers, BufferOK
  <2> QED BY <2>2, <2>3
<1> HIDE DEF b, k1
<1>4. z = [f \in Fields |-> z[f]] BY <1>1 DEF Fields
<1>5. /\ SameUpsampler(x, z) /\ KeptToo(x, z)
      /\ z.rows = x.rows /\ z.output_scanline = x.output_scanline
      /\ z.rowgroups_avail = x.rowgroups_avail
      /\ z.whichptr = x.whichptr /\ z.context_state = x.context_state
      /\ z.buffer_full = TRUE
      /\ z.output_iMCU_row = x.output_iMCU_row + 1
      /\ z.iMCU_row_ctr = k1 /\ z.buffer = b /\ z.xbuffer = x.xbuffer
  BY <1>1 DEF Fields, SameUpsampler, KeptToo
<1> HIDE DEF z
<1>6. Shape(z) BY <1>4, <1>5 DEF Shape
<1>7. Buffers(setup, z) BY <1>3, <1>5 DEF Buffers
<1> QED BY <1>2, <1>5, <1>6, <1>7 DEF k1

(* The sizes of the pointer lists, multiplied out.                         *)
LEMMA ListSizes ==
    ASSUME setup \in Setups, setup.kind = "context", NEW c \in Components
    PROVE  /\ rgroup(c) \in 1 .. 4 /\ M \in Nat /\ M >= 2
           /\ (M + 2) * rgroup(c) \in Nat /\ M * rgroup(c) \in Nat
           /\ M * rgroup(c) >= 2 * rgroup(c)
           /\ (M + 2) * rgroup(c) = M * rgroup(c) + 2 * rgroup(c)
           /\ (M + 3) * rgroup(c) = M * rgroup(c) + 3 * rgroup(c)
           /\ BufferRows(setup, c) = 0 .. (M + 2) * rgroup(c) - 1
           /\ PointerRows(setup, c) = -rgroup(c) .. (M + 3) * rgroup(c) - 1
           /\ ListRows(c) = PointerRows(setup, c)
           /\ WorkRows(c) = BufferRows(setup, c)
<1>1. rgroup(c) \in 1 .. 4 BY SampleRowsAre, SameSizes
<1>2. M \in Nat /\ M >= 2 BY SetupsAre DEF M
<1>3. /\ (M + 2) * rgroup(c) \in Nat /\ M * rgroup(c) \in Nat
      /\ (M + 2) * rgroup(c) = M * rgroup(c) + 2 * rgroup(c)
      /\ (M + 3) * rgroup(c) = M * rgroup(c) + 3 * rgroup(c)
  BY <1>1, <1>2
<1>4. M * rgroup(c) >= 2 * rgroup(c) BY <1>1, <1>2, ProductsOrdered
<1> QED BY <1>1, <1>2, <1>3, <1>4, SameSizes DEF BufferRows, PointerRows, M

(* set_wraparound_pointers copies pointers into the workspace only.        *)
LEMMA WraparoundOK ==
    ASSUME setup \in Setups, setup.kind = "context", NEW xb, PointersOK(setup, xb)
    PROVE  PointersOK(setup, set_wraparound_pointers(xb))
<1> DEFINE P(w, c, i) == IF i < 0 THEN xb[w][c][i + (M + 2) * rgroup(c)]
                         ELSE IF i >= (M + 2) * rgroup(c)
                                THEN xb[w][c][i - (M + 2) * rgroup(c)]
                         ELSE xb[w][c][i]
           y == [w \in 0 .. 1 |-> [c \in Components |-> [i \in ListRows(c) |-> P(w, c, i)]]]
<1>1. set_wraparound_pointers(xb) = y BY DEF set_wraparound_pointers
<1>2. ASSUME NEW w \in 0 .. 1, NEW c \in Components, NEW i \in PointerRows(setup, c)
      PROVE  P(w, c, i) \in BufferRows(setup, c) \cup {Unset}
  <2> DEFINE r == rgroup(c)
             m == M * r
             n == (M + 2) * r
  <2>1. /\ r \in 1 .. 4 /\ m \in Nat /\ n \in Nat /\ n = m + 2 * r /\ m >= 2 * r
        /\ PointerRows(setup, c) = -r .. m + 3 * r - 1
    <3>1. (M + 3) * r = m + 3 * r BY ListSizes
    <3>2. PointerRows(setup, c) = -r .. (M + 3) * r - 1 BY ListSizes
    <3>3. m \in Nat /\ r \in 1 .. 4 BY ListSizes
    <3>4. PointerRows(setup, c) = -r .. m + 3 * r - 1
      <4> HIDE DEF m, r
      <4>1. (M + 3) * r - 1 = m + 3 * r - 1 BY <3>1, <3>3
      <4> QED BY <3>2, <4>1
    <3> QED BY <3>4, ListSizes
  <2> HIDE DEF r, m, n
  <2>2. i \in -r .. m + 3 * r - 1 BY <2>1
  <2>3. i < 0 => i + n \in -r .. m + 3 * r - 1 BY <2>1, <2>2
  <2>4. i >= n => i - n \in -r .. m + 3 * r - 1 BY <2>1, <2>2
  <2>5. \A j \in PointerRows(setup, c) :
            xb[w][c][j] \in BufferRows(setup, c) \cup {Unset}
    BY DEF PointersOK
  <2>6. \/ P(w, c, i) = xb[w][c][i + n] /\ i < 0
        \/ P(w, c, i) = xb[w][c][i - n] /\ i >= n
        \/ P(w, c, i) = xb[w][c][i]
    BY DEF r, n
  <2> HIDE DEF P
  <2> QED BY <2>1, <2>2, <2>3, <2>4, <2>5, <2>6
<1> HIDE DEF P
<1>3. ASSUME NEW w \in 0 .. 1, NEW c \in Components, NEW i \in PointerRows(setup, c)
      PROVE  y[w][c][i] = P(w, c, i)
  <2>1. i \in ListRows(c) BY ListSizes
  <2> QED BY <2>1
<1>4. y = [w \in 0 .. 1 |-> y[w]] OBVIOUS
<1> HIDE DEF y
<1>5. PointersOK(setup, y) BY <1>2, <1>3, <1>4 DEF PointersOK
<1> QED BY <1>1, <1>5

(* make_funny_pointers points into the workspace.                          *)
LEMMA MadeOK ==
    ASSUME setup \in Setups, setup.kind = "context"
    PROVE  PointersOK(setup, make_funny_pointers)
<1> DEFINE P(w, c, i) == IF i \in WorkRows(c) THEN IF w = 0 THEN i ELSE Swapped(c, i)
                         ELSE IF w = 0 /\ i < 0 THEN 0
                         ELSE Unset
           y == [w \in 0 .. 1 |-> [c \in Components |-> [i \in ListRows(c) |-> P(w, c, i)]]]
<1>1. make_funny_pointers = y BY DEF make_funny_pointers
<1>2. ASSUME NEW w \in 0 .. 1, NEW c \in Components, NEW i \in PointerRows(setup, c)
      PROVE  P(w, c, i) \in BufferRows(setup, c) \cup {Unset}
  <2> DEFINE r == rgroup(c)
             m == M * r
             n == (M + 2) * r
             g == i \div r
  <2>1. /\ r \in 1 .. 4 /\ m \in Nat /\ n \in Nat /\ n = m + 2 * r /\ m >= 2 * r
        /\ BufferRows(setup, c) = 0 .. n - 1 /\ WorkRows(c) = 0 .. n - 1
        /\ M \in Nat /\ M >= 2
    BY ListSizes
  <2>2. ASSUME i \in WorkRows(c) PROVE Swapped(c, i) \in BufferRows(setup, c)
    <3>1. i \in 0 .. n - 1 BY <2>1, <2>2
    <3>2. g \in Nat /\ i % r \in 0 .. r - 1 /\ i = g * r + (i % r)
      <4>1. i \in Nat /\ r \in Nat \ {0} BY <2>1, <3>1
      <4> HIDE DEF r
      <4> QED BY <4>1, QuotientIs
    <3>3. Swapped(c, i) = IF g \in {M - 2, M - 1} THEN i + 2 * r
                          ELSE IF g \in {M, M + 1} THEN i - 2 * r ELSE i
      BY DEF Swapped
    <3> HIDE DEF g
    <3> HIDE DEF r
    <3>4. g = M - 2 => g * r = m - 2 * r
      <4>1. M - 2 \in Int /\ (M - 2) + 2 = M /\ r \in Int BY <2>1
      <4>2. M * r = (M - 2) * r + 2 * r BY <4>1, Sums
      <4> QED BY <2>1, <4>1, <4>2
    <3>5. g = M - 1 => g * r = m - r
      <4>1. M - 1 \in Int /\ (M - 1) + 1 = M /\ r \in Int BY <2>1
      <4>2. M * r = (M - 1) * r + r BY <4>1, OneMore
      <4> QED BY <2>1, <4>1, <4>2
    <3>6. g = M => g * r = m OBVIOUS
    <3>7. g = M + 1 => g * r = m + r BY <2>1, OneMore
    <3> HIDE DEF m, n
    <3>8. CASE g \in {M - 2, M - 1}
      <4>1. i + 2 * r \in 0 .. n - 1
        <5> HIDE DEF r
        <5> QED BY <2>1, <3>1, <3>2, <3>4, <3>5, <3>8
      <4> QED BY <2>1, <3>3, <3>8, <4>1
    <3>9. CASE g \in {M, M + 1}
      <4>1. g \notin {M - 2, M - 1} BY <2>1, <3>9
      <4>2. i - 2 * r \in 0 .. n - 1
        <5> HIDE DEF r
        <5> QED BY <2>1, <3>1, <3>2, <3>6, <3>7, <3>9
      <4> QED BY <2>1, <3>3, <3>9, <4>1, <4>2
    <3>10. CASE g \notin {M - 2, M - 1} /\ g \notin {M, M + 1}
      BY <2>1, <3>1, <3>3, <3>10
    <3> QED BY <3>8, <3>9, <3>10
  <2>3. 0 \in BufferRows(setup, c) BY <2>1
  <2>4. \/ i \in WorkRows(c) /\ P(w, c, i) = i
        \/ i \in WorkRows(c) /\ P(w, c, i) = Swapped(c, i)
        \/ P(w, c, i) = 0
        \/ P(w, c, i) = Unset
    OBVIOUS
  <2> HIDE DEF P
  <2> QED BY <2>1, <2>2, <2>3, <2>4
<1> HIDE DEF P
<1>3. ASSUME NEW w \in 0 .. 1, NEW c \in Components, NEW i \in PointerRows(setup, c)
      PROVE  y[w][c][i] = P(w, c, i)
  <2>1. i \in ListRows(c) BY ListSizes
  <2> QED BY <2>1
<1>4. y = [w \in 0 .. 1 |-> y[w]] OBVIOUS
<1> HIDE DEF y
<1>5. PointersOK(setup, y) BY <1>2, <1>3, <1>4 DEF PointersOK
<1> QED BY <1>1, <1>5

(* The last iMCU row has sample rows, and no more than another.            *)
LEMMA LeftRows ==
    ASSUME setup \in Setups, NEW c \in Components
    PROVE  rows_left(c) \in 1 .. M * rgroup(c)
<1> DEFINE h == downsampled_height(c)
           m == M * rgroup(c)
<1>1. h \in Nat /\ m \in Nat \ {0}
  <2> DEFINE a == setup.output_height * SampleRows(setup, c)
  <2>1. a \in Nat \ {0} /\ setup.V \in Nat \ {0} BY SetupsAre, SampleRowsAre
  <2>2. M \in Nat \ {0} /\ rgroup(c) \in Nat \ {0}
    BY SetupsAre, SampleRowsAre, SameSizes DEF M
  <2> HIDE DEF a
  <2>3. CeilDiv(a, setup.V) \in Nat BY <2>1, CeilIsNat
  <2>4. h = CeilDiv(a, setup.V) BY SameSizes DEF SampleHeight, a
  <2> QED BY <2>2, <2>3, <2>4
<1>2. rows_left(c) = IF h % m = 0 THEN m ELSE h % m BY DEF rows_left
<1> HIDE DEF h, m
<1>3. h % m \in 0 .. m - 1 BY <1>1, QuotientIs
<1>4. rows_left(c) \in 1 .. m BY <1>1, <1>2, <1>3
<1> QED BY <1>4 DEF m

(* Sample rows of luma are lines.                                          *)
LEMMA LeftLines ==
    ASSUME setup \in Setups
    PROVE  /\ rows_left("luma") \in 1 .. IMCULines(setup)
           /\ (IMCURows(setup) - 1) * IMCULines(setup) + rows_left("luma")
                 >= setup.output_height
<1> DEFINE H == setup.output_height
           V == setup.V
           L == IMCULines(setup)
           T == IMCURows(setup)
<1>1. /\ H \in Nat \ {0} /\ V \in 1 .. 4 /\ L \in Nat \ {0} /\ T \in Nat \ {0}
      /\ T - 1 \in Nat
  BY SetupsAre, SizesAre
<1>2. rgroup("luma") = V /\ M * V = L
  BY DEF rgroup, max_v_samp_factor, M, IMCULines
<1>3. "luma" \in Components BY DEF Components
<1>4. rows_left("luma") \in 1 .. L BY <1>2, <1>3, LeftRows
<1>5. downsampled_height("luma") = H
  <2>1. downsampled_height("luma") = (H * V + V - 1) \div V
    BY <1>2 DEF downsampled_height, CeilDiv, output_height, max_v_samp_factor
  <2>2. CASE V = 1 BY <1>1, <2>1, <2>2
  <2>3. CASE V = 2 BY <1>1, <2>1, <2>3
  <2>4. CASE V = 3 BY <1>1, <2>1, <2>4
  <2>5. CASE V = 4 BY <1>1, <2>1, <2>5
  <2> QED BY <1>1, <2>2, <2>3, <2>4, <2>5
<1>6. rows_left("luma") = IF H % L = 0 THEN L ELSE H % L
  BY <1>2, <1>5 DEF rows_left
<1> DEFINE q == H \div L
<1>7. q \in Nat /\ H % L \in 0 .. L - 1 /\ H = q * L + (H % L)
  <2> HIDE DEF H, L
  <2> QED BY <1>1, QuotientIs
<1>8. \A k \in Nat : k < T <=> k * L < H BY SizesAre
<1> HIDE DEF H, L, T, q
<1>9. (T - 1) * L \in Int /\ q * L \in Int BY <1>1, <1>7
<1>10. CASE H % L = 0
  <2>1. ~(q < T) BY <1>1, <1>7, <1>8, <1>10
  <2>2. T * L <= q * L /\ T * L = (T - 1) * L + L
    <3>1. (T - 1) + 1 = T /\ T - 1 \in Int BY <1>1
    <3> QED BY <1>1, <1>7, <2>1, <3>1, ProductsOrdered, OneMore
  <2>3. q - 1 \in Nat
    <3>1. q # 0 BY <1>1, <1>7, <1>10
    <3> QED BY <1>7, <3>1
  <2>4. (q - 1) * L + L = q * L
    <3>1. (q - 1) + 1 = q BY <1>7
    <3> QED BY <1>1, <2>3, <3>1, OneMore
  <2>5. q - 1 < T
    <3>1. (q - 1) * L \in Int BY <1>1, <2>3
    <3>2. (q - 1) * L < H BY <1>1, <1>7, <1>9, <1>10, <2>4, <3>1
    <3> QED BY <1>8, <2>3, <3>2
  <2>6. T = q BY <1>1, <1>7, <2>1, <2>5
  <2> QED BY <1>1, <1>4, <1>6, <1>7, <1>9, <1>10, <2>2, <2>6 DEF H, L, T
<1>11. CASE H % L # 0
  <2>1. q < T BY <1>1, <1>7, <1>8, <1>9, <1>11
  <2>2. q * L <= (T - 1) * L
    <3>1. q <= T - 1 /\ T - 1 \in Int BY <1>1, <1>7, <2>1
    <3> QED BY <1>1, <1>7, <3>1, ProductsOrdered
  <2> QED BY <1>1, <1>4, <1>6, <1>7, <1>9, <1>11, <2>2 DEF H, L, T
<1> QED BY <1>10, <1>11

(* set_bottom_pointers duplicates a pointer into the workspace.            *)
LEMMA BottomOK ==
    ASSUME setup \in Setups, setup.kind = "context", NEW xb, PointersOK(setup, xb),
           NEW v \in 0 .. 1
    PROVE  PointersOK(setup,
               [xb EXCEPT ![v] = [c \in Components |-> [i \in ListRows(c) |->
                   IF i \in rows_left(c) .. rows_left(c) + 2 * rgroup(c) - 1
                     THEN xb[v][c][rows_left(c) - 1] ELSE xb[v][c][i]]]])
<1> DEFINE P(c, i) == IF i \in rows_left(c) .. rows_left(c) + 2 * rgroup(c) - 1
                        THEN xb[v][c][rows_left(c) - 1] ELSE xb[v][c][i]
           f == [c \in Components |-> [i \in ListRows(c) |-> P(c, i)]]
           y == [xb EXCEPT ![v] = f]
<1>1. xb = [w \in 0 .. 1 |-> xb[w]] BY DEF PointersOK
<1>2. ASSUME NEW c \in Components, NEW i \in PointerRows(setup, c)
      PROVE  P(c, i) \in BufferRows(setup, c) \cup {Unset}
  <2>1. \A j \in PointerRows(setup, c) :
            xb[v][c][j] \in BufferRows(setup, c) \cup {Unset}
    BY DEF PointersOK
  <2>2. rows_left(c) - 1 \in PointerRows(setup, c)
    <3> DEFINE r == rgroup(c)
               m == M * r
    <3>1. rows_left(c) \in 1 .. m BY LeftRows
    <3>2. r \in 1 .. 4 /\ m \in Nat /\ (M + 3) * r = m + 3 * r BY ListSizes
    <3>3. PointerRows(setup, c) = -r .. (M + 3) * r - 1 BY ListSizes
    <3> HIDE DEF r, m
    <3>4. rows_left(c) - 1 \in -r .. (M + 3) * r - 1 BY <3>1, <3>2
    <3> QED BY <3>3, <3>4
  <2>3. P(c, i) = xb[v][c][rows_left(c) - 1] \/ P(c, i) = xb[v][c][i] OBVIOUS
  <2> HIDE DEF P
  <2> QED BY <2>1, <2>2, <2>3
<1> HIDE DEF P
<1>3. ASSUME NEW c \in Components, NEW i \in PointerRows(setup, c)
      PROVE  f[c][i] = P(c, i)
  <2>1. i \in ListRows(c) BY ListSizes
  <2> QED BY <2>1
<1> HIDE DEF f
<1>4. y = [w \in 0 .. 1 |-> y[w]] BY <1>1
<1>5. \A w \in 0 .. 1 : y[w] = IF w = v THEN f ELSE xb[w] BY <1>1
<1> HIDE DEF y
<1>6. ASSUME NEW w \in 0 .. 1, NEW c \in Components, NEW i \in PointerRows(setup, c)
      PROVE  y[w][c][i] \in BufferRows(setup, c) \cup {Unset}
  <2>1. CASE w = v BY <1>2, <1>3, <1>5, <2>1
  <2>2. CASE w # v BY <1>5, <2>2 DEF PointersOK
  <2> QED BY <2>1, <2>2
<1>7. PointersOK(setup, y) BY <1>4, <1>6 DEF PointersOK
<1> QED BY <1>7 DEF y, f, P

(* The row groups counted available at the bottom are those with lines.    *)
LEMMA BottomAvail ==
    ASSUME setup \in Setups
    PROVE  LET avail == (rows_left("luma") - 1) \div rgroup("luma") + 1
           IN  avail \in 1 .. setup.M /\ AvailOK(setup, IMCURows(setup), avail)
<1> DEFINE L == IMCULines(setup)
           T == IMCURows(setup)
           V == setup.V
           r == rows_left("luma") - 1
           q == r \div V
<1>1. /\ L \in Nat \ {0} /\ T \in Nat \ {0} /\ V \in Nat \ {0} /\ setup.M \in Nat \ {0}
      /\ setup.output_height \in Nat /\ L = setup.M * V
  BY SetupsAre, SizesAre DEF IMCULines
<1>2. rgroup("luma") = V BY DEF rgroup, max_v_samp_factor
<1>3. r \in 0 .. L - 1 /\ (T - 1) * L + (r + 1) >= setup.output_height
  <2>1. rows_left("luma") \in 1 .. L /\ (T - 1) * L + rows_left("luma") >= setup.output_height
    BY LeftLines
  <2>2. r + 1 = rows_left("luma") BY <1>1, <2>1
  <2> HIDE DEF L, T
  <2>3. r \in 0 .. L - 1 BY <1>1, <2>1
  <2> HIDE DEF r
  <2> QED BY <2>1, <2>2, <2>3
<1> HIDE DEF r, L, T
<1>4. q \in Nat /\ r % V \in 0 .. V - 1 /\ r = q * V + (r % V)
  <2>1. r \in Nat BY <1>1, <1>3
  <2> HIDE DEF V
  <2> QED BY <1>1, <2>1, QuotientIs
<1> HIDE DEF q, V
<1>5. (q + 1) * V = q * V + V /\ q * V \in Nat BY <1>1, <1>4, OneMore
<1>6. q < setup.M
  <2>1. SUFFICES ASSUME setup.M <= q PROVE FALSE BY <1>1, <1>4
  <2>2. setup.M * V <= q * V BY <1>1, <1>4, <2>1, ProductsOrdered
  <2> QED BY <1>1, <1>3, <1>4, <1>5, <2>2
<1>7. (q + 1) * V >= r + 1 BY <1>1, <1>3, <1>4, <1>5
<1>8. (T - 1) * L + (q + 1) * V >= setup.output_height
  <2>1. (T - 1) * L \in Int /\ (q + 1) * V \in Int BY <1>1, <1>4
  <2> QED BY <1>1, <1>3, <1>7, <2>1
<1>9. q + 1 \in 1 .. setup.M BY <1>1, <1>4, <1>6
<1>10. AvailOK(setup, T, q + 1) BY <1>1, <1>8, <1>9 DEF AvailOK, T, L, V
<1> QED BY <1>2, <1>9, <1>10 DEF q, r, V, T

-----------------------------------------------------------------------------
(* The main buffer controller with context rows.                           *)
SameLines(x, y) ==
    /\ y.next_row_out = x.next_row_out /\ y.spare_full = x.spare_full
    /\ y.rows_to_go = x.rows_to_go /\ y.rows = x.rows
    /\ y.output_scanline = x.output_scanline
    /\ y.iMCU_row_ctr = x.iMCU_row_ctr /\ y.output_iMCU_row = x.output_iMCU_row
    /\ KeptToo(x, y)

(* What the preparation of an iMCU row changes.                            *)
LEMMA PrepareShape ==
    ASSUME setup \in Setups, setup.kind = "context",
           NEW x, Shape(x), Buffers(setup, x), x.whichptr \in 0 .. 1,
           x.iMCU_row_ctr \in 0 .. IMCURows(setup)
    PROVE  LET z == PrepareForIMCU(x)
           IN  /\ Shape(z) /\ Buffers(setup, z) /\ SameLines(x, z)
               /\ z.whichptr = x.whichptr /\ z.buffer_full = x.buffer_full
               /\ z.rowgroup_ctr = 0 /\ z.context_state = "CTX_PROCESS_IMCU"
               /\ z.rowgroups_avail \in 1 .. setup.M
               /\ AvailOK(setup, x.iMCU_row_ctr, z.rowgroups_avail)
<1> DEFINE y == [x EXCEPT !.rowgroup_ctr = 0, !.rowgroups_avail = M - 1,
                          !.context_state = "CTX_PROCESS_IMCU"]
           T == IMCURows(setup)
<1>1. x = [f \in Fields |-> x[f]] BY DEF Shape
<1>2. PrepareForIMCU(x) = SetBottom(y) BY DEF PrepareForIMCU
<1>3. y = [f \in Fields |-> y[f]] BY <1>1 DEF Fields
<1>4. /\ SameLines(x, y) /\ y.whichptr = x.whichptr /\ y.buffer_full = x.buffer_full
      /\ y.rowgroup_ctr = 0 /\ y.context_state = "CTX_PROCESS_IMCU"
      /\ y.rowgroups_avail = M - 1 /\ y.buffer = x.buffer /\ y.xbuffer = x.xbuffer
  BY <1>1 DEF Fields, SameLines, KeptToo
<1> HIDE DEF y
<1>5. Shape(y) /\ Buffers(setup, y)
  BY <1>3, <1>4 DEF Shape, Buffers, SameLines
<1>6. total_iMCU_rows = T /\ M = setup.M /\ T \in Nat
  <2>1. T \in Nat BY SizesAre
  <2> QED BY <2>1 DEF total_iMCU_rows, IMCURows, IMCULines, output_height,
                      lines_per_iMCU_row, M, max_v_samp_factor
<1>7. y.iMCU_row_ctr = x.iMCU_row_ctr BY <1>4 DEF SameLines
<1> HIDE DEF T
<1>8. CASE y.iMCU_row_ctr # T
  <2>1. SetBottom(y) = y BY <1>6, <1>8 DEF SetBottom
  <2>2. M - 1 \in 1 .. setup.M BY <1>6, SetupsAre
  <2>3. x.iMCU_row_ctr < T BY <1>6, <1>7, <1>8 DEF T
  <2>4. AvailOK(setup, x.iMCU_row_ctr, M - 1) BY <1>6, <2>3 DEF AvailOK, T
  <2> QED BY <1>2, <1>4, <1>5, <2>1, <2>2, <2>4
<1>9. CASE y.iMCU_row_ctr = T
  <2> DEFINE v == y.whichptr
             f == [c \in Components |-> [i \in ListRows(c) |->
                     IF i \in rows_left(c) .. rows_left(c) + 2 * rgroup(c) - 1
                       THEN y.xbuffer[v][c][rows_left(c) - 1] ELSE y.xbuffer[v][c][i]]]
             xb == [y.xbuffer EXCEPT ![v] = f]
             avail == (rows_left("luma") - 1) \div rgroup("luma") + 1
             z == [y EXCEPT !.xbuffer = xb, !.rowgroups_avail = avail]
  <2>1. v \in 0 .. 1 BY <1>4
  <2>2. PointersOK(setup, y.xbuffer) BY <1>5 DEF Buffers
  <2>3. PointersOK(setup, xb)
    <3> HIDE DEF v
    <3> QED BY <2>1, <2>2, BottomOK
  <2>4. SetBottom(y) = z
    <3>1. SetBottom(y) = set_bottom_pointers(y) BY <1>6, <1>9 DEF SetBottom
    <3>2. y.xbuffer = [w \in 0 .. 1 |-> y.xbuffer[w]] BY <2>2 DEF PointersOK
    <3>3. set_bottom_pointers(y) = z
      BY <1>3, <2>1, <3>2 DEF set_bottom_pointers, Fields
    <3> QED BY <3>1, <3>3
  <2>5. avail \in 1 .. setup.M /\ AvailOK(setup, T, avail) BY BottomAvail DEF T
  <2> HIDE DEF xb, avail
  <2>6. z = [g \in Fields |-> z[g]] BY <1>3 DEF Fields
  <2>7. /\ SameLines(y, z) /\ z.whichptr = y.whichptr /\ z.buffer_full = y.buffer_full
        /\ z.rowgroup_ctr = y.rowgroup_ctr /\ z.context_state = y.context_state
        /\ z.rowgroups_avail = avail /\ z.buffer = y.buffer /\ z.xbuffer = xb
    BY <1>3 DEF Fields, SameLines, KeptToo
  <2> HIDE DEF z
  <2>8. Shape(z) /\ Buffers(setup, z)
    BY <1>5, <2>3, <2>6, <2>7 DEF Shape, Buffers, SameLines
  <2>9. SameLines(x, z) BY <1>4, <2>7 DEF SameLines, KeptToo
  <2> QED BY <1>2, <1>4, <1>7, <1>9, <2>4, <2>5, <2>7, <2>8, <2>9
<1> QED BY <1>8, <1>9

(* What the postponement of the last row group changes.                    *)
LEMMA PostponeShape ==
    ASSUME setup \in Setups, setup.kind = "context",
           NEW x, Shape(x), Buffers(setup, x), x.whichptr \in 0 .. 1
    PROVE  LET z == PostponeLastGroup(x)
           IN  /\ Shape(z) /\ Buffers(setup, z) /\ SameLines(x, z)
               /\ z.whichptr \in 0 .. 1 /\ z.buffer_full = FALSE
               /\ z.rowgroup_ctr = setup.M + 1 /\ z.rowgroups_avail = setup.M + 2
               /\ z.context_state = "CTX_POSTPONED_ROW"
<1> DEFINE xb == IF x.iMCU_row_ctr = 1 THEN set_wraparound_pointers(x.xbuffer)
                                       ELSE x.xbuffer
           z == [x EXCEPT !.xbuffer = xb, !.whichptr = 1 - x.whichptr,
                          !.buffer_full = FALSE, !.rowgroup_ctr = M + 1,
                          !.rowgroups_avail = M + 2,
                          !.context_state = "CTX_POSTPONED_ROW"]
<1>1. x = [f \in Fields |-> x[f]] BY DEF Shape
<1>2. PostponeLastGroup(x) = z BY <1>1 DEF PostponeLastGroup, Fields
<1>3. PointersOK(setup, xb) BY WraparoundOK DEF Buffers
<1> HIDE DEF xb
<1>4. z = [f \in Fields |-> z[f]] BY <1>1 DEF Fields
<1>5. /\ SameLines(x, z) /\ z.whichptr = 1 - x.whichptr /\ z.buffer_full = FALSE
      /\ z.rowgroup_ctr = M + 1 /\ z.rowgroups_avail = M + 2
      /\ z.context_state = "CTX_POSTPONED_ROW"
      /\ z.buffer = x.buffer /\ z.xbuffer = xb
  BY <1>1 DEF Fields, SameLines, KeptToo
<1> HIDE DEF z
<1>6. Shape(z) /\ Buffers(setup, z)
  BY <1>3, <1>4, <1>5 DEF Shape, Buffers, SameLines
<1>7. 1 - x.whichptr \in 0 .. 1 OBVIOUS
<1> QED BY <1>2, <1>5, <1>6, <1>7 DEF M

(* A call that ends with position p + n.                                   *)
Result(s, e, p, x, y, n, avail) ==
    /\ Shape(y) /\ Counters(s, y) /\ Buffers(s, y)
    /\ y.output_scanline = x.output_scanline
    /\ y.out_row_ctr = x.out_row_ctr + n
    /\ n \in Nat \ {0}
    /\ e => p + n <= s.output_height
    /\ pass = "read" => y.out_row_ctr <= avail
    /\ Somewhere(s, e, TRUE, p + n, y)

(* What post_process_data keeps in range.                                  *)
LEMMA PostCounters ==
    ASSUME NEW s \in Setups, NEW x, Counters(s, x), Buffers(s, x),
           NEW e \in BOOLEAN, NEW p, NEW y, NEW n, NEW avail,
           Posts(s, e, p, x, y, n, avail),
           y.rowgroup_ctr \in 0 .. s.M + 2
    PROVE  Counters(s, y) /\ Buffers(s, y)
BY DEF Posts, Advances, Kept, Counters, Buffers

(* Lines of the iMCU row in the buffer are handed out; if all but those of *)
(* the last row group are, that one is postponed.                          *)
LEMMA ProcessIMCUResult ==
    ASSUME setup \in Setups, setup.kind = "context", pass \in {"read", "dummy"},
           NEW x, Shape(x), Counters(setup, x), Buffers(setup, x),
           NEW p \in Int, p < setup.output_height, NEW e \in BOOLEAN,
           Upsampler(setup, e, p, x), NEW avail \in Nat,
           x.out_row_ctr \in Nat, pass = "read" => x.out_row_ctr < avail,
           x.iMCU_row_ctr = x.output_iMCU_row, x.output_iMCU_row > 0,
           Processing(setup, FALSE, p, x)
    PROVE  \E n \in 1 .. 4 : Result(setup, e, p, x, ProcessIMCU(x, avail), n, avail)
<1> DEFINE V == setup.V
           H == setup.output_height
           L == IMCULines(setup)
           T == IMCURows(setup)
           w == Within(setup, x)
           o == x.output_iMCU_row
           r == x.rowgroup_ctr
           y == post_process_data(x, avail)
           z == ProcessIMCU(x, avail)
<1>1. /\ V \in 1 .. 4 /\ H \in Nat \ {0} /\ L \in Nat \ {0} /\ T \in Nat \ {0}
      /\ setup.M \in Nat \ {0} /\ L = setup.M * V
  BY SetupsAre, SizesAre DEF IMCULines
<1>2. PICK n \in 1 .. 4 : Posts(setup, e, p, x, y, n, avail) BY PostEmits
<1>3. z = Postpone(y) BY DEF ProcessIMCU
<1> HIDE DEF y, z
<1>4. /\ Shape(y) /\ Kept(x, y) /\ y.out_row_ctr = x.out_row_ctr + n
      /\ Upsampler(setup, e, p + n, y) /\ (e => p + n <= H)
      /\ pass = "read" => y.out_row_ctr <= avail
  BY <1>2 DEF Posts, Advances
<1>5. /\ w \in 0 .. V - 1 /\ n \in 1 .. V - w
      /\ IF n = V - w THEN y.rowgroup_ctr = r + 1 /\ Within(setup, y) = 0
                      ELSE y.rowgroup_ctr = r /\ Within(setup, y) = w + n
  BY <1>2 DEF Posts, Advances, Upsampler
<1>6. /\ o \in 1 .. T /\ r \in Nat /\ r < x.rowgroups_avail
      /\ x.rowgroups_avail \in 0 .. setup.M + 2
      /\ x.buffer_full /\ x.context_state = "CTX_PROCESS_IMCU"
      /\ p = (o - 1) * L + (r * V + w)
      /\ AvailOK(setup, o, x.rowgroups_avail)
  BY <1>1 DEF Counters, Processing, Row, Given
<1>7. /\ y.rowgroups_avail = x.rowgroups_avail /\ y.output_iMCU_row = o
      /\ y.iMCU_row_ctr = o /\ y.buffer_full /\ y.context_state = "CTX_PROCESS_IMCU"
      /\ y.output_scanline = x.output_scanline /\ y.whichptr = x.whichptr
  BY <1>4, <1>6 DEF Kept
<1>8. y.rowgroup_ctr \in 0 .. setup.M + 2
  <2>1. r \in 0 .. setup.M + 1 BY <1>1, <1>6
  <2>2. y.rowgroup_ctr = r + 1 \/ y.rowgroup_ctr = r BY <1>5
  <2> HIDE DEF r
  <2> QED BY <1>1, <2>1, <2>2
<1>9. Counters(setup, y) /\ Buffers(setup, y) BY <1>2, <1>8, PostCounters
<1> HIDE DEF L, T, w, o, r
<1>10. (o - 1) * L \in Int /\ r * V \in Nat /\ (r + 1) * V = r * V + V
  BY <1>1, <1>6, OneMore
<1>13. n \in Nat \ {0} OBVIOUS
<1>11. CASE ~Finished(y)
  <2>1. z = y BY <1>3, <1>11 DEF Postpone
  <2>2. y.rowgroup_ctr < y.rowgroups_avail
    BY <1>6, <1>7, <1>8, <1>11 DEF Finished
  <2>3. /\ p + n = (o - 1) * L + (y.rowgroup_ctr * V + Within(setup, y))
        /\ y.rowgroup_ctr * V + Within(setup, y) > 0
    <3>1. CASE n = V - w
      <4>1. y.rowgroup_ctr * V + Within(setup, y) = r * V + V
        BY <1>1, <1>5, <1>10, <3>1
      <4> QED BY <1>1, <1>5, <1>6, <1>10, <3>1, <4>1
    <3>2. CASE n # V - w
      <4>1. y.rowgroup_ctr * V + Within(setup, y) = r * V + (w + n)
        BY <1>1, <1>5, <1>10, <3>2
      <4>2. p = (o - 1) * L + (r * V + w) BY <1>6
      <4>3. w \in Nat /\ n \in Nat /\ n > 0 BY <1>1, <1>5
      <4>4. p + n = (o - 1) * L + (r * V + (w + n)) BY <1>10, <4>2, <4>3
      <4>5. r * V + (w + n) > 0 BY <1>10, <4>3
      <4> QED BY <4>1, <4>4, <4>5
    <3> QED BY <3>1, <3>2
  <2>4. Row(y) = o - 1 BY <1>7 DEF Row
  <2>5. Processing(setup, TRUE, p + n, y)
    BY <1>6, <1>7, <2>2, <2>3, <2>4 DEF Processing, Given, L
  <2>6. PlaceContext(setup, TRUE, p + n, y)
    <3>1. o > 0 BY <1>1, <1>6
    <3> QED BY <1>7, <2>5, <3>1 DEF PlaceContext
  <2>7. Somewhere(setup, e, TRUE, p + n, y)
    BY <1>4, <2>6 DEF Somewhere, Place
  <2>8. Result(setup, e, p, x, y, n, avail)
    BY <1>4, <1>7, <1>9, <1>13, <2>7 DEF Result
  <2> QED BY <2>1, <2>8 DEF z
<1>12. CASE Finished(y)
  <2>1. z = PostponeLastGroup(y) BY <1>3, <1>12 DEF Postpone
  <2>2. /\ Shape(z) /\ Buffers(setup, z) /\ SameLines(y, z)
        /\ z.whichptr \in 0 .. 1 /\ z.buffer_full = FALSE
        /\ z.rowgroup_ctr = setup.M + 1 /\ z.rowgroups_avail = setup.M + 2
        /\ z.context_state = "CTX_POSTPONED_ROW"
    <3>1. y.whichptr \in 0 .. 1 BY <1>9 DEF Counters
    <3> QED BY <1>4, <1>9, <2>1, <3>1, PostponeShape
  <2>3. y.rowgroup_ctr >= x.rowgroups_avail BY <1>7, <1>12 DEF Finished
  <2>4. /\ n = V - w /\ r + 1 = x.rowgroups_avail /\ Within(setup, y) = 0
    BY <1>5, <1>6, <2>3
  <2>5. Counters(setup, z)
    <3>1. setup.M + 1 \in 0 .. setup.M + 2 /\ setup.M + 2 \in 0 .. setup.M + 2 BY <1>1
    <3>2. FALSE \in BOOLEAN OBVIOUS
    <3> QED BY <1>9, <2>2, <3>1, <3>2 DEF Counters, SameLines, KeptToo
  <2>6. Within(setup, z) = 0 BY <2>2, <2>4 DEF SameLines, Within
  <2>7. Upsampler(setup, e, p + n, z)
    BY <1>4, <2>2, <2>4, <2>6 DEF SameLines, Upsampler
  <2>8. p + n = (o - 1) * L + x.rowgroups_avail * V
    <3>1. r * V + w + n = x.rowgroups_avail * V BY <1>1, <1>5, <1>10, <2>4
    <3> QED BY <1>1, <1>5, <1>6, <1>10, <3>1
  <2>9. ASSUME p + n < H PROVE PlaceContext(setup, TRUE, p + n, z)
    <3>1. o < T
      <4>1. SUFFICES ASSUME ~(o < T) PROVE FALSE OBVIOUS
      <4>2. (o - 1) * L + x.rowgroups_avail * V >= H
        BY <1>6, <4>1 DEF AvailOK, T, L
      <4>3. x.rowgroups_avail * V \in Int BY <1>1, <1>6
      <4> QED BY <1>1, <1>10, <2>8, <2>9, <4>2, <4>3
    <3>2. x.rowgroups_avail = setup.M - 1 BY <1>6, <3>1 DEF AvailOK, T
    <3>3. (setup.M - 1) * V = L - V
      <4>1. setup.M - 1 \in Int /\ (setup.M - 1) + 1 = setup.M BY <1>1
      <4>2. ((setup.M - 1) + 1) * V = (setup.M - 1) * V + V BY <1>1, <4>1, OneMore
      <4> QED BY <1>1, <4>1, <4>2
    <3>4. o * L = (o - 1) * L + L
      <4>1. o - 1 \in Int /\ (o - 1) + 1 = o BY <1>6
      <4> QED BY <1>1, <4>1, OneMore
    <3>5. Row(z) = o BY <1>7, <2>2 DEF Row, SameLines
    <3>6. p + n = Row(z) * L - V + Within(setup, z)
      <4>1. o * L \in Int BY <1>1, <1>6
      <4> QED BY <1>1, <1>10, <2>6, <2>8, <3>2, <3>3, <3>4, <3>5, <4>1
    <3>7. z.output_iMCU_row = o /\ z.iMCU_row_ctr = o BY <1>7, <2>2 DEF SameLines
    <3>8. Postponed(setup, TRUE, p + n, z)
      BY <2>2, <2>6, <3>1, <3>6, <3>7 DEF Postponed, L, T
    <3> QED BY <2>2, <3>7, <3>8 DEF PlaceContext
  <2>10. Somewhere(setup, e, TRUE, p + n, z)
    BY <2>7, <2>9 DEF Somewhere, Place
  <2>11. Result(setup, e, p, x, z, n, avail)
    <3>1. z.out_row_ctr = x.out_row_ctr + n /\ z.output_scanline = x.output_scanline
      BY <1>4, <1>7, <2>2 DEF SameLines, KeptToo
    <3>2. pass = "read" => z.out_row_ctr <= avail BY <1>4, <3>1
    <3> QED BY <1>4, <1>13, <2>2, <2>5, <2>10, <3>1, <3>2 DEF Result
  <2> QED BY <2>11 DEF z
<1> QED BY <1>11, <1>12

(* An iMCU row that is prepared for can be processed.                      *)
LEMMA PrepareProcessing ==
    ASSUME setup \in Setups, setup.kind = "context",
           NEW x, Shape(x), Counters(setup, x), Buffers(setup, x),
           NEW p \in Int, NEW e \in BOOLEAN, Upsampler(setup, e, p, x),
           x.iMCU_row_ctr = x.output_iMCU_row,
           x.buffer_full, Within(setup, x) = 0, p = Row(x) * IMCULines(setup)
    PROVE  LET z == PrepareForIMCU(x)
           IN  /\ Shape(z) /\ Counters(setup, z) /\ Buffers(setup, z)
               /\ Upsampler(setup, e, p, z) /\ Processing(setup, FALSE, p, z)
               /\ SameLines(x, z)
<1> DEFINE z == PrepareForIMCU(x)
<1>1. /\ Shape(z) /\ Buffers(setup, z) /\ SameLines(x, z)
      /\ z.whichptr = x.whichptr /\ z.buffer_full = x.buffer_full
      /\ z.rowgroup_ctr = 0 /\ z.context_state = "CTX_PROCESS_IMCU"
      /\ z.rowgroups_avail \in 1 .. setup.M
      /\ AvailOK(setup, x.iMCU_row_ctr, z.rowgroups_avail)
  BY PrepareShape DEF Counters
<1> HIDE DEF z
<1>2. /\ setup.M \in Nat \ {0} /\ setup.V \in 1 .. 4
      /\ IMCULines(setup) \in Nat \ {0} /\ IMCURows(setup) \in Nat \ {0}
  BY SetupsAre, SizesAre
<1>3. Counters(setup, z)
  <2>1. 0 \in 0 .. setup.M + 2 BY <1>2
  <2>2. z.rowgroups_avail \in 0 .. setup.M + 2 BY <1>1, <1>2
  <2> QED BY <1>1, <2>1, <2>2 DEF Counters, SameLines, KeptToo
<1>4. Within(setup, z) = 0 BY <1>1 DEF SameLines, Within
<1>5. Upsampler(setup, e, p, z) BY <1>1, <1>4 DEF SameLines, Upsampler
<1>6. Row(z) = Row(x) BY <1>1 DEF SameLines, Row
<1>7. Processing(setup, FALSE, p, z)
  <2>1. z.rowgroup_ctr < z.rowgroups_avail BY <1>1
  <2>2. p = Row(z) * IMCULines(setup) + Given(setup, z)
    <3>1. Given(setup, z) = 0 BY <1>1, <1>2, <1>4 DEF Given
    <3>2. Row(z) \in Int BY <1>2, <1>3 DEF Row, Counters
    <3>3. Row(z) * IMCULines(setup) \in Int BY <1>2, <3>2
    <3> QED BY <1>6, <3>1, <3>3
  <2>3. z.output_iMCU_row = x.iMCU_row_ctr BY <1>1 DEF SameLines
  <2> QED BY <1>1, <2>1, <2>2, <2>3 DEF Processing
<1> QED BY <1>1, <1>3, <1>5, <1>7 DEF z

(* process_data_context_main with a full buffer: the three states of its   *)
(* state machine, and what it falls through to.                            *)
LEMMA ContextResult ==
    ASSUME setup \in Setups, setup.kind = "context", pass \in {"read", "dummy"},
           NEW x, Shape(x), Counters(setup, x), Buffers(setup, x),
           NEW p \in Int, p < setup.output_height, NEW e \in BOOLEAN,
           Upsampler(setup, e, p, x), NEW avail \in Nat,
           x.out_row_ctr \in Nat, pass = "read" => x.out_row_ctr < avail,
           PlaceContext(setup, FALSE, p, x), x.buffer_full
    PROVE  \E n \in Nat :
              Result(setup, e, p, x, process_data_context_main(x, avail), n, avail)
<1> DEFINE V == setup.V
           H == setup.output_height
           L == IMCULines(setup)
           T == IMCURows(setup)
           o == x.output_iMCU_row
           z == process_data_context_main(x, avail)
<1>1. /\ V \in 1 .. 4 /\ H \in Nat \ {0} /\ L \in Nat \ {0} /\ T \in Nat \ {0}
      /\ setup.M \in Nat \ {0}
  BY SetupsAre, SizesAre
<1>2. x.iMCU_row_ctr = o /\ o > 0 /\ o \in 1 .. T /\ Row(x) = o - 1
  BY <1>1 DEF PlaceContext, Counters, Row
<1>3. CASE Preparing(setup, p, x)
  <2> DEFINE y == PrepareForIMCU(x)
  <2>1. x.context_state = "CTX_PREPARE_FOR_IMCU" /\ Within(setup, x) = 0 /\ p = Row(x) * L
    BY <1>3 DEF Preparing
  <2>2. z = ProcessIMCU(y, avail) BY <2>1 DEF process_data_context_main
  <2>3. /\ Shape(y) /\ Counters(setup, y) /\ Buffers(setup, y)
        /\ Upsampler(setup, e, p, y) /\ Processing(setup, FALSE, p, y)
        /\ SameLines(x, y)
    BY <1>2, <2>1, PrepareProcessing
  <2> HIDE DEF y, z
  <2>4. /\ y.out_row_ctr = x.out_row_ctr /\ y.iMCU_row_ctr = y.output_iMCU_row
        /\ y.output_iMCU_row > 0 /\ y.output_scanline = x.output_scanline
    BY <1>2, <2>3 DEF SameLines, KeptToo
  <2>5. PICK n \in 1 .. 4 : Result(setup, e, p, y, z, n, avail)
    BY <2>2, <2>3, <2>4, ProcessIMCUResult
  <2>6. Result(setup, e, p, x, z, n, avail) BY <2>4, <2>5 DEF Result
  <2> QED BY <2>6 DEF z
<1>4. CASE Processing(setup, FALSE, p, x)
  <2>1. x.context_state = "CTX_PROCESS_IMCU" BY <1>4 DEF Processing
  <2>2. z = ProcessIMCU(x, avail) BY <2>1 DEF process_data_context_main
  <2>3. PICK n \in 1 .. 4 : Result(setup, e, p, x, ProcessIMCU(x, avail), n, avail)
    BY <1>2, <1>4, ProcessIMCUResult
  <2> QED BY <2>2, <2>3
<1>5. CASE Postponed(setup, FALSE, p, x)
  <2> DEFINE y == post_process_data(x, avail)
             w == Within(setup, x)
  <2>1. /\ x.context_state = "CTX_POSTPONED_ROW"
        /\ x.rowgroup_ctr = setup.M + 1 /\ x.rowgroups_avail = setup.M + 2
        /\ p = (o - 1) * L - V + w
    BY <1>2, <1>5 DEF Postponed
  <2>2. z = FinishPostponed(y, avail) BY <2>1 DEF process_data_context_main
  <2>3. PICK n \in 1 .. 4 : Posts(setup, e, p, x, y, n, avail) BY PostEmits
  <2> HIDE DEF y, z
  <2>4. /\ Shape(y) /\ Kept(x, y) /\ y.out_row_ctr = x.out_row_ctr + n
        /\ Upsampler(setup, e, p + n, y) /\ (e => p + n <= H)
        /\ pass = "read" => y.out_row_ctr <= avail
    BY <2>3 DEF Posts, Advances
  <2>5. /\ w \in 0 .. V - 1 /\ n \in 1 .. V - w
        /\ IF n = V - w THEN y.rowgroup_ctr = x.rowgroup_ctr + 1 /\ Within(setup, y) = 0
                        ELSE y.rowgroup_ctr = x.rowgroup_ctr /\ Within(setup, y) = w + n
    BY <2>3 DEF Posts, Advances, Upsampler
  <2>6. /\ y.rowgroups_avail = setup.M + 2 /\ y.output_iMCU_row = o
        /\ y.iMCU_row_ctr = o /\ y.buffer_full /\ y.context_state = "CTX_POSTPONED_ROW"
        /\ y.output_scanline = x.output_scanline
    BY <1>2, <2>1, <2>4 DEF Kept
  <2> HIDE DEF w, L, T, o
  <2>7. y.rowgroup_ctr \in 0 .. setup.M + 2
    <3>1. setup.M + 1 \in 0 .. setup.M + 2 /\ (setup.M + 1) + 1 \in 0 .. setup.M + 2
      BY <1>1
    <3>2. y.rowgroup_ctr = setup.M + 1 \/ y.rowgroup_ctr = (setup.M + 1) + 1
      BY <2>1, <2>5
    <3> QED BY <3>1, <3>2
  <2>8. Counters(setup, y) /\ Buffers(setup, y) BY <2>3, <2>7, PostCounters
  <2>9. (o - 1) * L \in Int /\ n \in Nat \ {0} /\ w \in Int BY <1>1, <1>2, <2>5
  <2>10. Row(y) = o - 1 BY <2>6 DEF Row
  <2>11. CASE ~Finished(y)
    <3>1. z = y BY <2>2, <2>11 DEF FinishPostponed
    <3>2. n # V - w
      <4>1. SUFFICES ASSUME n = V - w PROVE FALSE OBVIOUS
      <4>2. y.rowgroup_ctr = (setup.M + 1) + 1 BY <2>1, <2>5, <4>1
      <4>3. y.rowgroup_ctr >= y.rowgroups_avail BY <1>1, <2>6, <4>2
      <4> QED BY <2>11, <4>3 DEF Finished
    <3>3. y.rowgroup_ctr = setup.M + 1 /\ Within(setup, y) = w + n
      BY <2>1, <2>5, <3>2
    <3>4. p + n = (o - 1) * L - V + (w + n) BY <1>1, <2>1, <2>9
    <3>5. w + n > 0 BY <1>1, <2>5, <2>9
    <3>6. Postponed(setup, TRUE, p + n, y)
      BY <2>6, <2>10, <3>3, <3>4, <3>5 DEF Postponed, L
    <3>7. PlaceContext(setup, TRUE, p + n, y)
      BY <1>2, <2>6, <3>6 DEF PlaceContext
    <3>8. Somewhere(setup, e, TRUE, p + n, y)
      BY <2>4, <3>7 DEF Somewhere, Place
    <3>9. Result(setup, e, p, x, y, n, avail)
      BY <2>4, <2>6, <2>8, <2>9, <3>8 DEF Result
    <3> QED BY <2>9, <3>1, <3>9 DEF z
  <2>12. CASE Finished(y)
    <3>1. n = V - w /\ Within(setup, y) = 0
      <4>1. SUFFICES ASSUME n # V - w PROVE FALSE BY <2>5
      <4>2. y.rowgroup_ctr = setup.M + 1 BY <2>1, <2>5, <4>1
      <4> QED BY <1>1, <2>6, <2>12, <4>2 DEF Finished
    <3>2. p + n = (o - 1) * L BY <1>1, <2>1, <2>9, <3>1
    <3>3. p + n = Row(y) * L BY <2>10, <3>2
    <3>4. CASE y.out_row_ctr >= avail
      <4> DEFINE u == [y EXCEPT !.context_state = "CTX_PREPARE_FOR_IMCU"]
      <4>1. z = u BY <2>2, <2>12, <3>4 DEF FinishPostponed
      <4>2. y = [f \in Fields |-> y[f]] BY <2>4 DEF Shape
      <4>3. u = [f \in Fields |-> u[f]] BY <4>2 DEF Fields
      <4>4. /\ SameLines(y, u) /\ u.buffer = y.buffer /\ u.xbuffer = y.xbuffer
            /\ u.buffer_full = y.buffer_full /\ u.rowgroup_ctr = y.rowgroup_ctr
            /\ u.rowgroups_avail = y.rowgroups_avail /\ u.whichptr = y.whichptr
            /\ u.context_state = "CTX_PREPARE_FOR_IMCU"
        BY <4>2 DEF Fields, SameLines, KeptToo
      <4> HIDE DEF u
      <4>5. Shape(u) /\ Buffers(setup, u) /\ Counters(setup, u)
        BY <2>4, <2>8, <4>3, <4>4 DEF Shape, Buffers, Counters, SameLines, KeptToo
      <4>6. Within(setup, u) = 0 BY <3>1, <4>4 DEF SameLines, Within
      <4>7. Upsampler(setup, e, p + n, u)
        BY <2>4, <3>1, <4>4, <4>6 DEF SameLines, Upsampler
      <4>8. Row(u) = Row(y) BY <4>4 DEF SameLines, Row
      <4>9. Preparing(setup, p + n, u) BY <3>3, <4>4, <4>6, <4>8 DEF Preparing, L
      <4>10. PlaceContext(setup, TRUE, p + n, u)
        BY <1>2, <2>6, <4>4, <4>9 DEF PlaceContext, SameLines
      <4>11. Somewhere(setup, e, TRUE, p + n, u)
        BY <4>7, <4>10 DEF Somewhere, Place
      <4>12. u.out_row_ctr = x.out_row_ctr + n /\ u.output_scanline = x.output_scanline
        BY <2>4, <2>6, <4>4 DEF SameLines, KeptToo
      <4>13. pass = "read" => u.out_row_ctr <= avail BY <2>4, <4>12
      <4>14. Result(setup, e, p, x, u, n, avail)
        BY <2>4, <2>9, <4>5, <4>11, <4>12, <4>13 DEF Result
      <4> QED BY <2>9, <4>1, <4>14 DEF z
    <3>5. CASE ~(y.out_row_ctr >= avail)
      <4> DEFINE u == PrepareForIMCU(y)
      <4>1. z = ProcessIMCU(u, avail) BY <2>2, <2>12, <3>5 DEF FinishPostponed
      <4>2. p + n \in Int BY <2>9
      <4>3. /\ Shape(u) /\ Counters(setup, u) /\ Buffers(setup, u)
            /\ Upsampler(setup, e, p + n, u) /\ Processing(setup, FALSE, p + n, u)
            /\ SameLines(y, u)
        BY <2>4, <2>6, <2>8, <3>1, <3>3, <4>2, PrepareProcessing DEF L
      <4> HIDE DEF u
      <4>4. p + n < H
        <5>1. o - 1 \in Nat /\ o - 1 < T BY <1>1, <1>2
        <5>2. (o - 1) * L < H BY <5>1, SizesAre DEF L, T
        <5> QED BY <3>2, <5>2
      <4>5. /\ u.out_row_ctr = y.out_row_ctr /\ u.iMCU_row_ctr = u.output_iMCU_row
            /\ u.output_iMCU_row > 0 /\ u.output_scanline = x.output_scanline
        BY <1>2, <2>6, <4>3 DEF SameLines, KeptToo
      <4>6. u.out_row_ctr \in Nat /\ (pass = "read" => u.out_row_ctr < avail)
        BY <2>4, <2>9, <3>5, <4>5
      <4>7. PICK k \in 1 .. 4 : Result(setup, e, p + n, u, z, k, avail)
        BY <4>1, <4>2, <4>3, <4>4, <4>5, <4>6, ProcessIMCUResult
      <4>8. (p + n) + k = p + (n + k) /\ n + k \in Nat \ {0} BY <2>9
      <4>9. z.out_row_ctr = x.out_row_ctr + (n + k)
        BY <2>4, <2>9, <4>5, <4>7 DEF Result
      <4>10. /\ Shape(z) /\ Counters(setup, z) /\ Buffers(setup, z)
             /\ z.output_scanline = x.output_scanline
             /\ e => p + (n + k) <= H
             /\ pass = "read" => z.out_row_ctr <= avail
             /\ Somewhere(setup, e, TRUE, p + (n + k), z)
        BY <4>5, <4>7, <4>8 DEF Result
      <4>11. Result(setup, e, p, x, z, n + k, avail)
        BY <4>8, <4>9, <4>10 DEF Result
      <4> QED BY <4>8, <4>11 DEF z
    <3> QED BY <3>4, <3>5
  <2> QED BY <2>11, <2>12
<1> QED BY <1>3, <1>4, <1>5 DEF PlaceContext

-----------------------------------------------------------------------------
(* The main buffer controller without context rows.                        *)
LEMMA ConsumeShape ==
    ASSUME NEW x, Shape(x), x.rowgroup_ctr >= M
    PROVE  LET z == Consume(x)
           IN  /\ Shape(z) /\ SameLines(x, z) /\ z.buffer_full = FALSE
               /\ z.rowgroup_ctr = 0 /\ z.rowgroups_avail = x.rowgroups_avail
               /\ z.whichptr = x.whichptr /\ z.context_state = x.context_state
               /\ z.buffer = x.buffer /\ z.xbuffer = x.xbuffer
<1> DEFINE z == [x EXCEPT !.buffer_full = FALSE, !.rowgroup_ctr = 0]
<1>1. x = [f \in Fields |-> x[f]] BY DEF Shape
<1>2. Consume(x) = z BY DEF Consume
<1>3. z = [f \in Fields |-> z[f]] BY <1>1 DEF Fields
<1>4. /\ SameLines(x, z) /\ z.buffer_full = FALSE
      /\ z.rowgroup_ctr = 0 /\ z.rowgroups_avail = x.rowgroups_avail
      /\ z.whichptr = x.whichptr /\ z.context_state = x.context_state
      /\ z.buffer = x.buffer /\ z.xbuffer = x.xbuffer
  BY <1>1 DEF Fields, SameLines, KeptToo
<1> HIDE DEF z
<1>5. Shape(z) BY <1>3, <1>4 DEF Shape, SameLines
<1> QED BY <1>2, <1>4, <1>5

(* process_data_simple_main with a full buffer.                            *)
LEMMA SimpleResult ==
    ASSUME setup \in Setups, setup.kind # "context", pass \in {"read", "dummy"},
           NEW x, Shape(x), Counters(setup, x), Buffers(setup, x),
           NEW p \in Int, p < setup.output_height, NEW e \in BOOLEAN,
           Upsampler(setup, e, p, x), NEW avail \in Nat,
           x.out_row_ctr \in Nat, pass = "read" => x.out_row_ctr < avail,
           PlaceSimple(setup, FALSE, p, x), x.buffer_full
    PROVE  \E n \in Nat :
              Result(setup, e, p, x, process_data_simple_main(x, avail), n, avail)
<1> DEFINE V == setup.V
           H == setup.output_height
           L == IMCULines(setup)
           T == IMCURows(setup)
           w == Within(setup, x)
           o == x.output_iMCU_row
           r == x.rowgroup_ctr
           y == post_process_data(x, avail)
           z == process_data_simple_main(x, avail)
<1>1. /\ V \in 1 .. 4 /\ H \in Nat \ {0} /\ L \in Nat \ {0} /\ T \in Nat \ {0}
      /\ setup.M \in Nat \ {0} /\ L = setup.M * V /\ M = setup.M
  BY SetupsAre, SizesAre DEF IMCULines, M
<1>2. PICK n \in 1 .. 4 : Posts(setup, e, p, x, y, n, avail) BY PostEmits
<1>3. z = Consume(y) BY DEF process_data_simple_main
<1> HIDE DEF y, z
<1>4. /\ Shape(y) /\ Kept(x, y) /\ y.out_row_ctr = x.out_row_ctr + n
      /\ Upsampler(setup, e, p + n, y) /\ (e => p + n <= H)
      /\ pass = "read" => y.out_row_ctr <= avail
  BY <1>2 DEF Posts, Advances
<1>5. /\ w \in 0 .. V - 1 /\ n \in 1 .. V - w
      /\ IF n = V - w THEN y.rowgroup_ctr = r + 1 /\ Within(setup, y) = 0
                      ELSE y.rowgroup_ctr = r /\ Within(setup, y) = w + n
  BY <1>2 DEF Posts, Advances, Upsampler
<1>6. /\ o \in 0 .. T /\ o > 0 /\ r \in 0 .. setup.M - 1 /\ x.buffer_full
      /\ p = (o - 1) * L + (r * V + w)
  BY <1>1 DEF Counters, PlaceSimple, Row, Given
<1>7. /\ y.rowgroups_avail = x.rowgroups_avail /\ y.output_iMCU_row = o
      /\ y.buffer_full /\ y.output_scanline = x.output_scanline
  BY <1>4, <1>6 DEF Kept
<1> HIDE DEF L, T, w, o, r
<1>8. y.rowgroup_ctr \in 0 .. setup.M + 2
  <2>1. y.rowgroup_ctr = r + 1 \/ y.rowgroup_ctr = r BY <1>5
  <2> QED BY <1>1, <1>6, <2>1
<1>9. Counters(setup, y) /\ Buffers(setup, y) BY <1>2, <1>8, PostCounters
<1>10. /\ (o - 1) * L \in Int /\ r * V \in Nat /\ (r + 1) * V = r * V + V
       /\ w \in Nat /\ n \in Nat \ {0}
  <2>1. w \in Nat /\ n \in Nat \ {0} BY <1>1, <1>5
  <2>2. o - 1 \in Int /\ r \in Nat BY <1>1, <1>6
  <2>3. (o - 1) * L \in Int /\ r * V \in Nat BY <1>1, <2>2
  <2>4. (r + 1) * V = r * V + V BY <1>1, <2>2, OneMore
  <2> QED BY <2>1, <2>3, <2>4
<1>11. CASE ~(y.rowgroup_ctr >= M)
  <2>1. z = y BY <1>3, <1>11 DEF Consume
  <2>2. y.rowgroup_ctr < setup.M BY <1>1, <1>8, <1>11
  <2>3. /\ p + n = (o - 1) * L + (y.rowgroup_ctr * V + Within(setup, y))
        /\ y.rowgroup_ctr * V + Within(setup, y) > 0
    <3>1. CASE n = V - w
      <4>1. y.rowgroup_ctr * V + Within(setup, y) = r * V + V
        BY <1>1, <1>5, <1>10, <3>1
      <4>2. p + n = (o - 1) * L + (r * V + V) BY <1>1, <1>6, <1>10, <3>1
      <4>3. r * V + V > 0 BY <1>1, <1>10
      <4> QED BY <4>1, <4>2, <4>3
    <3>2. CASE n # V - w
      <4>1. y.rowgroup_ctr * V + Within(setup, y) = r * V + (w + n)
        BY <1>1, <1>5, <1>10, <3>2
      <4>2. p + n = (o - 1) * L + (r * V + (w + n)) BY <1>6, <1>10
      <4>3. r * V + (w + n) > 0 BY <1>10
      <4> QED BY <4>1, <4>2, <4>3
    <3> QED BY <3>1, <3>2
  <2>4. Row(y) = o - 1 BY <1>7 DEF Row
  <2>5. PlaceSimple(setup, TRUE, p + n, y)
    BY <1>6, <1>7, <2>2, <2>3, <2>4 DEF PlaceSimple, Given, L
  <2>6. Somewhere(setup, e, TRUE, p + n, y)
    BY <1>4, <2>5 DEF Somewhere, Place
  <2>7. Result(setup, e, p, x, y, n, avail)
    BY <1>4, <1>7, <1>9, <1>10, <2>6 DEF Result
  <2> QED BY <1>10, <2>1, <2>7 DEF z
<1>12. CASE y.rowgroup_ctr >= M
  <2>1. /\ Shape(z) /\ SameLines(y, z) /\ z.buffer_full = FALSE
        /\ z.rowgroup_ctr = 0 /\ z.rowgroups_avail = y.rowgroups_avail
        /\ z.whichptr = y.whichptr /\ z.context_state = y.context_state
        /\ z.buffer = y.buffer /\ z.xbuffer = y.xbuffer
    BY <1>3, <1>4, <1>12, ConsumeShape
  <2>2. /\ n = V - w /\ r + 1 = setup.M /\ Within(setup, y) = 0
    <3>1. CASE n = V - w
      <4>1. y.rowgroup_ctr = r + 1 /\ Within(setup, y) = 0 BY <1>5, <3>1
      <4>2. r + 1 >= setup.M BY <1>1, <1>12, <4>1
      <4>3. setup.M \in Nat /\ r \in 0 .. setup.M - 1 BY <1>1, <1>6
      <4>4. r + 1 = setup.M BY <4>2, <4>3
      <4> QED BY <3>1, <4>1, <4>4
    <3>2. CASE n # V - w
      <4>1. y.rowgroup_ctr = r BY <1>5, <3>2
      <4> QED BY <1>1, <1>6, <1>12, <4>1
    <3> QED BY <3>1, <3>2
  <2>3. Counters(setup, z) /\ Buffers(setup, z)
    <3>1. 0 \in 0 .. setup.M + 2 /\ FALSE \in BOOLEAN BY <1>1
    <3> QED BY <1>9, <2>1, <3>1 DEF Counters, Buffers, SameLines, KeptToo
  <2>4. Within(setup, z) = 0 BY <2>1, <2>2 DEF SameLines, Within
  <2>5. Upsampler(setup, e, p + n, z)
    BY <1>4, <2>1, <2>2, <2>4 DEF SameLines, Upsampler
  <2>6. p + n = o * L
    <3>1. r * V + V = L BY <1>1, <1>10, <2>2
    <3>2. p + n = (o - 1) * L + (r * V + V) BY <1>1, <1>6, <1>10, <2>2
    <3>3. o * L = (o - 1) * L + L
      <4>1. o - 1 \in Int /\ (o - 1) + 1 = o BY <1>6
      <4> QED BY <1>1, <4>1, OneMore
    <3> QED BY <3>1, <3>2, <3>3
  <2>7. z.output_iMCU_row = o /\ Row(z) = o BY <1>7, <2>1 DEF SameLines, Row
  <2>8. PlaceSimple(setup, TRUE, p + n, z)
    <3>1. Given(setup, z) = 0 BY <1>1, <2>1, <2>4 DEF Given
    <3>2. o * L \in Int BY <1>1, <1>6
    <3>3. p + n = Row(z) * L + Given(setup, z) BY <2>6, <2>7, <3>1, <3>2
    <3>4. z.rowgroup_ctr < setup.M BY <1>1, <2>1
    <3> QED BY <2>1, <2>4, <3>3, <3>4 DEF PlaceSimple, L
  <2>9. Somewhere(setup, e, TRUE, p + n, z)
    BY <2>5, <2>8 DEF Somewhere, Place
  <2>10. z.out_row_ctr = x.out_row_ctr + n /\ z.output_scanline = x.output_scanline
    BY <1>4, <1>7, <2>1 DEF SameLines, KeptToo
  <2>11. pass = "read" => z.out_row_ctr <= avail BY <1>4, <2>10
  <2>12. Result(setup, e, p, x, z, n, avail)
    BY <1>4, <1>10, <2>1, <2>3, <2>9, <2>10, <2>11 DEF Result
  <2> QED BY <1>10, <2>12 DEF z
<1> QED BY <1>11, <1>12

-----------------------------------------------------------------------------
(* process_data with an iMCU row in the buffer, or with one to be had.     *)
LEMMA FillResult ==
    ASSUME setup \in Setups,
           NEW x, Shape(x), Counters(setup, x), Buffers(setup, x),
           NEW p \in Nat, p < setup.output_height, NEW e \in BOOLEAN,
           Upsampler(setup, e, p, x), Place(setup, TRUE, p, x)
    PROVE  LET z == FillBuffer(x)
           IN  /\ Shape(z) /\ Counters(setup, z) /\ Buffers(setup, z)
               /\ Upsampler(setup, e, p, z) /\ Place(setup, FALSE, p, z)
               /\ z.buffer_full /\ z.output_scanline = x.output_scanline
               /\ z.out_row_ctr = x.out_row_ctr
<1> DEFINE V == setup.V
           H == setup.output_height
           L == IMCULines(setup)
           T == IMCURows(setup)
           o == x.output_iMCU_row
           z == FillBuffer(x)
<1>1. /\ V \in 1 .. 4 /\ L \in Nat \ {0} /\ T \in Nat \ {0} /\ setup.M \in Nat \ {0}
      /\ H \in Nat /\ o \in 0 .. T
  BY SetupsAre, SizesAre DEF Counters
<1>2. CASE x.buffer_full
  <2>1. z = x BY <1>2 DEF FillBuffer
  <2>2. Place(setup, FALSE, p, x)
    BY <1>2 DEF Place, PlaceSimple, PlaceContext, Preparing, Processing, Postponed
  <2> QED BY <1>2, <2>1, <2>2
<1>3. CASE ~x.buffer_full
  <2>1. z = decompress_data(x) BY <1>3 DEF FillBuffer
  <2>2. o \in Nat BY <1>1
  <2> HIDE DEF z
  <2>3. /\ Shape(z) /\ Buffers(setup, z) /\ SameUpsampler(x, z) /\ KeptToo(x, z)
        /\ z.rows = x.rows /\ z.output_scanline = x.output_scanline
        /\ z.rowgroups_avail = x.rowgroups_avail
        /\ z.whichptr = x.whichptr /\ z.context_state = x.context_state
        /\ z.buffer_full = TRUE
        /\ z.output_iMCU_row = o + 1
        /\ z.iMCU_row_ctr = IF setup.kind = "context" THEN x.iMCU_row_ctr + 1
                                                      ELSE x.iMCU_row_ctr
    BY <2>1, <2>2, DecompressShape
  <2>4. Within(setup, z) = Within(setup, x) /\ Given(setup, z) = Given(setup, x)
    BY <2>3 DEF SameUpsampler, Within, Given
  <2>5. Upsampler(setup, e, p, z) BY <2>3, <2>4 DEF SameUpsampler, Upsampler
  <2>6. Row(x) = o BY <1>3 DEF Row
  <2>7. Row(z) = o
    <3>1. Row(z) = (o + 1) - 1 BY <2>3 DEF Row
    <3> QED BY <2>2, <3>1
  <2>8. x.rowgroup_ctr \in Nat BY <1>1 DEF Counters
  <2>9. o * L <= p \/ o < T
    <3>1. CASE setup.kind # "context"
      <4>1. p = o * L + Given(setup, x) /\ Within(setup, x) = 0
        BY <1>3, <2>6, <3>1 DEF Place, PlaceSimple
      <4>2. Given(setup, x) \in Nat BY <1>1, <2>8, <4>1 DEF Given
      <4> HIDE DEF L, o
      <4>3. o * L \in Nat BY <1>1, <2>2
      <4> QED BY <4>1, <4>2, <4>3
    <3>2. CASE setup.kind = "context"
      <4>1. Preparing(setup, p, x) \/ Postponed(setup, TRUE, p, x)
        BY <1>3, <3>2 DEF Place, PlaceContext, Processing
      <4>2. CASE Preparing(setup, p, x)
        <5>1. p = o * L BY <2>6, <4>2 DEF Preparing
        <5> QED BY <5>1
      <4>3. CASE Postponed(setup, TRUE, p, x) BY <1>3, <4>3 DEF Postponed
      <4> QED BY <4>1, <4>2, <4>3
    <3> QED BY <3>1, <3>2
  <2>10. o < T
    <3>1. o * L \in Nat BY <1>1, <2>2
    <3>2. o < T <=> o * L < H BY <2>2, SizesAre
    <3> HIDE DEF L, o, T
    <3> QED BY <1>1, <2>9, <3>1, <3>2
  <2>11. o + 1 \in 0 .. T /\ o + 1 > 0 BY <1>1, <2>2, <2>10
  <2>12. Counters(setup, z)
    <3>1. z.iMCU_row_ctr \in 0 .. T
      <4>1. CASE setup.kind = "context"
        <5>1. x.iMCU_row_ctr = o BY <4>1 DEF Place, PlaceContext
        <5> QED BY <2>3, <2>11, <4>1, <5>1
      <4>2. CASE setup.kind # "context" BY <2>3, <4>2 DEF Counters
      <4> QED BY <4>1, <4>2
    <3> HIDE DEF o
    <3> QED BY <2>3, <2>11, <3>1 DEF Counters, SameUpsampler, KeptToo
  <2>13. Place(setup, FALSE, p, z)
    <3>1. CASE setup.kind # "context"
      <4>1. /\ x.rowgroup_ctr < setup.M /\ p = o * L + Given(setup, x)
        BY <1>3, <2>6, <3>1 DEF Place, PlaceSimple
      <4>2. z.rowgroup_ctr = x.rowgroup_ctr BY <2>3 DEF SameUpsampler
      <4> HIDE DEF o, L
      <4>3. PlaceSimple(setup, FALSE, p, z)
        BY <2>3, <2>4, <2>7, <2>11, <4>1, <4>2 DEF PlaceSimple, L
      <4> QED BY <3>1, <4>3 DEF Place
    <3>2. CASE setup.kind = "context"
      <4>1. x.iMCU_row_ctr = o BY <3>2 DEF Place, PlaceContext
      <4>2. Preparing(setup, p, x) \/ Postponed(setup, TRUE, p, x)
        BY <1>3, <3>2 DEF Place, PlaceContext, Processing
      <4>3. CASE Preparing(setup, p, x)
        <5>1. Preparing(setup, p, z)
          BY <2>3, <2>4, <2>6, <2>7, <4>3 DEF Preparing
        <5> QED BY <2>3, <2>11, <3>2, <4>1, <5>1 DEF Place, PlaceContext
      <4>4. CASE Postponed(setup, TRUE, p, x)
        <5>1. Postponed(setup, FALSE, p, z)
          BY <2>3, <2>4, <2>6, <2>7, <4>4 DEF Postponed, SameUpsampler
        <5> QED BY <2>3, <2>11, <3>2, <4>1, <5>1 DEF Place, PlaceContext
      <4> QED BY <4>2, <4>3, <4>4
    <3> QED BY <3>1, <3>2
  <2>14. z.out_row_ctr = x.out_row_ctr BY <2>3 DEF KeptToo
  <2>15. z.buffer_full BY <2>3
  <2> QED BY <2>3, <2>5, <2>12, <2>13, <2>14, <2>15 DEF z
<1> QED BY <1>2, <1>3

(* process_data, if there is an iMCU row or the source can deliver one,    *)
(* hands out n lines, n > 0, and leaves the controllers where they should  *)
(* be n lines on.                                                          *)
LEMMA DataResult ==
    ASSUME setup \in Setups, pass \in {"read", "dummy"},
           NEW x, Shape(x), Counters(setup, x), Buffers(setup, x),
           NEW p \in Nat, p < setup.output_height, NEW e \in BOOLEAN,
           Upsampler(setup, e, p, x), Place(setup, TRUE, p, x), NEW avail \in Nat,
           x.out_row_ctr \in Nat, pass = "read" => x.out_row_ctr < avail,
           NEW data \in BOOLEAN, x.buffer_full \/ data
    PROVE  \E n \in Nat : Result(setup, e, p, x, process_data(x, avail, data), n, avail)
<1> DEFINE z == FillBuffer(x)
           y == process_data(x, avail, data)
<1>1. /\ Shape(z) /\ Counters(setup, z) /\ Buffers(setup, z)
      /\ Upsampler(setup, e, p, z) /\ Place(setup, FALSE, p, z)
      /\ z.buffer_full /\ z.output_scanline = x.output_scanline
      /\ z.out_row_ctr = x.out_row_ctr
  BY FillResult
<1>2. y = IF setup.kind = "context" THEN process_data_context_main(z, avail)
                                    ELSE process_data_simple_main(z, avail)
  BY DEF process_data, need_context_rows
<1> HIDE DEF z, y
<1>3. z.out_row_ctr \in Nat /\ (pass = "read" => z.out_row_ctr < avail) BY <1>1
<1>4. PICK n \in Nat : Result(setup, e, p, z, y, n, avail)
  <2>1. CASE setup.kind = "context"
    <3>1. PlaceContext(setup, FALSE, p, z) BY <1>1, <2>1 DEF Place
    <3>2. y = process_data_context_main(z, avail) BY <1>2, <2>1
    <3>3. p \in Int OBVIOUS
    <3>4. \E n \in Nat : Result(setup, e, p, z, process_data_context_main(z, avail), n, avail)
      BY <1>1, <1>3, <2>1, <3>1, <3>3, ContextResult
    <3> QED BY <3>2, <3>4
  <2>2. CASE setup.kind # "context"
    <3>1. PlaceSimple(setup, FALSE, p, z) BY <1>1, <2>2 DEF Place
    <3>2. y = process_data_simple_main(z, avail) BY <1>2, <2>2
    <3>3. p \in Int OBVIOUS
    <3>4. \E n \in Nat : Result(setup, e, p, z, process_data_simple_main(z, avail), n, avail)
      BY <1>1, <1>3, <2>2, <3>1, <3>3, SimpleResult
    <3> QED BY <3>2, <3>4
  <2> QED BY <2>1, <2>2
<1>5. Result(setup, e, p, x, y, n, avail) BY <1>1, <1>4 DEF Result
<1> QED BY <1>4, <1>5 DEF y

-----------------------------------------------------------------------------
(* jpeg_read_scanlines.                                                    *)
Same(x, y) ==
    /\ y.buffer = x.buffer /\ y.xbuffer = x.xbuffer
    /\ y.buffer_full = x.buffer_full /\ y.rowgroups_avail = x.rowgroups_avail
    /\ y.whichptr = x.whichptr /\ y.context_state = x.context_state
    /\ y.iMCU_row_ctr = x.iMCU_row_ctr /\ y.output_iMCU_row = x.output_iMCU_row
    /\ y.starting_row = x.starting_row /\ y.next_row = x.next_row
    /\ SameUpsampler(x, y)

(* What is the same is held as well.                                       *)
LEMMA SameHolds ==
    ASSUME NEW s, NEW e, NEW p, NEW x, NEW y, Same(x, y)
    PROVE  /\ Counters(s, x) => Counters(s, y)
           /\ Buffers(s, x) => Buffers(s, y)
           /\ Somewhere(s, e, TRUE, p, x) => Somewhere(s, e, TRUE, p, y)
<1>1. Counters(s, x) => Counters(s, y) BY DEF Same, SameUpsampler, Counters
<1>2. Buffers(s, x) => Buffers(s, y) BY DEF Same, Buffers
<1>3. Within(s, y) = Within(s, x) BY DEF Same, SameUpsampler, Within
<1>4. Row(y) = Row(x) BY DEF Same, Row
<1>5. Given(s, y) = Given(s, x) BY <1>3 DEF Same, SameUpsampler, Given
<1>6. ASSUME Somewhere(s, e, TRUE, p, x)
      PROVE  Somewhere(s, e, TRUE, p, y)
  <2>1. Upsampler(s, e, p, x) => Upsampler(s, e, p, y)
    BY <1>3 DEF Same, SameUpsampler, Upsampler
  <2>2. PlaceSimple(s, TRUE, p, x) => PlaceSimple(s, TRUE, p, y)
    BY <1>3, <1>4, <1>5 DEF Same, SameUpsampler, PlaceSimple
  <2>3. Preparing(s, p, x) => Preparing(s, p, y) BY <1>3, <1>4 DEF Same, Preparing
  <2>4. Processing(s, TRUE, p, x) => Processing(s, TRUE, p, y)
    BY <1>4, <1>5 DEF Same, SameUpsampler, Processing
  <2>5. Postponed(s, TRUE, p, x) => Postponed(s, TRUE, p, y)
    BY <1>3, <1>4 DEF Same, SameUpsampler, Postponed
  <2>6. PlaceContext(s, TRUE, p, x) => PlaceContext(s, TRUE, p, y)
    BY <2>3, <2>4, <2>5 DEF Same, PlaceContext
  <2> QED BY <1>6, <2>1, <2>2, <2>6 DEF Somewhere, Place
<1> QED BY <1>1, <1>2, <1>6

(* The state between two calls, all or (e) but for a stale rows_to_go.     *)
Held(s, e, x) ==
    /\ Shape(x) /\ Counters(s, x) /\ Buffers(s, x)
    /\ x.output_scanline \in 0 .. s.output_height
    /\ Somewhere(s, e, TRUE, x.output_scanline, x)

(* No rows are a sequence of rows.                                         *)
LEMMA NoRows == IsSeq(<< >>) /\ Len(<< >>) = 0
BY DEF IsSeq

(* What a call changes at its beginning.                                   *)
LEMMA ResetShape ==
    ASSUME NEW x, Shape(x), NEW k
    PROVE  LET z == [x EXCEPT !.rows = << >>, !.out_row_ctr = k]
           IN  /\ Shape(z) /\ Same(x, z) /\ z.output_scanline = x.output_scanline
               /\ z.out_row_ctr = k
<1> DEFINE z == [x EXCEPT !.rows = << >>, !.out_row_ctr = k]
<1>1. x = [f \in Fields |-> x[f]] BY DEF Shape
<1>2. z = [f \in Fields |-> z[f]] BY <1>1 DEF Fields
<1>3. /\ Same(x, z) /\ z.output_scanline = x.output_scanline /\ z.out_row_ctr = k
      /\ z.rows = << >>
  BY <1>1 DEF Fields, Same, SameUpsampler
<1> HIDE DEF z
<1>4. Shape(z) BY <1>2, <1>3, NoRows DEF Shape
<1> QED BY <1>3, <1>4 DEF z

(* Setting output_scanline.                                                *)
LEMMA ScanlineShape ==
    ASSUME NEW x, Shape(x), NEW k
    PROVE  LET z == [x EXCEPT !.output_scanline = k]
           IN  /\ Shape(z) /\ Same(x, z) /\ z.output_scanline = k
               /\ z.rows = x.rows
<1> DEFINE z == [x EXCEPT !.output_scanline = k]
<1>1. x = [f \in Fields |-> x[f]] BY DEF Shape
<1>2. z = [f \in Fields |-> z[f]] BY <1>1 DEF Fields
<1>3. /\ Same(x, z) /\ z.output_scanline = k /\ z.rows = x.rows
  BY <1>1 DEF Fields, Same, SameUpsampler
<1> HIDE DEF z
<1>4. Shape(z) BY <1>2, <1>3 DEF Shape
<1> QED BY <1>3, <1>4 DEF z

(* jpeg_read_scanlines: as many lines as were asked for at most, one at    *)
(* least if the source delivers, and all as before for the next call.      *)
LEMMA ReadHolds ==
    ASSUME setup \in Setups, pass = "read", NEW e \in BOOLEAN, NEW x,
           Held(setup, e, x), x.output_scanline < setup.output_height,
           NEW max_lines \in Nat \ {0}, e \/ max_lines = 1, NEW data \in BOOLEAN
    PROVE  LET y == ReadLines(x, max_lines, data)
           IN  /\ Held(setup, e, y)
               /\ y.output_scanline \in
                     x.output_scanline .. x.output_scanline + max_lines
               /\ data => y.output_scanline > x.output_scanline
<1> DEFINE H == setup.output_height
           p == x.output_scanline
           z == [x EXCEPT !.rows = << >>, !.out_row_ctr = 0]
           u == process_data(z, max_lines, data)
           y == ReadLines(x, max_lines, data)
<1>1. H \in Nat /\ p \in Nat /\ p < H BY SetupsAre DEF Held
<1>2. y = AddScanlines(u) BY <1>1 DEF ReadLines, output_height
<1>3. Shape(z) /\ Same(x, z) /\ z.output_scanline = p /\ z.out_row_ctr = 0
  <2>1. Shape(x) BY DEF Held
  <2> QED BY <2>1, ResetShape
<1> HIDE DEF z
<1>4. Counters(setup, z) /\ Buffers(setup, z) /\ Somewhere(setup, e, TRUE, p, z)
  BY <1>3, SameHolds DEF Held
<1>5. CASE z.buffer_full \/ data
  <2>1. Upsampler(setup, e, p, z) /\ Place(setup, TRUE, p, z)
    BY <1>1, <1>4 DEF Somewhere
  <2>2. z.out_row_ctr \in Nat /\ z.out_row_ctr < max_lines /\ max_lines \in Nat
    BY <1>3
  <2> HIDE DEF p, H
  <2>3. PICK n \in Nat : Result(setup, e, p, z, u, n, max_lines)
    BY <1>1, <1>3, <1>4, <1>5, <2>1, <2>2, DataResult DEF H
  <2> HIDE DEF u
  <2>4. /\ Shape(u) /\ Counters(setup, u) /\ Buffers(setup, u)
        /\ u.output_scanline = p /\ u.out_row_ctr = 0 + n /\ n \in Nat \ {0}
        /\ e => p + n <= H
        /\ u.out_row_ctr <= max_lines
        /\ Somewhere(setup, e, TRUE, p + n, u)
    BY <1>3, <2>3 DEF Result, H
  <2>5. u.out_row_ctr = n /\ n <= max_lines BY <2>4
  <2>6. p + n <= H
    <3>1. CASE e BY <2>4, <3>1
    <3>2. CASE max_lines = 1 BY <1>1, <2>4, <2>5, <3>2
    <3> QED BY <3>1, <3>2
  <2>7. AddScanlines(u) = [u EXCEPT !.output_scanline = p + n]
    <3>1. u = [f \in Fields |-> u[f]] BY <2>4 DEF Shape
    <3> QED BY <2>4, <2>5, <3>1 DEF AddScanlines, Fields
  <2> HIDE DEF y
  <2>8. Shape(y) /\ Same(u, y) /\ y.output_scanline = p + n
    BY <1>2, <2>4, <2>7, ScanlineShape
  <2>9. Counters(setup, y) /\ Buffers(setup, y) /\ Somewhere(setup, e, TRUE, p + n, y)
    BY <2>4, <2>8, SameHolds
  <2>10. p + n \in 0 .. H /\ p + n \in p .. p + max_lines /\ p + n > p
    BY <1>1, <2>4, <2>5, <2>6
  <2>11. Held(setup, e, y) BY <2>8, <2>9, <2>10 DEF Held, H
  <2> QED BY <2>8, <2>10, <2>11 DEF p, y
<1>6. CASE ~(z.buffer_full \/ data)
  <2>1. u = z BY <1>6 DEF process_data
  <2>2. AddScanlines(z) = [z EXCEPT !.output_scanline = p]
    <3>1. z = [f \in Fields |-> z[f]] BY <1>3 DEF Shape
    <3>2. z.output_scanline + z.out_row_ctr = p BY <1>1, <1>3
    <3> HIDE DEF p
    <3> QED BY <1>3, <3>1, <3>2 DEF AddScanlines, Fields
  <2> HIDE DEF y
  <2> HIDE DEF p, u
  <2>3. Shape(y) /\ Same(z, y) /\ y.output_scanline = p
    BY <1>2, <1>3, <2>1, <2>2, ScanlineShape
  <2>4. Counters(setup, y) /\ Buffers(setup, y) /\ Somewhere(setup, e, TRUE, p, y)
    BY <1>4, <2>3, SameHolds
  <2>5. p \in 0 .. H /\ p \in p .. p + max_lines BY <1>1
  <2>6. Held(setup, e, y) BY <2>3, <2>4, <2>5 DEF Held
  <2> QED BY <1>6, <2>3, <2>5, <2>6 DEF p, y
<1> QED BY <1>5, <1>6

-----------------------------------------------------------------------------
(* read_and_discard_scanlines.  Induction over the natural numbers comes   *)
(* from the well-founded order of finite sets.                             *)
LEMMA LeastElement ==
    ASSUME NEW A \in SUBSET Nat, A # {}
    PROVE  \E n \in A : \A m \in A : n <= m
<1> DEFINE T == {0 .. n - 1 : n \in A}
           S == FiniteSubsetsOf(Nat)
           R == StrictSubsetOrdering(Nat)
<1>1. T \subseteq S
  <2>1. \A n \in A : IsFiniteSet(0 .. n - 1) BY FS_Interval
  <2> QED BY <2>1 DEF FiniteSubsetsOf
<1>2. T # {} OBVIOUS
<1>3. IsWellFoundedOn(R, S) BY FS_StrictSubsetOrderingWellFounded
<1> HIDE DEF S, T
<1>4. PICK x \in T : \A y \in T : ~(<<y, x>> \in R)
  <2> HIDE DEF R
  <2> QED BY <1>1, <1>2, <1>3, WFMin
<1>5. PICK n \in A : x = 0 .. n - 1 BY DEF T
<1>6. ASSUME NEW m \in A, m < n PROVE FALSE
  <2>1. 0 .. m - 1 \in T BY DEF T
  <2>2. 0 .. m - 1 \subseteq 0 .. n - 1 /\ m \in 0 .. n - 1 /\ m \notin 0 .. m - 1 BY <1>6
  <2>3. <<0 .. m - 1, x>> \in R BY <1>5, <2>2 DEF StrictSubsetOrdering
  <2> QED BY <1>4, <2>1, <2>3
<1> QED BY <1>6

(* Induction over the natural numbers, as a statement about sets.          *)
LEMMA Induction ==
    ASSUME NEW A, 0 \in A, \A n \in Nat : n \in A => n + 1 \in A
    PROVE  \A n \in Nat : n \in A
<1> DEFINE B == {n \in Nat : n \notin A}
<1> SUFFICES ASSUME B # {} PROVE FALSE OBVIOUS
<1>1. PICK n \in B : \A m \in B : n <= m
  <2>1. B \in SUBSET Nat OBVIOUS
  <2> HIDE DEF B
  <2> QED BY <2>1, LeastElement
<1>2. n # 0 /\ n - 1 \in Nat OBVIOUS
<1>3. n - 1 \in A BY <1>1, <1>2
<1> QED BY <1>2, <1>3

(* f is the states that reads of one line each go through, from x on.      *)
Reads(f, x, num) ==
    f = [n \in 0 .. num |-> IF n = 0 THEN x ELSE ReadLines(f[n - 1], 1, TRUE)]

(* There is such a sequence of states for every number of lines.           *)
LEMMA ReadsExist ==
    ASSUME NEW x, NEW num \in Nat
    PROVE  \E f : Reads(f, x, num)
<1> DEFINE A == {n \in Nat : \E f : Reads(f, x, n)}
<1>1. 0 \in A
  <2> DEFINE f == [n \in 0 .. 0 |-> x]
  <2>1. Reads(f, x, 0) BY DEF Reads
  <2> HIDE DEF f
  <2> QED BY <2>1
<1>2. ASSUME NEW k \in Nat, k \in A PROVE k + 1 \in A
  <2>1. PICK f : Reads(f, x, k) BY <1>2
  <2> DEFINE g == [n \in 0 .. k + 1 |-> IF n = k + 1 THEN ReadLines(f[k], 1, TRUE)
                                                    ELSE f[n]]
             h == [n \in 0 .. k + 1 |-> IF n = 0 THEN x ELSE ReadLines(g[n - 1], 1, TRUE)]
  <2>2. ASSUME NEW n \in 0 .. k + 1 PROVE g[n] = h[n]
    <3>1. CASE n = k + 1
      <4>1. n # 0 /\ n - 1 = k /\ k \in 0 .. k + 1 /\ k # k + 1 BY <3>1
      <4>2. g[n] = ReadLines(f[k], 1, TRUE) BY <3>1
      <4>3. g[k] = f[k] BY <4>1
      <4> HIDE DEF g
      <4>4. h[n] = ReadLines(g[k], 1, TRUE) BY <4>1
      <4> QED BY <4>2, <4>3, <4>4
    <3>2. CASE n # k + 1 /\ n # 0
      <4>1. n \in 0 .. k /\ n - 1 \in 0 .. k + 1 /\ n - 1 # k + 1 BY <3>2
      <4>2. g[n] = f[n] /\ g[n - 1] = f[n - 1] BY <3>2, <4>1
      <4>3. f[n] = ReadLines(f[n - 1], 1, TRUE) BY <2>1, <3>2, <4>1, Zenon DEF Reads
      <4> HIDE DEF g
      <4>4. h[n] = ReadLines(g[n - 1], 1, TRUE) BY <3>2
      <4> QED BY <4>2, <4>3, <4>4
    <3>3. CASE n = 0
      <4>1. 0 \in 0 .. k /\ 0 \in 0 .. k + 1 /\ 0 # k + 1 OBVIOUS
      <4>2. f[0] = x BY <2>1, <4>1, Zenon DEF Reads
      <4>3. g[0] = f[0] BY <4>1
      <4>4. h[0] = x BY <4>1
      <4> QED BY <3>3, <4>2, <4>3, <4>4
    <3> QED BY <3>1, <3>2, <3>3
  <2>3. g = [n \in 0 .. k + 1 |-> g[n]] OBVIOUS
  <2>4. h = [n \in 0 .. k + 1 |-> h[n]] OBVIOUS
  <2> HIDE DEF g, h
  <2>5. g = h BY <2>2, <2>3, <2>4, Zenon
  <2>6. Reads(g, x, k + 1) BY <2>5, Zenon DEF h, Reads
  <2> QED BY <2>6
<1> HIDE DEF A
<1>3. num \in A BY <1>1, <1>2, Induction
<1> QED BY <1>3 DEF A

(* read_and_discard_scanlines ends in the last state of one.               *)
LEMMA ReadsAre ==
    ASSUME NEW x, NEW num \in Nat
    PROVE  \E f : /\ Reads(f, x, num)
                  /\ read_and_discard_scanlines(x, num) = [f[num] EXCEPT !.rows = << >>]
<1> DEFINE f == CHOOSE f : Reads(f, x, num)
<1>1. Reads(f, x, num) BY ReadsExist, Zenon
<1>2. read_and_discard_scanlines(x, num) = [f[num] EXCEPT !.rows = << >>]
  BY Zenon DEF read_and_discard_scanlines, Reads
<1> HIDE DEF f
<1> QED BY <1>1, <1>2

(* Clearing the rows handed out.                                           *)
LEMMA RowsShape ==
    ASSUME NEW x, Shape(x)
    PROVE  LET z == [x EXCEPT !.rows = << >>]
           IN  /\ Shape(z) /\ Same(x, z) /\ z.output_scanline = x.output_scanline
               /\ z.rows = << >>
<1> DEFINE z == [x EXCEPT !.rows = << >>]
<1>1. x = [f \in Fields |-> x[f]] BY DEF Shape
<1>2. z = [f \in Fields |-> z[f]] BY <1>1 DEF Fields
<1>3. /\ Same(x, z) /\ z.output_scanline = x.output_scanline /\ z.rows = << >>
  BY <1>1 DEF Fields, Same, SameUpsampler
<1> HIDE DEF z
<1>4. Shape(z) BY <1>2, <1>3, NoRows DEF Shape
<1> QED BY <1>3, <1>4 DEF z

(* A state without its rows is held as well.                               *)
LEMMA NoRowsHold ==
    ASSUME NEW s, NEW e, NEW x, Held(s, e, x)
    PROVE  LET z == [x EXCEPT !.rows = << >>]
           IN  Held(s, e, z) /\ z.output_scanline = x.output_scanline /\ Same(x, z)
<1> DEFINE z == [x EXCEPT !.rows = << >>]
           p == x.output_scanline
<1>1. Shape(x) BY DEF Held
<1>2. Shape(z) /\ Same(x, z) /\ z.output_scanline = p BY <1>1, RowsShape
<1> HIDE DEF z
<1>3. Counters(s, z) /\ Buffers(s, z) /\ Somewhere(s, e, TRUE, p, z)
  BY <1>2, SameHolds DEF Held
<1>4. Held(s, e, z) BY <1>2, <1>3 DEF Held
<1> QED BY <1>2, <1>4 DEF z

(* read_and_discard_scanlines reads num lines, by induction.               *)
LEMMA DiscardHolds ==
    ASSUME setup \in Setups, pass = "read", NEW e \in BOOLEAN, NEW x,
           Held(setup, e, x), NEW num \in Nat,
           x.output_scanline + num <= setup.output_height
    PROVE  LET y == read_and_discard_scanlines(x, num)
           IN  Held(setup, e, y) /\ y.output_scanline = x.output_scanline + num
<1> DEFINE p == x.output_scanline
           H == setup.output_height
<1>1. PICK f : /\ Reads(f, x, num)
               /\ read_and_discard_scanlines(x, num) = [f[num] EXCEPT !.rows = << >>]
  BY ReadsAre
<1>2. H \in Nat /\ p \in Nat BY SetupsAre DEF Held
<1> DEFINE A == {n \in Nat : n <= num => /\ Held(setup, e, f[n])
                                         /\ f[n].output_scanline = p + n}
<1>3. 0 \in A
  <2>1. 0 \in 0 .. num OBVIOUS
  <2>2. f[0] = x BY <1>1, <2>1, Zenon DEF Reads
  <2> QED BY <1>2, <2>2
<1>4. ASSUME NEW k \in Nat, k \in A PROVE k + 1 \in A
  <2> SUFFICES ASSUME k + 1 <= num
               PROVE  Held(setup, e, f[k + 1]) /\ f[k + 1].output_scanline = p + (k + 1)
    OBVIOUS
  <2>1. Held(setup, e, f[k]) /\ f[k].output_scanline = p + k BY <1>4
  <2>2. k + 1 \in 0 .. num /\ k + 1 # 0 /\ (k + 1) - 1 = k OBVIOUS
  <2>3. f[k + 1] = ReadLines(f[k], 1, TRUE) BY <1>1, <2>2, Zenon DEF Reads
  <2>4. p + k < H BY <1>2
  <2> DEFINE u == f[k]
             v == f[k + 1]
  <2> HIDE DEF u, v
  <2>5. v = ReadLines(u, 1, TRUE) BY <2>3 DEF u, v
  <2>6. /\ Held(setup, e, u) /\ u.output_scanline < setup.output_height
        /\ 1 \in Nat \ {0} /\ TRUE \in BOOLEAN
    BY <2>1, <2>4 DEF u
  <2>7. /\ Held(setup, e, v)
        /\ v.output_scanline \in u.output_scanline .. u.output_scanline + 1
        /\ v.output_scanline > u.output_scanline
    BY <2>5, <2>6, ReadHolds
  <2>8. u.output_scanline = p + k BY <2>1 DEF u
  <2>9. v.output_scanline = p + (k + 1) BY <1>2, <2>7, <2>8
  <2> QED BY <2>7, <2>9 DEF v
<1> HIDE DEF A
<1>5. num \in A BY <1>3, <1>4, Induction
<1>6. Held(setup, e, f[num]) /\ f[num].output_scanline = p + num BY <1>5 DEF A
<1> HIDE DEF p
<1> QED BY <1>1, <1>6, NoRowsHold DEF p

-----------------------------------------------------------------------------
(* jpeg_skip_scanlines: how far it is to the end of an iMCU row.           *)
LEMMA LeftIs ==
    ASSUME NEW b \in Nat \ {0}, NEW k \in Int, NEW g \in 0 .. b - 1
    PROVE  (-(k * b + g)) % b = IF g = 0 THEN 0 ELSE b - g
<1>0. k * b \in Int OBVIOUS
<1>1. CASE g = 0
  <2>1. -(k * b + g) = (-k) * b + 0 BY <1>1
  <2>2. -k \in Int /\ 0 \in 0 .. b - 1 OBVIOUS
  <2>3. ((-k) * b + 0) % b = 0 BY <2>2, OfWholes
  <2> QED BY <1>1, <2>1, <2>3
<1>2. CASE g # 0
  <2>1. (-k - 1) * b = -(k * b) - b
    <3>1. -k - 1 \in Int /\ (-k - 1) + 1 = -k OBVIOUS
    <3>2. ((-k - 1) + 1) * b = (-k - 1) * b + b BY <3>1, OneMore
    <3>3. (-k) * b = -(k * b) OBVIOUS
    <3>4. (-k - 1) * b \in Int BY <3>1
    <3> QED BY <1>0, <3>1, <3>2, <3>3, <3>4
  <2>2. -(k * b + g) = (-k - 1) * b + (b - g) BY <1>0, <2>1
  <2>3. -k - 1 \in Int /\ b - g \in 0 .. b - 1 BY <1>2
  <2>4. ((-k - 1) * b + (b - g)) % b = b - g BY <2>3, OfWholes
  <2> QED BY <1>2, <2>2, <2>4
<1> QED BY <1>1, <1>2

(* Whole row groups less whole row groups.                                 *)
LEMMA WholeLess ==
    ASSUME NEW v \in 1 .. 4, NEW n \in Int, NEW a \in Int, Whole(v, n)
    PROVE  Whole(v, n - a * v)
<1>1. CASE v = 1 BY <1>1 DEF Whole
<1>2. CASE v = 2 BY <1>2 DEF Whole
<1>3. CASE v = 3 BY <1>3 DEF Whole
<1>4. CASE v = 4 BY <1>4 DEF Whole
<1> QED BY <1>1, <1>2, <1>3, <1>4

(* Quotients below a product.                                              *)
LEMMA Below ==
    ASSUME NEW n \in Nat, NEW b \in Nat \ {0}, NEW c \in Nat, NEW g \in Nat,
           g * b + n < c * b
    PROVE  g + n \div b < c
<1> DEFINE q == n \div b
<1>1. q \in Nat /\ n % b \in 0 .. b - 1 /\ n = q * b + (n % b) BY QuotientIs
<1> HIDE DEF q
<1>2. SUFFICES ASSUME c <= g + q PROVE FALSE BY <1>1 DEF q
<1>3. c * b <= (g + q) * b BY <1>1, <1>2, ProductsOrdered
<1>4. (g + q) * b = g * b + q * b BY <1>1, Sums
<1>5. c * b \in Int /\ g * b \in Int /\ q * b \in Int BY <1>1
<1> QED BY <1>1, <1>3, <1>4, <1>5

(* Position p lies in row group k, after w of its lines.                   *)
LEMMA InGroup ==
    ASSUME NEW s \in Setups, NEW k \in Int, NEW g \in Int, NEW w \in 0 .. s.V - 1
    PROVE  (k * IMCULines(s) + (g * s.V + w)) % s.V = w
<1> DEFINE V == s.V
           L == IMCULines(s)
<1>1. V \in Nat \ {0} /\ s.M \in Nat /\ L \in Nat BY SetupsAre, SizesAre
<1>2. (k * s.M) * V = k * L BY SizesAre
<1>3. k * s.M \in Int BY <1>1
<1>4. (k * s.M + g) * V = (k * s.M) * V + g * V BY <1>1, <1>3, Sums
<1>5. k * L \in Int /\ g * V \in Int BY <1>1
<1> HIDE DEF V, L
<1>6. k * L + (g * V + w) = (k * s.M + g) * V + w
  <2>1. w \in Int BY <1>1 DEF V
  <2> QED BY <1>2, <1>4, <1>5, <2>1
<1>7. k * s.M + g \in Int BY <1>3
<1>8. ((k * s.M + g) * V + w) % V = w BY <1>1, <1>7, OfWholes DEF V
<1> QED BY <1>6, <1>8 DEF V, L

(* Row groups are stepped over.                                            *)
LEMMA StepOver ==
    ASSUME setup \in Setups, setup.kind # "context", NEW e \in BOOLEAN, NEW x,
           Held(setup, e, x), Within(setup, x) = 0, NEW a \in Nat,
           x.rowgroup_ctr + a < setup.M,
           x.output_scanline + a * setup.V < setup.output_height,
           e => a = 0 \/ Whole(setup.V, setup.output_height - x.output_scanline)
    PROVE  LET y == [x EXCEPT !.rowgroup_ctr = x.rowgroup_ctr + a,
                              !.output_scanline = x.output_scanline + a * setup.V]
           IN  Held(setup, e, y)
<1> DEFINE V == setup.V
           H == setup.output_height
           L == IMCULines(setup)
           p == x.output_scanline
           g == x.rowgroup_ctr
           m == a * V
           y == [x EXCEPT !.rowgroup_ctr = g + a, !.output_scanline = p + m]
<1>1. /\ V \in 1 .. 4 /\ H \in Nat /\ setup.M \in Nat \ {0} /\ L \in Nat
      /\ g \in Nat /\ p \in Nat /\ m \in Nat /\ p + m < H /\ p < H
  <2>1. /\ V \in 1 .. 4 /\ H \in Nat /\ setup.M \in Nat \ {0} /\ L \in Nat
    BY SetupsAre, SizesAre
  <2>2. g \in Nat /\ p \in Nat BY <2>1 DEF Held, Counters
  <2>3. m \in Nat BY <2>1
  <2>4. p + m < H OBVIOUS
  <2> HIDE DEF m, p, g, H
  <2> QED BY <2>1, <2>2, <2>3, <2>4
<1>2. /\ Shape(y) /\ KeptToo(x, y)
      /\ y.output_scanline = p + m /\ y.rowgroup_ctr = g + a
      /\ y.next_row_out = x.next_row_out /\ y.spare_full = x.spare_full
      /\ y.rows_to_go = x.rows_to_go
      /\ y.buffer_full = x.buffer_full /\ y.output_iMCU_row = x.output_iMCU_row
      /\ y.iMCU_row_ctr = x.iMCU_row_ctr
      /\ y.whichptr = x.whichptr /\ y.rowgroups_avail = x.rowgroups_avail
      /\ y.buffer = x.buffer /\ y.xbuffer = x.xbuffer
  <2> DEFINE i == g + a
             k == p + m
  <2> HIDE DEF i, k
  <2> DEFINE z == [x EXCEPT !.rowgroup_ctr = i, !.output_scanline = k]
  <2>1. x = [f \in Fields |-> x[f]] /\ IsSeq(x.rows) BY DEF Held, Shape
  <2>2. z = [f \in Fields |-> z[f]] BY <2>1 DEF Fields
  <2>3. /\ KeptToo(x, z)
        /\ z.output_scanline = k /\ z.rowgroup_ctr = i
        /\ z.next_row_out = x.next_row_out /\ z.spare_full = x.spare_full
        /\ z.rows_to_go = x.rows_to_go
        /\ z.buffer_full = x.buffer_full /\ z.output_iMCU_row = x.output_iMCU_row
        /\ z.iMCU_row_ctr = x.iMCU_row_ctr
        /\ z.whichptr = x.whichptr /\ z.rowgroups_avail = x.rowgroups_avail
        /\ z.buffer = x.buffer /\ z.xbuffer = x.xbuffer /\ z.rows = x.rows
    BY <2>1 DEF Fields, KeptToo
  <2>4. y = z BY DEF i, k
  <2> HIDE DEF z, y
  <2>5. Shape(z) BY <2>1, <2>2, <2>3 DEF Shape
  <2> QED BY <2>3, <2>4, <2>5 DEF i, k
<1> HIDE DEF y
<1>3. Within(setup, y) = 0 /\ Row(y) = Row(x) BY <1>2 DEF Within, Row
<1>4. Upsampler(setup, e, p, x) /\ PlaceSimple(setup, TRUE, p, x)
  BY <1>1 DEF Held, Somewhere, Place
<1>5. (g + a) * V = g * V + m BY <1>1, Sums
<1>6. Given(setup, x) = g * V /\ Given(setup, y) = g * V + m
  <2>1. g * V \in Nat /\ (g + a) * V \in Nat BY <1>1
  <2> QED BY <1>2, <1>3, <1>5, <2>1 DEF Given
<1>7. g * V \in Nat /\ Row(x) \in Int /\ Row(x) * L \in Int
  <2>1. x.output_iMCU_row \in Int BY SizesAre DEF Held, Counters
  <2>2. Row(x) \in Int BY <2>1 DEF Row
  <2> QED BY <1>1, <2>2
<1>8. PlaceSimple(setup, TRUE, p + m, y)
  <2>1. p = Row(x) * L + g * V BY <1>4, <1>6 DEF PlaceSimple
  <2> HIDE DEF p, m, L, g
  <2>2. p + m = Row(x) * L + (g * V + m) BY <1>1, <1>7, <2>1
  <2>3. x.buffer_full => x.output_iMCU_row > 0 /\ g * V + m > 0
    <3>1. x.buffer_full => x.output_iMCU_row > 0 /\ g * V > 0
      BY <1>4, <1>6 DEF PlaceSimple
    <3> QED BY <1>1, <1>7, <3>1
  <2>4. g + a < setup.M BY DEF g
  <2> QED BY <1>2, <1>3, <1>6, <2>2, <2>3, <2>4 DEF PlaceSimple, L
<1>9. Upsampler(setup, e, p + m, y)
  <2>1. /\ x.rows_to_go >= H - p
        /\ e => x.rows_to_go = H - p \/ Whole(V, H - p + 0)
    BY <1>4 DEF Upsampler
  <2>2. x.rows_to_go \in Int BY <1>1 DEF Held, Counters
  <2> HIDE DEF p, m
  <2>3. x.rows_to_go >= H - (p + m) BY <1>1, <2>1, <2>2
  <2>4. e => \/ x.rows_to_go = H - (p + m)
             \/ Whole(V, H - (p + m) + 0)
    <3>1. CASE a = 0
      <4>1. m = 0 BY <1>1, <3>1 DEF m
      <4>2. p + m = p BY <1>1, <4>1
      <4> QED BY <2>1, <4>2
    <3>2. CASE e /\ a # 0
      <4>1. Whole(V, H - p) BY <3>2 DEF p
      <4>2. H - p \in Int BY <1>1
      <4>3. Whole(V, H - p - a * V) BY <1>1, <4>1, <4>2, WholeLess
      <4>4. H - p - m = H - (p + m) + 0 BY <1>1
      <4> QED BY <4>3, <4>4 DEF m
    <3> QED BY <3>1, <3>2
  <2>5. 0 \in 0 .. V - 1 BY <1>1
  <2> QED BY <1>2, <1>3, <2>3, <2>4, <2>5 DEF Upsampler
<1>10. Counters(setup, y) /\ Buffers(setup, y)
  <2>1. g + a \in 0 .. setup.M + 2 BY <1>1
  <2> HIDE DEF g
  <2> QED BY <1>2, <2>1 DEF Held, Counters, Buffers, KeptToo
<1>11. Somewhere(setup, e, TRUE, p + m, y) BY <1>8, <1>9 DEF Somewhere, Place
<1>12. p + m \in 0 .. H BY <1>1
<1> HIDE DEF p, m
<1>13. Held(setup, e, y) BY <1>2, <1>10, <1>11, <1>12 DEF Held
<1> QED BY <1>13 DEF y, p, m

(* increment_simple_rowgroup_ctr steps over row groups and reads the rest. *)
LEMMA IncrementHolds ==
    ASSUME setup \in Setups, setup.kind # "context", pass = "read",
           NEW e \in BOOLEAN, NEW x, Held(setup, e, x), Within(setup, x) = 0,
           NEW num \in Nat,
           x.output_scanline + num < setup.output_height,
           x.rowgroup_ctr * setup.V + num < IMCULines(setup),
           e => \/ num < setup.V
                \/ Whole(setup.V, setup.output_height - x.output_scanline)
    PROVE  LET y == increment_simple_rowgroup_ctr(x, num)
           IN  Held(setup, e, y) /\ y.output_scanline = x.output_scanline + num
<1> DEFINE V == setup.V
           H == setup.output_height
           p == x.output_scanline
           g == x.rowgroup_ctr
           a == num \div V
           b == num % V
           z == [x EXCEPT !.rowgroup_ctr = g + a, !.output_scanline = p + a * V]
           y == increment_simple_rowgroup_ctr(x, num)
<1>1. /\ V \in 1 .. 4 /\ H \in Nat /\ setup.M \in Nat \ {0}
      /\ IMCULines(setup) = setup.M * V
  BY SetupsAre DEF IMCULines
<1>2. g \in Nat /\ p \in Nat BY <1>1 DEF Held, Counters
<1>3. a \in Nat /\ b \in 0 .. V - 1 /\ num = a * V + b
  <2>1. V \in Nat \ {0} BY <1>1
  <2> HIDE DEF V
  <2> QED BY <2>1, QuotientIs
<1>4. CASE spare_row_used
  <2>1. y = read_and_discard_scanlines(x, num)
    BY <1>4 DEF increment_simple_rowgroup_ctr
  <2>2. p + num <= H BY <1>1, <1>2
  <2> QED BY <2>1, <2>2, DiscardHolds
<1>5. CASE ~spare_row_used
  <2>1. a * V \in Nat BY <1>1, <1>3
  <2>2. num - b = a * V
    <3> HIDE DEF a, b
    <3>1. b \in Int BY <1>1, <1>3
    <3> QED BY <1>3, <2>1, <3>1
  <2>3. y = read_and_discard_scanlines(z, b)
    <3>1. x = [f \in Fields |-> x[f]] BY DEF Held, Shape
    <3>2. max_v_samp_factor = V BY DEF max_v_samp_factor
    <3>3. y = read_and_discard_scanlines(
                 [x EXCEPT !.rowgroup_ctr = @ + a,
                           !.output_scanline = @ + (num - b)], b)
      BY <1>5, <3>2, Zenon DEF increment_simple_rowgroup_ctr
    <3> DEFINE u == [x EXCEPT !.rowgroup_ctr = @ + a,
                              !.output_scanline = @ + (num - b)]
    <3>4. u = z
      <4> HIDE DEF a, b
      <4> QED BY <2>2, <3>1 DEF Fields
    <3> QED BY <3>3, <3>4
  <2>4. g + a < setup.M
    <3>1. g * V + num < setup.M * V BY <1>1
    <3>2. V \in Nat \ {0} /\ setup.M \in Nat BY <1>1
    <3> HIDE DEF V, g
    <3> QED BY <1>2, <3>1, <3>2, Below
  <2>5. p + a * V < H
    <3> HIDE DEF a, b
    <3>1. b \in Nat BY <1>1, <1>3
    <3> QED BY <1>1, <1>2, <1>3, <2>1, <3>1
  <2>6. e => a = 0 \/ Whole(V, H - p)
    <3>1. ASSUME num < V PROVE a = 0
      <4> HIDE DEF a, b
      <4>1. b \in Nat BY <1>1, <1>3
      <4>2. a * V < V BY <1>1, <1>3, <2>1, <3>1, <4>1
      <4>3. SUFFICES ASSUME 1 <= a PROVE FALSE BY <1>3
      <4>4. 1 * V <= a * V BY <1>1, <1>3, <4>3, ProductsOrdered
      <4> QED BY <1>1, <2>1, <4>2, <4>4
    <3> HIDE DEF a
    <3> QED BY <3>1
  <2> HIDE DEF y, a, b
  <2>7. Held(setup, e, z) BY <1>3, <2>4, <2>5, <2>6, StepOver
  <2>8. z.output_scanline = p + a * V
    <3>1. x = [f \in Fields |-> x[f]] BY DEF Held, Shape
    <3> QED BY <3>1 DEF Fields
  <2>9. b \in Nat /\ p + a * V + b = p + num /\ p + num <= H
    <3>1. b \in Nat BY <1>1, <1>3
    <3> QED BY <1>1, <1>2, <1>3, <2>1, <3>1
  <2> HIDE DEF z, p
  <2>10. Held(setup, e, y) /\ y.output_scanline = z.output_scanline + b
    <3>1. z.output_scanline + b <= H BY <2>8, <2>9
    <3> QED BY <2>3, <2>7, <2>9, <3>1, DiscardHolds
  <2> QED BY <2>8, <2>9, <2>10 DEF p, y
<1> QED BY <1>4, <1>5

(* All but rows_to_go and output_scanline.                                 *)
Like(x, y) ==
    /\ y.buffer = x.buffer /\ y.xbuffer = x.xbuffer
    /\ y.buffer_full = x.buffer_full /\ y.rowgroup_ctr = x.rowgroup_ctr
    /\ y.rowgroups_avail = x.rowgroups_avail
    /\ y.whichptr = x.whichptr /\ y.context_state = x.context_state
    /\ y.iMCU_row_ctr = x.iMCU_row_ctr /\ y.output_iMCU_row = x.output_iMCU_row
    /\ y.starting_row = x.starting_row /\ y.next_row = x.next_row
    /\ y.next_row_out = x.next_row_out /\ y.spare_full = x.spare_full

(* Place and buffers do not depend on rows_to_go.                          *)
LEMMA LikeHolds ==
    ASSUME NEW s, NEW p, NEW x, NEW y, Like(x, y)
    PROVE  /\ Within(s, y) = Within(s, x) /\ Row(y) = Row(x)
           /\ Given(s, y) = Given(s, x)
           /\ Buffers(s, x) => Buffers(s, y)
           /\ Place(s, TRUE, p, x) => Place(s, TRUE, p, y)
           /\ y.rows_to_go \in 0 .. s.output_height =>
                 (Counters(s, x) => Counters(s, y))
<1>1. Within(s, y) = Within(s, x) /\ Row(y) = Row(x) BY DEF Like, Within, Row
<1>2. Given(s, y) = Given(s, x) BY <1>1 DEF Like, Given
<1>3. Buffers(s, x) => Buffers(s, y) BY DEF Like, Buffers
<1>4. PlaceSimple(s, TRUE, p, x) => PlaceSimple(s, TRUE, p, y)
  BY <1>1, <1>2 DEF Like, PlaceSimple
<1>5. PlaceContext(s, TRUE, p, x) => PlaceContext(s, TRUE, p, y)
  <2>1. Preparing(s, p, x) => Preparing(s, p, y) BY <1>1 DEF Like, Preparing
  <2>2. Processing(s, TRUE, p, x) => Processing(s, TRUE, p, y)
    BY <1>1, <1>2 DEF Like, Processing
  <2>3. Postponed(s, TRUE, p, x) => Postponed(s, TRUE, p, y)
    BY <1>1 DEF Like, Postponed
  <2> QED BY <2>1, <2>2, <2>3 DEF Like, PlaceContext
<1>6. y.rows_to_go \in 0 .. s.output_height => (Counters(s, x) => Counters(s, y))
  BY DEF Like, Counters
<1> QED BY <1>1, <1>2, <1>3, <1>4, <1>5, <1>6 DEF Place

(* Setting rows_to_go.                                                     *)
LEMMA ToGoShape ==
    ASSUME NEW x, Shape(x), NEW k
    PROVE  LET z == [x EXCEPT !.rows_to_go = k]
           IN  /\ Shape(z) /\ Like(x, z) /\ z.rows_to_go = k
               /\ z.output_scanline = x.output_scanline
<1> DEFINE z == [x EXCEPT !.rows_to_go = k]
<1>1. x = [f \in Fields |-> x[f]] /\ IsSeq(x.rows) BY DEF Shape
<1>2. z = [f \in Fields |-> z[f]] BY <1>1 DEF Fields
<1>3. /\ Like(x, z) /\ z.rows_to_go = k /\ z.rows = x.rows
      /\ z.output_scanline = x.output_scanline
  BY <1>1 DEF Fields, Like
<1> HIDE DEF z
<1>4. Shape(z) BY <1>1, <1>2, <1>3 DEF Shape
<1> QED BY <1>3, <1>4 DEF z

(* CountRowsToGo mends a stale rows_to_go.                                 *)
LEMMA CountHolds ==
    ASSUME setup \in Setups, NEW e \in BOOLEAN, NEW x, Held(setup, e, x),
           setup.kind = "merged" => e
    PROVE  LET y == CountRowsToGo(x)
           IN  Held(setup, TRUE, y) /\ y.output_scanline = x.output_scanline
<1> DEFINE H == setup.output_height
           p == x.output_scanline
           y == CountRowsToGo(x)
<1>1. CASE using_merged_upsample
  <2>1. e = TRUE BY <1>1 DEF using_merged_upsample
  <2>2. y = x BY <1>1 DEF CountRowsToGo
  <2> QED BY <2>1, <2>2
<1>2. CASE ~using_merged_upsample
  <2>1. y = [x EXCEPT !.rows_to_go = H - p]
    BY <1>2 DEF CountRowsToGo, output_height
  <2>2. H \in Nat /\ p \in 0 .. H /\ Shape(x) /\ Counters(setup, x) /\ Buffers(setup, x)
    BY SetupsAre DEF Held
  <2> HIDE DEF y
  <2>3. Shape(y) /\ Like(x, y) /\ y.rows_to_go = H - p /\ y.output_scanline = p
    <3> DEFINE k == H - p
    <3> HIDE DEF k
    <3>1. y = [x EXCEPT !.rows_to_go = k] BY <2>1 DEF k
    <3>2. Shape(y) /\ Like(x, y) /\ y.rows_to_go = k /\ y.output_scanline = x.output_scanline
      BY <2>2, <3>1, ToGoShape
    <3> QED BY <3>2 DEF k
  <2>4. H - p \in 0 .. H BY <2>2
  <2>5. Counters(setup, y) /\ Buffers(setup, y) BY <2>2, <2>3, <2>4, LikeHolds
  <2>6. Somewhere(setup, TRUE, TRUE, p, y)
    <3>1. SUFFICES ASSUME p < H
                   PROVE  Upsampler(setup, TRUE, p, y) /\ Place(setup, TRUE, p, y)
      BY DEF Somewhere
    <3>2. Upsampler(setup, e, p, x) /\ Place(setup, TRUE, p, x)
      BY <3>1 DEF Held, Somewhere
    <3>3. Within(setup, y) = Within(setup, x) BY <2>3, LikeHolds
    <3>4. Place(setup, TRUE, p, y) BY <2>3, <3>2, LikeHolds
    <3>5. H - p >= H - p BY <2>4
    <3>6. Upsampler(setup, TRUE, p, y) BY <2>3, <3>2, <3>3, <3>5 DEF Upsampler
    <3> QED BY <3>4, <3>6
  <2>7. Held(setup, TRUE, y) BY <2>2, <2>3, <2>5, <2>6 DEF Held
  <2> QED BY <2>3, <2>7 DEF y
<1> QED BY <1>1, <1>2

(* At the top of an iMCU row which is not in the buffer.                   *)
AtTop(s, x) ==
    /\ ~x.buffer_full
    /\ Within(s, x) = 0
    /\ x.output_scanline = x.output_iMCU_row * IMCULines(s)
    /\ IF s.kind = "context" THEN /\ x.context_state = "CTX_PREPARE_FOR_IMCU"
                                  /\ x.iMCU_row_ctr = x.output_iMCU_row
                             ELSE x.rowgroup_ctr = 0

(* At the top of an iMCU row that is not decoded yet.                      *)
LEMMA TopHolds ==
    ASSUME setup \in Setups, NEW e \in BOOLEAN, NEW x, Shape(x),
           Counters(setup, x), Buffers(setup, x), AtTop(setup, x),
           x.output_scanline < setup.output_height,
           x.rows_to_go >= setup.output_height - x.output_scanline,
           e => \/ x.rows_to_go = setup.output_height - x.output_scanline
                \/ Whole(setup.V, setup.output_height)
    PROVE  Held(setup, e, x)
<1> DEFINE V == setup.V
           H == setup.output_height
           L == IMCULines(setup)
           p == x.output_scanline
           o == x.output_iMCU_row
<1>1. /\ V \in 1 .. 4 /\ H \in Nat /\ setup.M \in Nat \ {0} /\ L \in Nat
      /\ o \in Nat /\ p = o * L /\ p < H
  BY SetupsAre, SizesAre DEF Counters, AtTop
<1>2. p \in Nat BY <1>1
<1>3. Row(x) = o BY DEF AtTop, Row
<1>4. Upsampler(setup, e, p, x)
  <2>1. ASSUME Whole(V, H) PROVE Whole(V, H - p + 0)
    <3>1. p = (o * setup.M) * V BY <1>1, SizesAre
    <3>2. o * setup.M \in Int BY <1>1
    <3>3. Whole(V, H - (o * setup.M) * V) BY <1>1, <2>1, <3>2, WholeLess
    <3>4. H - p = H - p + 0 BY <1>1, <1>2
    <3> QED BY <3>1, <3>3, <3>4
  <2>2. 0 \in 0 .. V - 1 BY <1>1
  <2> HIDE DEF p
  <2> QED BY <2>1, <2>2 DEF AtTop, Upsampler, p
<1>5. CASE setup.kind = "context"
  <2>1. Preparing(setup, p, x) BY <1>1, <1>3, <1>5 DEF AtTop, Preparing
  <2>2. Place(setup, TRUE, p, x) BY <1>5, <2>1 DEF AtTop, Place, PlaceContext
  <2>3. p \in 0 .. H BY <1>1, <1>2
  <2> QED BY <1>4, <2>2, <2>3 DEF Held, Somewhere
<1>6. CASE setup.kind # "context"
  <2>1. x.rowgroup_ctr = 0 /\ Within(setup, x) = 0 /\ ~x.buffer_full
    BY <1>6 DEF AtTop
  <2>2. Given(setup, x) = 0 BY <1>1, <2>1 DEF Given
  <2>3. p = Row(x) * L + Given(setup, x) BY <1>1, <1>2, <1>3, <2>2
  <2>4. PlaceSimple(setup, TRUE, p, x) BY <1>1, <2>1, <2>3 DEF PlaceSimple
  <2>5. p \in 0 .. H BY <1>1, <1>2
  <2> QED BY <1>4, <1>6, <2>4, <2>5 DEF Held, Somewhere, Place
<1> QED BY <1>5, <1>6

(* Whole iMCU rows are passed over.                                        *)
Jumped(x, y, p, o, k) ==
    /\ y.buffer = x.buffer /\ y.xbuffer = x.xbuffer
    /\ y.buffer_full = x.buffer_full /\ y.rowgroup_ctr = x.rowgroup_ctr
    /\ y.rowgroups_avail = x.rowgroups_avail
    /\ y.whichptr = x.whichptr /\ y.context_state = x.context_state
    /\ y.iMCU_row_ctr = k /\ y.output_iMCU_row = o /\ y.output_scanline = p
    /\ y.starting_row = x.starting_row /\ y.next_row = x.next_row
    /\ SameUpsampler(x, y)

(* Passing over q iMCU rows leads to the top of another.                   *)
LEMMA JumpHolds ==
    ASSUME setup \in Setups, NEW x, Held(setup, TRUE, x), AtTop(setup, x),
           NEW q \in Nat, NEW e \in BOOLEAN, e => Whole(setup.V, setup.output_height),
           x.output_scanline + q * IMCULines(setup) < setup.output_height,
           NEW k,
           k = IF setup.kind = "context" THEN x.iMCU_row_ctr + q ELSE x.iMCU_row_ctr,
           NEW y, Shape(y),
           Jumped(x, y, x.output_scanline + q * IMCULines(setup),
                  x.output_iMCU_row + q, k)
    PROVE  Held(setup, e, y) /\ AtTop(setup, y)
<1> DEFINE V == setup.V
           H == setup.output_height
           L == IMCULines(setup)
           T == IMCURows(setup)
           o == x.output_iMCU_row
           p == x.output_scanline
           p2 == p + q * L
           o2 == o + q
<1>1. /\ V \in 1 .. 4 /\ H \in Nat /\ L \in Nat /\ T \in Nat /\ o \in Nat
      /\ p = o * L /\ p \in Nat
  BY SetupsAre, SizesAre DEF Held, Counters, AtTop
<1>2. p2 = o2 * L /\ p2 \in Nat /\ p2 < H /\ o2 \in Nat /\ p <= p2
  <2>1. (o + q) * L = o * L + q * L BY <1>1, Sums
  <2>2. q * L \in Nat BY <1>1
  <2> HIDE DEF o, p, L
  <2> QED BY <1>1, <2>1, <2>2 DEF p, L
<1>3. o2 \in 0 .. T
  <2>1. o2 * L < H => o2 < T BY <1>2, SizesAre
  <2> HIDE DEF o2, p2
  <2> QED BY <1>1, <1>2, <2>1
<1>6. /\ y.buffer = x.buffer /\ y.xbuffer = x.xbuffer
      /\ y.buffer_full = x.buffer_full /\ y.rowgroup_ctr = x.rowgroup_ctr
      /\ y.rowgroups_avail = x.rowgroups_avail
      /\ y.whichptr = x.whichptr /\ y.context_state = x.context_state
      /\ y.iMCU_row_ctr = k /\ y.output_iMCU_row = o2 /\ y.output_scanline = p2
      /\ y.starting_row = x.starting_row /\ y.next_row = x.next_row
      /\ SameUpsampler(x, y)
  BY DEF Jumped
<1> HIDE DEF p2, o2
<1>8. Within(setup, y) = Within(setup, x) BY <1>6 DEF SameUpsampler, Within
<1>9. setup.kind = "context" => k = o2 BY DEF AtTop, o2
<1>10. AtTop(setup, y) BY <1>2, <1>6, <1>8, <1>9 DEF AtTop, SameUpsampler, L
<1>11. k \in 0 .. T
  <2>1. CASE setup.kind = "context" BY <1>3, <1>9, <2>1
  <2>2. CASE setup.kind # "context" BY <2>2 DEF Held, Counters
  <2> QED BY <2>1, <2>2
<1>12. Counters(setup, y) /\ Buffers(setup, y)
  BY <1>3, <1>6, <1>11 DEF Held, Counters, Buffers, SameUpsampler
<1>13. y.rows_to_go >= H - p2
  <2>1. x.rows_to_go >= H - p
    <3>1. p < H BY <1>1, <1>2
    <3> QED BY <3>1 DEF Held, Somewhere, Upsampler
  <2>2. x.rows_to_go \in Int BY <1>1 DEF Held, Counters
  <2> HIDE DEF p
  <2> QED BY <1>1, <1>2, <1>6, <2>1, <2>2 DEF SameUpsampler
<1>14. Held(setup, e, y) BY <1>2, <1>6, <1>10, <1>12, <1>13, TopHolds
<1> QED BY <1>10, <1>14

(* SkipIMCURows from the top of an iMCU row: m lines' worth of whole iMCU  *)
(* rows, the rest read or stepped over.                                    *)
LEMMA SkipRowsHold ==
    ASSUME setup \in Setups, pass = "read", NEW x, Held(setup, TRUE, x),
           AtTop(setup, x), setup.kind = "merged" => Whole(setup.V, setup.output_height),
           NEW n \in Nat, NEW m \in 0 .. n,
           setup.kind # "context" => m = n,
           x.output_scanline + n < setup.output_height
    PROVE  LET y == SkipIMCURows(x, n, WholeIMCURows(m))
           IN  Held(setup, TRUE, y) /\ y.output_scanline = x.output_scanline + n
<1> DEFINE V == setup.V
           H == setup.output_height
           L == IMCULines(setup)
           o == x.output_iMCU_row
           p == x.output_scanline
           q == m \div L
           e == setup.kind = "merged"
           k == IF setup.kind = "context" THEN x.iMCU_row_ctr + q ELSE x.iMCU_row_ctr
           z == [x EXCEPT !.output_scanline = p + q * L, !.output_iMCU_row = o + q,
                          !.iMCU_row_ctr = k]
           b == n - q * L
           u == IF setup.kind = "context" THEN read_and_discard_scanlines(z, b)
                                          ELSE increment_simple_rowgroup_ctr(z, b)
           y == SkipIMCURows(x, n, WholeIMCURows(m))
<1>1. /\ V \in 1 .. 4 /\ H \in Nat /\ L \in Nat \ {0} /\ p \in Nat /\ o \in Nat
  BY SetupsAre, SizesAre DEF Held, Counters
<1>2. q \in Nat /\ m % L \in 0 .. L - 1 /\ m = q * L + (m % L)
  <2>1. m \in Nat OBVIOUS
  <2> HIDE DEF L
  <2> QED BY <1>1, <2>1, QuotientIs
<1>3. lines_per_iMCU_row = L BY DEF lines_per_iMCU_row, M, max_v_samp_factor, IMCULines
<1>4. WholeIMCURows(m) = q * L BY <1>3 DEF WholeIMCURows
<1> HIDE DEF L, q
<1>5. q * L \in Nat BY <1>1, <1>2
<1>6. (q * L) \div L = q
  <2>1. q * L = q * L + 0 BY <1>5
  <2>2. (q * L) \div L \in Nat /\ (q * L) % L \in 0 .. L - 1
        /\ q * L = ((q * L) \div L) * L + ((q * L) % L)
    <3> DEFINE c == q * L
    <3> HIDE DEF c
    <3> QED BY <1>1, <1>5, QuotientIs DEF c
  <2>3. (q * L + 0) % L = 0
    <3>1. 0 \in 0 .. L - 1 /\ q \in Int BY <1>1, <1>2
    <3> QED BY <1>1, <3>1, OfWholes
  <2> DEFINE c == (q * L) \div L
  <2> HIDE DEF c
  <2>4. c \in Nat /\ q * L = c * L
    <3>1. c * L \in Nat BY <1>1, <2>2 DEF c
    <3> QED BY <2>1, <2>2, <2>3, <3>1 DEF c
  <2>5. ASSUME c < q PROVE FALSE
    <3>1. (c + 1) * L <= q * L BY <1>1, <1>2, <2>4, <2>5, ProductsOrdered
    <3>2. (c + 1) * L = c * L + L BY <1>1, <2>4, OneMore
    <3> QED BY <1>1, <1>5, <2>4, <3>1, <3>2
  <2>6. ASSUME q < c PROVE FALSE
    <3>1. (q + 1) * L <= c * L BY <1>1, <1>2, <2>4, <2>6, ProductsOrdered
    <3>2. (q + 1) * L = q * L + L BY <1>1, <1>2, OneMore
    <3> QED BY <1>1, <1>5, <2>4, <3>1, <3>2
  <2>7. q \in Nat /\ c \in Nat BY <1>2, <2>4
  <2>8. c = q BY <2>5, <2>6, <2>7
  <2> QED BY <2>8 DEF c
<1>7. y = CountRowsToGo(u)
  <2> DEFINE v == [x EXCEPT !.output_scanline = @ + q * L, !.output_iMCU_row = @ + q]
             V2(c, r) == [x EXCEPT !.output_scanline = @ + c, !.output_iMCU_row = @ + r]
             R(c, r) == CountRowsToGo(
                 IF need_context_rows
                   THEN read_and_discard_scanlines(
                          [V2(c, r) EXCEPT !.iMCU_row_ctr = @ + r], n - c)
                   ELSE increment_simple_rowgroup_ctr(V2(c, r), n - c))
  <2>0. y = R(q * L, q)
    <3>1. y = SkipIMCURows(x, n, q * L) BY <1>4
    <3>2. \A c : SkipIMCURows(x, n, c) = R(c, c \div lines_per_iMCU_row)
      BY Zenon DEF SkipIMCURows
    <3>3. (q * L) \div lines_per_iMCU_row = q BY <1>3, <1>6
    <3> HIDE DEF R, y
    <3> QED BY <3>1, <3>2, <3>3
  <2>1. y = CountRowsToGo(
              IF need_context_rows
                THEN read_and_discard_scanlines([v EXCEPT !.iMCU_row_ctr = @ + q], b)
                ELSE increment_simple_rowgroup_ctr(v, b))
    BY <2>0
  <2>2. x = [f \in Fields |-> x[f]] BY DEF Held, Shape
  <2>3. CASE setup.kind = "context"
    <3>1. [v EXCEPT !.iMCU_row_ctr = @ + q] = z BY <2>2, <2>3 DEF Fields
    <3> HIDE DEF v, z, b
    <3> QED BY <2>1, <2>3, <3>1 DEF need_context_rows
  <2>4. CASE setup.kind # "context"
    <3>1. v = z BY <2>2, <2>4 DEF Fields
    <3> HIDE DEF v, z, b
    <3> QED BY <2>1, <2>4, <3>1 DEF need_context_rows
  <2> QED BY <2>3, <2>4
<1> HIDE DEF y, u, k
<1>8. q * L <= m /\ p + q * L < H /\ b \in Nat /\ (p + q * L) + b = p + n
  BY <1>1, <1>2, <1>5
<1>9. /\ Held(setup, e, z) /\ AtTop(setup, z) /\ z.output_scanline = p + q * L
  <2> DEFINE p2 == p + q * L
             o2 == o + q
             c == [x EXCEPT !.output_scanline = p2, !.output_iMCU_row = o2,
                            !.iMCU_row_ctr = k]
  <2>1. z = c OBVIOUS
  <2> HIDE DEF z, p2, o2
  <2>2. x = [f \in Fields |-> x[f]] /\ IsSeq(x.rows) BY DEF Held, Shape
  <2>3. c = [f \in Fields |-> c[f]] BY <2>2 DEF Fields
  <2>4. Jumped(x, c, p2, o2, k) /\ c.rows = x.rows /\ c.output_scanline = p2
    BY <2>2 DEF Fields, Jumped, SameUpsampler
  <2> HIDE DEF c
  <2>5. Shape(c) BY <2>2, <2>3, <2>4 DEF Shape
  <2>6. k = IF setup.kind = "context" THEN x.iMCU_row_ctr + q ELSE x.iMCU_row_ctr
    BY DEF k
  <2>7. e \in BOOLEAN /\ (e => Whole(setup.V, setup.output_height)) OBVIOUS
  <2> HIDE DEF e
  <2>8. Held(setup, e, c) /\ AtTop(setup, c)
    BY <1>2, <1>8, <2>4, <2>5, <2>6, <2>7, JumpHolds DEF L, p2, o2
  <2> QED BY <2>1, <2>4, <2>8 DEF p2
<1> HIDE DEF z, b
<1>10. Held(setup, e, u) /\ u.output_scanline = z.output_scanline + b
  <2>1. CASE setup.kind = "context"
    <3>1. u = read_and_discard_scanlines(z, b) BY <2>1 DEF u
    <3>2. z.output_scanline + b <= setup.output_height BY <1>1, <1>8, <1>9
    <3>3. e \in BOOLEAN OBVIOUS
    <3> HIDE DEF e
    <3> QED BY <1>8, <1>9, <3>1, <3>2, <3>3, DiscardHolds
  <2>2. CASE setup.kind # "context"
    <3>1. u = increment_simple_rowgroup_ctr(z, b) BY <2>2 DEF u
    <3>2. z.output_scanline + b < setup.output_height BY <1>1, <1>8, <1>9
    <3>3. z.rowgroup_ctr * setup.V + b < IMCULines(setup)
      <4>1. z.rowgroup_ctr = 0 BY <1>9, <2>2 DEF AtTop
      <4>2. b < L
        <5>1. b = m % L BY <1>1, <1>2, <1>5, <2>2 DEF b
        <5> QED BY <1>1, <1>2, <5>1
      <4>3. 0 * setup.V + b = b BY <1>1, <1>8
      <4> QED BY <4>1, <4>2, <4>3 DEF L
    <3>4. Within(setup, z) = 0 BY <1>9 DEF AtTop
    <3>5. e => Whole(setup.V, setup.output_height - z.output_scanline)
      <4> SUFFICES ASSUME e PROVE Whole(setup.V, setup.output_height - z.output_scanline)
        OBVIOUS
      <4> DEFINE i == z.output_iMCU_row
      <4>1. i \in Nat /\ z.output_scanline = i * IMCULines(setup) /\ setup.M \in Nat
        BY <1>9, SetupsAre DEF AtTop, Held, Counters
      <4>2. i * IMCULines(setup) = (i * setup.M) * V BY <4>1, SizesAre
      <4>3. i * setup.M \in Int BY <4>1
      <4> HIDE DEF i
      <4>4. Whole(V, H - (i * setup.M) * V) BY <1>1, <4>3, WholeLess
      <4> QED BY <4>1, <4>2, <4>4
    <3>6. e \in BOOLEAN OBVIOUS
    <3> HIDE DEF e
    <3> QED BY <1>8, <1>9, <2>2, <3>1, <3>2, <3>3, <3>4, <3>5, <3>6, IncrementHolds
  <2> QED BY <2>1, <2>2
<1>11. Held(setup, TRUE, y) /\ y.output_scanline = u.output_scanline
  <2>1. e \in BOOLEAN /\ (setup.kind = "merged" => e) OBVIOUS
  <2> HIDE DEF e
  <2> QED BY <1>7, <1>10, <2>1, CountHolds
<1> QED BY <1>8, <1>9, <1>10, <1>11 DEF y

(* The upsampler starts anew at the top of an iMCU row.                    *)
LEMMA ResetHolds ==
    ASSUME setup \in Setups, NEW x, Shape(x), Counters(setup, x), Buffers(setup, x),
           ~x.buffer_full,
           x.output_scanline = x.output_iMCU_row * IMCULines(setup),
           x.output_scanline < setup.output_height,
           IF setup.kind = "context" THEN /\ x.context_state = "CTX_PREPARE_FOR_IMCU"
                                          /\ x.iMCU_row_ctr = x.output_iMCU_row
                                     ELSE x.rowgroup_ctr = 0,
           setup.kind = "merged" =>
               /\ Within(setup, x) = 0
               /\ x.rows_to_go >= setup.output_height - x.output_scanline
               /\ Whole(setup.V, setup.output_height)
    PROVE  LET z == ResetUpsampler(x)
           IN  /\ Held(setup, TRUE, z) /\ AtTop(setup, z)
               /\ z.output_scanline = x.output_scanline
<1> DEFINE H == setup.output_height
           p == x.output_scanline
           z == ResetUpsampler(x)
<1>1. CASE setup.kind = "merged"
  <2>1. z = x BY <1>1 DEF ResetUpsampler, using_merged_upsample
  <2>2. AtTop(setup, x) BY <1>1 DEF AtTop
  <2>3. Held(setup, TRUE, x) BY <1>1, <2>2, TopHolds
  <2> QED BY <2>1, <2>2, <2>3
<1>2. CASE setup.kind # "merged"
  <2> DEFINE k == H - p
             v == setup.V
             y == [x EXCEPT !.next_row_out = v, !.rows_to_go = k]
  <2>1. z = y
    BY <1>2 DEF ResetUpsampler, using_merged_upsample, output_height, max_v_samp_factor
  <2>2. x = [f \in Fields |-> x[f]] /\ IsSeq(x.rows) BY DEF Shape
  <2>3. k \in 0 .. H /\ v \in 0 .. v
    <3>1. x.output_iMCU_row \in Nat /\ IMCULines(setup) \in Nat /\ v \in 1 .. 4 /\ H \in Nat
      BY SetupsAre, SizesAre DEF Counters
    <3>2. p \in Nat BY <3>1
    <3> HIDE DEF p
    <3> QED BY <3>1, <3>2 DEF p
  <2> HIDE DEF z, k, v
  <2>4. y = [f \in Fields |-> y[f]] BY <2>2 DEF Fields
  <2>5. /\ y.buffer = x.buffer /\ y.xbuffer = x.xbuffer
        /\ y.buffer_full = x.buffer_full /\ y.rowgroups_avail = x.rowgroups_avail
        /\ y.whichptr = x.whichptr /\ y.context_state = x.context_state
        /\ y.iMCU_row_ctr = x.iMCU_row_ctr /\ y.output_iMCU_row = x.output_iMCU_row
        /\ y.starting_row = x.starting_row /\ y.next_row = x.next_row
        /\ y.rowgroup_ctr = x.rowgroup_ctr /\ y.spare_full = x.spare_full
        /\ y.output_scanline = p /\ y.rows = x.rows
        /\ y.next_row_out = v /\ y.rows_to_go = k
    BY <2>2 DEF Fields
  <2> HIDE DEF y
  <2>6. Shape(y) BY <2>2, <2>4, <2>5 DEF Shape
  <2>7. Counters(setup, y) /\ Buffers(setup, y)
    BY <2>3, <2>5 DEF Counters, Buffers, v
  <2>8. Within(setup, y) = 0 BY <1>2, <2>5 DEF Within, v
  <2>9. AtTop(setup, y) BY <2>5, <2>8 DEF AtTop
  <2>10. y.rows_to_go = H - y.output_scanline BY <2>5 DEF k
  <2>11. y.rows_to_go >= H - y.output_scanline
    <3>1. y.rows_to_go \in Int BY <2>3, <2>5
    <3> QED BY <2>10, <3>1
  <2>12. Held(setup, TRUE, y) BY <2>5, <2>6, <2>7, <2>9, <2>10, <2>11, TopHolds
  <2> QED BY <2>1, <2>5, <2>9, <2>12 DEF z
<1> QED BY <1>1, <1>2

(* lines_left_in_iMCU_row at line g of an iMCU row.                        *)
LEMMA LeftOver ==
    ASSUME setup \in Setups, NEW x, NEW k \in Int, NEW g \in 0 .. IMCULines(setup) - 1,
           x.output_scanline = k * IMCULines(setup) + g
    PROVE  lines_left_in_iMCU_row(x) = IF g = 0 THEN 0 ELSE IMCULines(setup) - g
<1>1. lines_per_iMCU_row = IMCULines(setup)
  BY DEF lines_per_iMCU_row, M, max_v_samp_factor, IMCULines
<1>2. IMCULines(setup) \in Nat \ {0} BY SizesAre
<1> QED BY <1>1, <1>2, LeftIs DEF lines_left_in_iMCU_row

(* SkipSimple, if it begins as SkipsCleanly says.                          *)
LEMMA SkipSimpleHolds ==
    ASSUME setup \in Setups, setup.kind # "context", pass = "read",
           NEW x, Held(setup, TRUE, x), NEW num \in Nat,
           x.output_scanline + num < setup.output_height,
           x.output_scanline % setup.V = 0,
           ~(x.rowgroup_ctr > 0 /\ ~x.buffer_full),
           setup.output_height % setup.V # 0 =>
               /\ setup.kind # "merged"
               /\ num < setup.V \/ num >= lines_left_in_iMCU_row(x)
    PROVE  LET y == SkipSimple(x, num)
           IN  Held(setup, TRUE, y) /\ y.output_scanline = x.output_scanline + num
<1> DEFINE V == setup.V
           H == setup.output_height
           L == IMCULines(setup)
           p == x.output_scanline
           o == x.output_iMCU_row
           r == Row(x)
           g == x.rowgroup_ctr
           G == g * V
           left == lines_left_in_iMCU_row(x)
           y == SkipSimple(x, num)
<1>1. /\ V \in 1 .. 4 /\ H \in Nat /\ L \in Nat \ {0} /\ setup.M \in Nat \ {0}
      /\ p \in Nat /\ o \in Nat /\ g \in Nat /\ r \in Int /\ p < H
  <2>1. /\ V \in 1 .. 4 /\ H \in Nat /\ L \in Nat \ {0} /\ setup.M \in Nat \ {0}
    BY SetupsAre, SizesAre
  <2>2. p \in Nat /\ o \in Nat /\ g \in Nat BY <2>1, SizesAre DEF Held, Counters
  <2>3. r \in Int BY <2>2 DEF Row
  <2> HIDE DEF p, H
  <2>4. p + num < H BY DEF p, H
  <2>5. p < H BY <2>1, <2>2, <2>4
  <2> QED BY <2>1, <2>2, <2>3, <2>5
<1>2. Upsampler(setup, TRUE, p, x) /\ PlaceSimple(setup, TRUE, p, x)
  BY <1>1 DEF Held, Somewhere, Place
<1>3. Within(setup, x) = 0
  <2>1. Within(setup, x) \in 0 .. V - 1 BY <1>2 DEF Upsampler
  <2>2. p = r * L + (g * V + Within(setup, x)) BY <1>2 DEF PlaceSimple, Given
  <2>3. (r * L + (g * V + Within(setup, x))) % V = Within(setup, x)
    <3> HIDE DEF r
    <3>1. g \in Int BY <1>1
    <3> HIDE DEF g
    <3> QED BY <1>1, <2>1, <3>1, InGroup
  <2> QED BY <2>2, <2>3
<1>4. /\ G \in Nat /\ p = r * L + G /\ Given(setup, x) = G
  <2>1. G \in Nat BY <1>1
  <2>2. Given(setup, x) = G BY <1>3, <2>1 DEF Given
  <2> QED BY <1>2, <2>1, <2>2 DEF PlaceSimple
<1>5. G \in 0 .. L - 1
  <2>1. g + 1 <= setup.M BY <1>1, <1>2 DEF PlaceSimple
  <2>2. (g + 1) * V <= setup.M * V BY <1>1, <2>1, ProductsOrdered
  <2>3. (g + 1) * V = G + V BY <1>1, OneMore
  <2>4. L = setup.M * V BY DEF IMCULines
  <2> HIDE DEF G, L
  <2> QED BY <1>1, <1>4, <2>2, <2>3, <2>4
<1>6. left = IF G = 0 THEN 0 ELSE L - G
  <2> HIDE DEF G, r
  <2> QED BY <1>1, <1>4, <1>5, LeftOver
<1>7. r * L \in Int BY <1>1
<1>8. CASE num < left
  <2>1. y = increment_simple_rowgroup_ctr(x, num) BY <1>8 DEF SkipSimple
  <2>2. G + num < L
    <3> HIDE DEF G, left, L
    <3> QED BY <1>1, <1>5, <1>6, <1>8
  <2>3. num < V \/ Whole(V, H - p)
    <3>1. CASE H % V # 0
      <4>1. num < V \/ num >= left BY <3>1
      <4> HIDE DEF left
      <4>2. left \in Int BY <1>1, <1>5, <1>6
      <4> QED BY <1>8, <4>1, <4>2
    <3>2. CASE H % V = 0
      <4>1. p = (r * setup.M + g) * V
        <5>1. (r * setup.M) * V = r * L BY <1>1, SizesAre
        <5>2. r * setup.M \in Int BY <1>1
        <5>3. (r * setup.M + g) * V = (r * setup.M) * V + g * V BY <1>1, <5>2, Sums
        <5> HIDE DEF r, g
        <5> QED BY <1>4, <5>1, <5>3
      <4>2. r * setup.M + g \in Int
        <5>1. r * setup.M \in Int BY <1>1
        <5> QED BY <1>1, <5>1
      <4>3. Whole(V, H) BY <3>2 DEF Whole
      <4> HIDE DEF r, g
      <4>4. Whole(V, H - (r * setup.M + g) * V) BY <1>1, <4>2, <4>3, WholeLess
      <4> QED BY <4>1, <4>4
    <3> QED BY <3>1, <3>2
  <2> HIDE DEF y
  <2>4. TRUE \in BOOLEAN OBVIOUS
  <2>5. Held(setup, TRUE, y) /\ y.output_scanline = x.output_scanline + num
    BY <1>3, <2>1, <2>2, <2>3, <2>4, IncrementHolds
  <2> QED BY <2>5 DEF y
<1>9. CASE ~(num < left)
  <2>1. p + left = o * L /\ left \in Nat
    <3>1. CASE x.buffer_full
      <4>1. G > 0 /\ r = o - 1 BY <1>2, <1>4, <3>1 DEF PlaceSimple, Row
      <4>2. o * L = (o - 1) * L + L
        <5>1. (o - 1) + 1 = o /\ o - 1 \in Int BY <1>1
        <5>2. ((o - 1) + 1) * L = (o - 1) * L + L BY <1>1, <5>1, OneMore
        <5> QED BY <5>1, <5>2
      <4> HIDE DEF left, G, r, L, p, o
      <4>3. left = L - G /\ left \in Nat BY <1>1, <1>5, <1>6, <4>1
      <4>4. p = (o - 1) * L + G /\ (o - 1) * L \in Int BY <1>4, <1>7, <4>1
      <4> QED BY <1>1, <1>4, <4>2, <4>3, <4>4
    <3>2. CASE ~x.buffer_full
      <4>1. g = 0 BY <1>1, <3>2
      <4>2. G = 0 /\ r = o BY <1>1, <3>2, <4>1 DEF Row
      <4> HIDE DEF left, G, r, L, p, o
      <4> QED BY <1>1, <1>4, <1>6, <1>7, <4>2
    <3> QED BY <3>1, <3>2
  <2> DEFINE k == p + left
             z == [x EXCEPT !.output_scanline = k, !.buffer_full = FALSE,
                            !.rowgroup_ctr = 0]
             u == ResetUpsampler(z)
             n == num - left
  <2>2. y = SkipIMCURows(u, n, WholeIMCURows(n))
    <3>1. x = [f \in Fields |-> x[f]] BY DEF Held, Shape
    <3> DEFINE z0 == [x EXCEPT !.output_scanline = @ + left, !.buffer_full = FALSE,
                               !.rowgroup_ctr = 0]
    <3>2. y = SkipIMCURows(ResetUpsampler(z0), n, WholeIMCURows(n))
      BY <1>9, Zenon DEF SkipSimple
    <3> HIDE DEF left
    <3>3. z0 = z BY <3>1 DEF Fields
    <3> HIDE DEF z0, z, n
    <3> QED BY <3>2, <3>3
  <2> HIDE DEF k, left, y
  <2>3. x = [f \in Fields |-> x[f]] /\ IsSeq(x.rows) BY DEF Held, Shape
  <2>4. z = [f \in Fields |-> z[f]] BY <2>3 DEF Fields
  <2>5. /\ z.buffer = x.buffer /\ z.xbuffer = x.xbuffer
        /\ z.buffer_full = FALSE /\ z.rowgroups_avail = x.rowgroups_avail
        /\ z.whichptr = x.whichptr
        /\ z.iMCU_row_ctr = x.iMCU_row_ctr /\ z.output_iMCU_row = x.output_iMCU_row
        /\ z.starting_row = x.starting_row /\ z.next_row = x.next_row
        /\ z.next_row_out = x.next_row_out /\ z.spare_full = x.spare_full
        /\ z.rows_to_go = x.rows_to_go /\ z.rowgroup_ctr = 0
        /\ z.output_scanline = k /\ z.rows = x.rows
    BY <2>3 DEF Fields
  <2> HIDE DEF z, u, p, n
  <2>6. Shape(z) BY <2>3, <2>4, <2>5 DEF Shape
  <2>7. Counters(setup, z) /\ Buffers(setup, z)
    <3>1. 0 \in 0 .. setup.M + 2 /\ FALSE \in BOOLEAN BY <1>1
    <3> QED BY <2>5, <3>1 DEF Held, Counters, Buffers
  <2>8. k = o * L /\ k \in Nat /\ k <= p + num /\ k < H /\ p <= k /\ n \in Nat /\ k + n = p + num
    <3>1. p + num < H BY DEF p
    <3>2. left <= num BY <1>9, <2>1
    <3> HIDE DEF H, L, o
    <3> QED BY <1>1, <2>1, <3>1, <3>2 DEF k, n
  <2>9. z.rows_to_go >= H - k
    <3>1. x.rows_to_go >= H - p /\ x.rows_to_go \in Int
      BY <1>1, <1>2 DEF Upsampler, Held, Counters
    <3> QED BY <1>1, <2>5, <2>8, <3>1
  <2>10. Within(setup, z) = 0 \/ setup.kind # "merged"
    BY <1>3, <2>5 DEF Within
  <2>11. setup.kind = "merged" => Whole(V, H) BY DEF Whole
  <2>12. /\ Held(setup, TRUE, u) /\ AtTop(setup, u) /\ u.output_scanline = k
    BY <2>5, <2>6, <2>7, <2>8, <2>9, <2>10, <2>11, ResetHolds DEF u
  <2>13. n \in 0 .. n /\ u.output_scanline + n < H
    <3>1. p + num < H BY DEF p
    <3> QED BY <2>8, <2>12, <3>1
  <2>14. Held(setup, TRUE, y) /\ y.output_scanline = u.output_scanline + n
    BY <2>2, <2>8, <2>11, <2>12, <2>13, SkipRowsHold
  <2> QED BY <2>8, <2>12, <2>14 DEF p, y
<1> QED BY <1>8, <1>9

(* With context rows the rest of the iMCU row is gone, and if it has been  *)
(* read already, the next one too.                                         *)
LEMMA GoneIs ==
    ASSUME setup \in Setups, setup.kind = "context",
           NEW x, Held(setup, TRUE, x), NEW num \in Nat,
           x.output_scanline + num < setup.output_height,
           setup.V = 2 \/ x.output_scanline % setup.V = 0,
           NEW left, left = lines_left_in_iMCU_row(x),
           ~(num < left + 1),
           ~(NextRowDecoded(x) /\ num - left < IMCULines(setup) + 1),
           NEW gone,
           gone = IF NextRowDecoded(x) THEN left + IMCULines(setup) ELSE left
    PROVE  /\ x.output_scanline + gone = x.output_iMCU_row * IMCULines(setup)
           /\ gone \in Nat /\ gone < num
           /\ x.iMCU_row_ctr = x.output_iMCU_row
<1> DEFINE V == setup.V
           H == setup.output_height
           L == IMCULines(setup)
           T == IMCURows(setup)
           p == x.output_scanline
           o == x.output_iMCU_row
           r == Row(x)
           w == Within(setup, x)
<1>1. /\ V \in {2, 4} /\ H \in Nat /\ L \in Nat \ {0} /\ setup.M \in Nat /\ setup.M >= 2
      /\ p \in Nat /\ o \in Nat /\ r \in Int /\ p < H /\ p + num < H
      /\ L = setup.M * V /\ T \in Nat /\ o <= T
  <2>1. /\ V \in {2, 4} /\ H \in Nat /\ L \in Nat \ {0} /\ setup.M \in Nat /\ setup.M >= 2
        /\ L = setup.M * V /\ T \in Nat
    BY SetupsAre, SizesAre DEF IMCULines
  <2>2. p \in Nat /\ o \in Nat /\ o <= T BY <2>1 DEF Held, Counters
  <2>3. r \in Int BY <2>2 DEF Row
  <2>4. p + num < H OBVIOUS
  <2> HIDE DEF p, H
  <2>5. p < H BY <2>1, <2>2, <2>4
  <2> QED BY <2>1, <2>2, <2>3, <2>4, <2>5
<1>2. Upsampler(setup, TRUE, p, x) /\ PlaceContext(setup, TRUE, p, x)
  BY <1>1 DEF Held, Somewhere, Place
<1>3. x.iMCU_row_ctr = o /\ w \in 0 .. V - 1 /\ (x.buffer_full => o > 0)
  BY <1>2 DEF PlaceContext, Upsampler
<1>4. r = IF x.buffer_full THEN o - 1 ELSE o BY DEF Row
<1>5. r * L \in Int /\ o * L \in Int /\ (o - 1) * L \in Int BY <1>1
<1>6. o * L = (o - 1) * L + L
  <2>1. (o - 1) + 1 = o /\ o - 1 \in Int BY <1>1
  <2>2. ((o - 1) + 1) * L = (o - 1) * L + L BY <1>1, <2>1, OneMore
  <2> QED BY <2>1, <2>2
<1>7. 2 * V <= L BY <1>1, ProductsOrdered
<1>8. /\ left \in Int => num >= left + 1
      /\ NextRowDecoded(x) <=> left <= 1 /\ x.buffer_full
      /\ NextRowDecoded(x) /\ left \in Int => num - left >= L + 1
      /\ gone = IF NextRowDecoded(x) THEN left + L ELSE left
  BY <1>1 DEF NextRowDecoded
<1>9. CASE Preparing(setup, p, x)
  <2>1. p = r * L BY <1>9 DEF Preparing
  <2> HIDE DEF r
  <2>2. p = r * L + 0 BY <1>5, <2>1
  <2>3. 0 \in 0 .. L - 1 BY <1>1
  <2>4. left = 0 BY <1>1, <2>2, <2>3, LeftOver
  <2> HIDE DEF p, L, o
  <2>5. CASE x.buffer_full
    <3>1. NextRowDecoded(x) /\ gone = 0 + L /\ num - 0 >= L + 1 BY <1>8, <2>4, <2>5
    <3>2. p = (o - 1) * L BY <1>4, <2>1, <2>5
    <3>3. p + gone = o * L BY <1>1, <1>5, <1>6, <3>1, <3>2
    <3>4. gone \in Nat /\ gone < num BY <1>1, <3>1
    <3> QED BY <1>3, <3>3, <3>4 DEF p, L, o
  <2>6. CASE ~x.buffer_full
    <3>1. gone = 0 /\ num >= 0 + 1 BY <1>8, <2>4, <2>6
    <3>2. p + gone = o * L BY <1>1, <1>4, <2>1, <2>6, <3>1
    <3>3. gone \in Nat /\ gone < num BY <3>1
    <3> QED BY <1>3, <3>2, <3>3 DEF p, L, o
  <2> QED BY <2>5, <2>6
<1>10. CASE Processing(setup, TRUE, p, x)
  <2> DEFINE G == Given(setup, x)
             g == x.rowgroup_ctr
             a == x.rowgroups_avail
  <2>1. /\ x.buffer_full /\ g < a /\ p = r * L + G /\ G > 0 /\ AvailOK(setup, o, a)
    BY <1>10 DEF Processing
  <2>2. g \in Nat /\ a \in Nat BY <1>1 DEF Held, Counters
  <2>3. G = g * V + w /\ g * V \in Nat /\ a * V \in Nat BY <1>1, <2>2 DEF Given
  <2>4. G < a * V
    <3>1. (g + 1) * V <= a * V BY <1>1, <2>1, <2>2, ProductsOrdered
    <3> HIDE DEF G, g, a, w
    <3>0. g \in Int /\ V \in Int BY <1>1, <2>2
    <3>2. (g + 1) * V = g * V + V BY <3>0, OneMore
    <3> QED BY <1>1, <1>3, <2>3, <3>1, <3>2
  <2>5. a * V <= L
    <3>1. a <= setup.M
      <4>1. CASE o < T BY <1>1, <2>1, <4>1 DEF AvailOK
      <4>2. CASE ~(o < T) BY <2>1, <4>2 DEF AvailOK
      <4> QED BY <4>1, <4>2
    <3> QED BY <1>1, <2>2, <3>1, ProductsOrdered
  <2>6. G \in 0 .. L - 1 /\ G \in Nat
    <3> HIDE DEF g, w, a, G, L
    <3>1. G \in Nat BY <1>1, <1>3, <2>3
    <3> QED BY <1>1, <2>3, <2>4, <2>5, <3>1
  <2>7. left = L - G
    <3> HIDE DEF G, r
    <3>1. left = IF G = 0 THEN 0 ELSE L - G BY <1>1, <2>1, <2>6, LeftOver
    <3> QED BY <2>1, <2>6, <3>1
  <2> HIDE DEF G, g, p, L, o, w, a, r
  <2>8. left \in Int /\ num >= left + 1 BY <1>1, <1>8, <2>6, <2>7
  <2>9. p = (o - 1) * L + G BY <1>4, <2>1
  <2>10. p + left = o * L BY <1>1, <1>5, <1>6, <2>6, <2>7, <2>9
  <2>11. o * L < H BY <1>1, <1>5, <2>8, <2>10
  <2>12. o < T BY <1>1, <2>11, SizesAre DEF L, T
  <2>13. a * V = L - V
    <3>1. a = setup.M - 1 BY <2>1, <2>12 DEF AvailOK, T
    <3>2. (setup.M - 1) + 1 = setup.M /\ setup.M - 1 \in Int BY <1>1
    <3>3. ((setup.M - 1) + 1) * V = (setup.M - 1) * V + V BY <1>1, <3>2, OneMore
    <3>4. (setup.M - 1) * V \in Int BY <1>1
    <3> QED BY <1>1, <3>1, <3>2, <3>3, <3>4
  <2>14. left > 1 BY <1>1, <2>4, <2>6, <2>7, <2>13
  <2>15. gone = left BY <1>8, <2>8, <2>14
  <2>16. p + gone = o * L /\ gone \in Nat /\ gone < num
    BY <2>8, <2>10, <2>14, <2>15
  <2> QED BY <1>3, <2>16 DEF p, o, L
<1>11. CASE Postponed(setup, TRUE, p, x)
  <2>1. /\ p = r * L - V + w
        /\ IF x.buffer_full THEN w > 0 ELSE w = 0
    BY <1>11 DEF Postponed
  <2>2. L - V + w \in 0 .. L - 1 /\ L - V + w > 0
    <3> HIDE DEF w, L
    <3> QED BY <1>1, <1>3, <1>7
  <2>3. (r - 1) * L = r * L - L
    <3>1. (r - 1) + 1 = r /\ r - 1 \in Int BY <1>1
    <3>2. ((r - 1) + 1) * L = (r - 1) * L + L BY <1>1, <3>1, OneMore
    <3>3. (r - 1) * L \in Int BY <1>1
    <3> HIDE DEF r
    <3> QED BY <1>1, <1>5, <3>1, <3>2, <3>3
  <2>4. p = (r - 1) * L + (L - V + w)
    <3> HIDE DEF r, w, p, L
    <3> QED BY <1>1, <1>3, <1>5, <2>1, <2>3
  <2>5. left = V - w
    <3>1. r - 1 \in Int BY <1>1
    <3> DEFINE t == L - V + w
               i == r - 1
    <3> HIDE DEF t, i
    <3>2. left = IF t = 0 THEN 0 ELSE L - t
      <4>1. i \in Int BY <3>1 DEF i
      <4>2. t \in 0 .. L - 1 BY <2>2 DEF t
      <4>3. x.output_scanline = i * L + t BY <2>4 DEF i, t
      <4> QED BY <4>1, <4>2, <4>3, LeftOver
    <3>3. t > 0 BY <2>2 DEF t
    <3>4. left = L - t BY <2>2, <3>2, <3>3 DEF t
    <3> HIDE DEF L, w
    <3> QED BY <1>1, <1>3, <3>4 DEF t
  <2> HIDE DEF p, L, o, r, w
  <2>6. left \in Int /\ num >= left + 1 BY <1>1, <1>3, <1>8, <2>5
  <2>7. CASE ~x.buffer_full
    <3>1. w = 0 /\ r = o BY <1>4, <2>1, <2>7
    <3>2. gone = left BY <1>8, <2>7
    <3>3. p + gone = o * L BY <1>1, <1>5, <2>1, <2>5, <3>1, <3>2
    <3>4. gone \in Nat /\ gone < num BY <1>1, <2>5, <2>6, <3>1, <3>2
    <3> QED BY <1>3, <3>3, <3>4 DEF p, o, L
  <2>8. CASE x.buffer_full
    <3>1. w > 0 /\ r = o - 1 BY <1>4, <2>1, <2>8
    <3>2. V = 2
      <4>1. SUFFICES ASSUME V # 2 PROVE FALSE OBVIOUS
      <4>2. p % V = 0 BY <4>1 DEF p
      <4>3. p % V = w
        <5> DEFINE g == setup.M - 1
        <5>1. g \in Int BY <1>1
        <5>2. g * V = L - V
          <6>1. g + 1 = setup.M BY <1>1
          <6>2. (g + 1) * V = g * V + V BY <1>1, <5>1, OneMore
          <6>3. g * V \in Int BY <1>1, <5>1
          <6> HIDE DEF g
          <6> QED BY <1>1, <6>1, <6>2, <6>3
        <5> HIDE DEF g
        <5>3. (r - 1) * L + (g * V + w) = p BY <2>4, <5>2
        <5>4. r - 1 \in Int /\ w \in 0 .. setup.V - 1 BY <1>1, <1>3
        <5>5. ((r - 1) * L + (g * V + w)) % V = w BY <5>1, <5>4, InGroup DEF L
        <5> QED BY <5>3, <5>5
      <4> QED BY <3>1, <4>2, <4>3
    <3>3. w = 1 /\ left = 1 BY <1>3, <2>5, <3>1, <3>2
    <3>4. NextRowDecoded(x) BY <1>8, <2>8, <3>3
    <3>5. gone = 1 + L /\ num - 1 >= L + 1 BY <1>8, <2>6, <3>3, <3>4
    <3>6. p = (o - 1) * L - 2 + 1 BY <2>1, <3>1, <3>2, <3>3
    <3>7. p + gone = o * L BY <1>1, <1>5, <1>6, <3>5, <3>6
    <3>8. gone \in Nat /\ gone < num BY <1>1, <3>5
    <3> QED BY <1>3, <3>7, <3>8 DEF p, o, L
  <2> QED BY <2>7, <2>8
<1> QED BY <1>2, <1>9, <1>10, <1>11 DEF PlaceContext

(* SkipWithContext, if it begins as SkipsCleanly says.                     *)
LEMMA SkipContextHolds ==
    ASSUME setup \in Setups, setup.kind = "context", pass = "read",
           NEW x, Held(setup, TRUE, x), NEW num \in Nat,
           x.output_scanline + num < setup.output_height,
           setup.V = 2 \/ x.output_scanline % setup.V = 0
    PROVE  LET y == SkipWithContext(x, num)
           IN  Held(setup, TRUE, y) /\ y.output_scanline = x.output_scanline + num
<1> DEFINE H == setup.output_height
           L == IMCULines(setup)
           p == x.output_scanline
           o == x.output_iMCU_row
           left == lines_left_in_iMCU_row(x)
           gone == IF NextRowDecoded(x) THEN left + lines_per_iMCU_row ELSE left
           y == SkipWithContext(x, num)
           reads == \/ num < left + 1
                    \/ NextRowDecoded(x) /\ num - left < lines_per_iMCU_row + 1
<1>1. H \in Nat /\ L \in Nat \ {0} /\ p \in Nat /\ o \in Nat /\ p + num < H
  <2>1. H \in Nat /\ L \in Nat \ {0} BY SetupsAre, SizesAre
  <2>2. p \in Nat /\ o \in Nat BY <2>1 DEF Held, Counters
  <2> QED BY <2>1, <2>2
<1>2. lines_per_iMCU_row = L BY DEF lines_per_iMCU_row, M, max_v_samp_factor, IMCULines
<1>3. CASE reads
  <2>1. y = read_and_discard_scanlines(x, num)
    BY <1>3, Zenon DEF SkipWithContext
  <2>2. p + num <= H BY <1>1
  <2>3. TRUE \in BOOLEAN OBVIOUS
  <2> QED BY <2>1, <2>2, <2>3, DiscardHolds
<1>4. CASE ~reads
  <2> DEFINE k == p + gone
             n == num - gone
             xb == IF \/ x.iMCU_row_ctr = 0
                      \/ x.iMCU_row_ctr = 1 /\ left > 2
                     THEN set_wraparound_pointers(x.xbuffer) ELSE x.xbuffer
             z == [x EXCEPT !.output_scanline = k, !.xbuffer = xb,
                            !.buffer_full = FALSE, !.rowgroup_ctr = 0,
                            !.context_state = "CTX_PREPARE_FOR_IMCU"]
             u == ResetUpsampler(z)
  <2>1. /\ k = o * L /\ gone \in Nat /\ gone < num /\ x.iMCU_row_ctr = o
    <3> DEFINE le == left
               go == gone
    <3>1. ~(num < le + 1) /\ ~(NextRowDecoded(x) /\ num - le < L + 1)
      BY <1>2, <1>4
    <3>2. go = IF NextRowDecoded(x) THEN le + L ELSE le BY <1>2
    <3>3. le = lines_left_in_iMCU_row(x) OBVIOUS
    <3> HIDE DEF le, go
    <3>4. /\ x.output_scanline + go = x.output_iMCU_row * IMCULines(setup)
          /\ go \in Nat /\ go < num
          /\ x.iMCU_row_ctr = x.output_iMCU_row
      BY <3>1, <3>2, <3>3, GoneIs DEF L
    <3> QED BY <3>4 DEF go, le
  <2>2. y = SkipIMCURows(u, n, WholeIMCURows(n - 1))
    <3> DEFINE z0 == [x EXCEPT !.output_scanline = @ + gone,
                        !.xbuffer = IF \/ x.iMCU_row_ctr = 0
                                       \/ x.iMCU_row_ctr = 1 /\ left > 2
                                      THEN set_wraparound_pointers(@) ELSE @,
                        !.buffer_full = FALSE, !.rowgroup_ctr = 0,
                        !.context_state = "CTX_PREPARE_FOR_IMCU"]
    <3>1. y = SkipIMCURows(ResetUpsampler(z0), n, WholeIMCURows(n - 1))
      BY <1>4, Zenon DEF SkipWithContext, ContextLinesToSkip
    <3>2. x = [f \in Fields |-> x[f]] BY DEF Held, Shape
    <3> HIDE DEF left, gone
    <3>3. z0 = z BY <3>2 DEF Fields
    <3> HIDE DEF z0, z, n
    <3> QED BY <3>1, <3>3
  <2> HIDE DEF gone, y, left
  <2>3. Buffers(setup, x) /\ Counters(setup, x) BY DEF Held
  <2>4. PointersOK(setup, xb) BY <2>3, WraparoundOK DEF Buffers
  <2>5. x = [f \in Fields |-> x[f]] /\ IsSeq(x.rows) BY DEF Held, Shape
  <2> HIDE DEF k, xb
  <2>6. z = [f \in Fields |-> z[f]] BY <2>5 DEF Fields
  <2>7. /\ z.buffer = x.buffer /\ z.xbuffer = xb
        /\ z.buffer_full = FALSE /\ z.rowgroups_avail = x.rowgroups_avail
        /\ z.whichptr = x.whichptr /\ z.context_state = "CTX_PREPARE_FOR_IMCU"
        /\ z.iMCU_row_ctr = x.iMCU_row_ctr /\ z.output_iMCU_row = x.output_iMCU_row
        /\ z.starting_row = x.starting_row /\ z.next_row = x.next_row
        /\ z.next_row_out = x.next_row_out /\ z.spare_full = x.spare_full
        /\ z.rows_to_go = x.rows_to_go /\ z.rowgroup_ctr = 0
        /\ z.output_scanline = k /\ z.rows = x.rows
    BY <2>5 DEF Fields
  <2> HIDE DEF z, u, p, n, H, L, o
  <2>8. Shape(z) BY <2>5, <2>6, <2>7 DEF Shape
  <2>9. Counters(setup, z) /\ Buffers(setup, z)
    <3>1. 0 \in 0 .. setup.M + 2 /\ FALSE \in BOOLEAN BY SetupsAre
    <3>2. Counters(setup, z) BY <2>3, <2>7, <3>1 DEF Counters
    <3>3. Buffers(setup, z) BY <2>3, <2>4, <2>7 DEF Buffers
    <3> QED BY <3>2, <3>3
  <2>10. /\ k \in Nat /\ n \in Nat /\ n - 1 \in 0 .. n /\ k + n = p + num /\ k < H /\ k + n < H
    BY <1>1, <2>1 DEF k, n
  <2>11. /\ Held(setup, TRUE, u) /\ AtTop(setup, u) /\ u.output_scanline = k
    <3>1. z.output_scanline = z.output_iMCU_row * IMCULines(setup) BY <2>1, <2>7 DEF o, L
    <3>2. z.output_scanline < setup.output_height BY <2>7, <2>10 DEF H
    <3>3. z.iMCU_row_ctr = z.output_iMCU_row BY <2>1, <2>7 DEF o
    <3>4. ~z.buffer_full /\ setup.kind # "merged" BY <2>7
    <3> QED BY <2>7, <2>8, <2>9, <3>1, <3>2, <3>3, <3>4, ResetHolds DEF u
  <2>12. Held(setup, TRUE, y) /\ y.output_scanline = u.output_scanline + n
    <3>1. u.output_scanline + n < setup.output_height BY <2>10, <2>11 DEF H
    <3>2. setup.kind # "merged" OBVIOUS
    <3> DEFINE m == n - 1
    <3>3. m \in 0 .. n /\ y = SkipIMCURows(u, n, WholeIMCURows(m)) BY <2>2, <2>10
    <3> HIDE DEF m
    <3> QED BY <2>10, <2>11, <3>1, <3>2, <3>3, SkipRowsHold
  <2> QED BY <2>10, <2>11, <2>12 DEF p, y
<1> QED BY <1>3, <1>4

(* jpeg_skip_scanlines skips what it was asked to, or to the bottom.       *)
LEMMA SkipHolds ==
    ASSUME setup \in Setups, pass = "read", AnyCalls = FALSE, Held(setup, TRUE, d),
           NEW num \in Nat, d.output_scanline < output_height, SkipsCleanly(num)
    PROVE  LET y == SkipLines(d, num)
           IN  /\ Held(setup, TRUE, y)
               /\ y.output_scanline = Min2(d.output_scanline + num, output_height)
<1> DEFINE H == setup.output_height
           p == d.output_scanline
           x == [d EXCEPT !.rows = << >>]
           y == SkipLines(d, num)
<1>1. H \in Nat /\ p \in Nat /\ p < H /\ output_height = H
  BY SetupsAre DEF Held, output_height
<1>2. Held(setup, TRUE, x) /\ x.output_scanline = p /\ Same(d, x) BY NoRowsHold
<1>3. CASE p + num >= H
  <2>1. y = [x EXCEPT !.output_scanline = H] BY <1>1, <1>3 DEF SkipLines
  <2> HIDE DEF x, y, H
  <2>2. Shape(y) /\ Same(x, y) /\ y.output_scanline = H
    <3>1. Shape(x) BY <1>2 DEF Held
    <3> QED BY <2>1, <3>1, ScanlineShape
  <2>3. Counters(setup, y) /\ Buffers(setup, y) BY <1>2, <2>2, SameHolds DEF Held
  <2>4. Somewhere(setup, TRUE, TRUE, H, y)
    <3>1. ~(H < H) BY <1>1
    <3> QED BY <3>1 DEF Somewhere, H
  <2>5. H \in 0 .. H BY <1>1
  <2>6. Held(setup, TRUE, y) BY <2>2, <2>3, <2>4, <2>5 DEF Held, H
  <2>7. Min2(p + num, H) = H BY <1>1, <1>3 DEF Min2
  <2> QED BY <1>1, <2>2, <2>6, <2>7 DEF y
<1>4. CASE ~(p + num >= H)
  <2>1. p + num < H /\ Min2(p + num, H) = p + num BY <1>1, <1>4 DEF Min2
  <2>2. CASE num = 0
    <3>1. y = x BY <1>1, <1>4, <2>2 DEF SkipLines
    <3>2. p + num = p BY <1>1, <2>2
    <3> HIDE DEF x, y, p
    <3> QED BY <1>1, <1>2, <2>1, <3>1, <3>2 DEF y, p
  <2>3. CASE num # 0 /\ need_context_rows
    <3>1. y = SkipWithContext(x, num) BY <1>1, <1>4, <2>3 DEF SkipLines
    <3>2. setup.V = 2 \/ p % setup.V = 0
      BY <2>3 DEF SkipsCleanly, AtRowGroup, max_v_samp_factor
    <3>3. setup.kind = "context" BY <2>3 DEF need_context_rows
    <3> HIDE DEF x, y
    <3>4. x.output_scanline + num < setup.output_height BY <1>2, <2>1
    <3>5. setup.V = 2 \/ x.output_scanline % setup.V = 0 BY <1>2, <3>2
    <3> HIDE DEF p, H
    <3>6. Held(setup, TRUE, y) /\ y.output_scanline = x.output_scanline + num
      BY <1>2, <3>1, <3>3, <3>4, <3>5, SkipContextHolds
    <3> QED BY <1>1, <1>2, <2>1, <3>6 DEF p, y
  <2>4. CASE num # 0 /\ ~need_context_rows
    <3>1. y = SkipSimple(x, num) BY <1>1, <1>4, <2>4 DEF SkipLines
    <3>2. setup.kind # "context" BY <2>4 DEF need_context_rows
    <3>3. /\ p % setup.V = 0 /\ ~(d.rowgroup_ctr > 0 /\ ~d.buffer_full)
          /\ setup.output_height % setup.V # 0 =>
                /\ setup.kind # "merged"
                /\ num < setup.V \/ num >= lines_left_in_iMCU_row(d)
      BY <2>4 DEF SkipsCleanly, AtRowGroup, SkippedIntoIMCURow, CutAtBottom,
                  using_merged_upsample, max_v_samp_factor, output_height
    <3> HIDE DEF x, y
    <3>4. lines_left_in_iMCU_row(x) = lines_left_in_iMCU_row(d)
      BY <1>2 DEF lines_left_in_iMCU_row
    <3>5. x.rowgroup_ctr = d.rowgroup_ctr /\ x.buffer_full = d.buffer_full
      BY <1>2 DEF Same, SameUpsampler
    <3>6. x.output_scanline + num < setup.output_height BY <1>2, <2>1
    <3>7. /\ x.output_scanline % setup.V = 0
          /\ ~(x.rowgroup_ctr > 0 /\ ~x.buffer_full)
          /\ setup.output_height % setup.V # 0 =>
                /\ setup.kind # "merged"
                /\ num < setup.V \/ num >= lines_left_in_iMCU_row(x)
      <4> DEFINE i == lines_left_in_iMCU_row(x)
      <4> HIDE DEF i
      <4>1. lines_left_in_iMCU_row(d) = i BY <3>4 DEF i
      <4>2. setup.output_height % setup.V # 0 =>
                /\ setup.kind # "merged"
                /\ num < setup.V \/ num >= i
        BY <3>3, <4>1
      <4> QED BY <1>2, <3>3, <3>5, <4>2 DEF i
    <3> HIDE DEF p, H
    <3>8. Held(setup, TRUE, y) /\ y.output_scanline = x.output_scanline + num
      BY <1>2, <3>1, <3>2, <3>6, <3>7, SkipSimpleHolds
    <3> QED BY <1>1, <1>2, <2>1, <3>8 DEF p, y
  <2> QED BY <2>2, <2>3, <2>4
<1> QED BY <1>3, <1>4

-----------------------------------------------------------------------------
(* The second pass over the strips of the whole image.                     *)
LEMMA CrankHolds ==
    ASSUME setup \in Setups, pass = "crank", NEW x,
           Shape(x), Counters(setup, x), Buffers(setup, x), x.output_scanline \in Nat,
           x.starting_row + x.next_row = x.output_scanline,
           x.output_scanline < setup.output_height,
           NEW max_lines \in Nat \ {0}, NEW data \in BOOLEAN,
           x.next_row > 0 =>
              \/ max_lines <= setup.output_height - x.output_scanline
              \/ setup.V - x.next_row <= setup.output_height - x.output_scanline
    PROVE  LET y == ReadLines(x, max_lines, data)
           IN  /\ Shape(y) /\ Counters(setup, y) /\ Buffers(setup, y)
               /\ y.output_scanline \in
                     x.output_scanline + 1 .. setup.output_height
               /\ y.starting_row + y.next_row = y.output_scanline
<1> DEFINE V == setup.V
           H == setup.output_height
           p == x.output_scanline
           z == [x EXCEPT !.rows = << >>, !.out_row_ctr = 0]
           num == Min3(V - z.next_row, max_lines - z.out_row_ctr, H - z.starting_row)
           t == [i \in 1 .. num |-> z.whole_image[(z.starting_row + z.next_row) + i - 1]]
           q == z.rows \o t
           c == z.out_row_ctr + num
           u == [z EXCEPT !.rows = q, !.out_row_ctr = c]
           v == AdvanceStrip(u, num)
           y == ReadLines(x, max_lines, data)
<1>1. V \in 1 .. 4 /\ H \in Nat /\ p < H /\ max_v_samp_factor = V /\ output_height = H
  BY SetupsAre DEF max_v_samp_factor, output_height
<1>2. y = AddScanlines(post_process_2pass(z, max_lines))
  <2>1. ~(p >= H) BY <1>1
  <2> QED BY <1>1, <2>1 DEF ReadLines, process_data
<1>3. Shape(z) /\ Same(x, z) /\ z.output_scanline = p /\ z.out_row_ctr = 0
  BY ResetShape
<1>4. /\ z.next_row = x.next_row /\ z.starting_row = x.starting_row
      /\ x.next_row \in 0 .. V - 1 /\ x.starting_row \in Nat
  BY <1>3 DEF Same, Counters
<1>5. z = [f \in Fields |-> z[f]] /\ IsSeq(z.rows) BY <1>3 DEF Shape
<1>6. num \in 1 .. V - x.next_row /\ num <= max_lines /\ p + num <= H
  <2> HIDE DEF z
  <2>1. num = Min3(V - x.next_row, max_lines, H - x.starting_row)
    <3>1. max_lines - 0 = max_lines OBVIOUS
    <3> QED BY <1>3, <1>4, <3>1
  <2> HIDE DEF num
  <2>2. /\ V - x.next_row \in Nat \ {0} /\ H - x.starting_row \in Nat \ {0}
    BY <1>1, <1>4
  <2>3. /\ num \in Nat \ {0} /\ num <= V - x.next_row /\ num <= max_lines
        /\ num <= H - x.starting_row
    BY <2>1, <2>2 DEF Min3, Min2
  <2>4. p + num <= H
    <3>1. CASE x.next_row = 0 BY <1>1, <1>4, <2>3, <3>1
    <3>2. CASE x.next_row > 0
      <4>1. max_lines <= H - p \/ V - x.next_row <= H - p BY <3>2
      <4>2. CASE max_lines <= H - p BY <1>1, <2>3, <4>2
      <4>3. CASE V - x.next_row <= H - p BY <1>1, <1>4, <2>3, <4>3
      <4> QED BY <4>1, <4>2, <4>3
    <3> QED BY <1>4, <3>1, <3>2
  <2> QED BY <1>1, <1>4, <2>3, <2>4
<1> HIDE DEF num
<1>7. post_process_2pass(z, max_lines) = v
  <2> HIDE DEF z
  <2> DEFINE W(k) == AdvanceStrip(
                 [z EXCEPT !.rows = @ \o [i \in 1 .. k |->
                              z.whole_image[(z.starting_row + z.next_row) + i - 1]],
                           !.out_row_ctr = @ + k], k)
  <2>1. post_process_2pass(z, max_lines)
          = W(Min3(max_v_samp_factor - z.next_row, max_lines - z.out_row_ctr,
                   output_height - z.starting_row))
    BY Zenon DEF post_process_2pass
  <2>2. post_process_2pass(z, max_lines) = W(num)
    <3> HIDE DEF W
    <3> QED BY <1>1, <2>1 DEF num
  <2> HIDE DEF t
  <2>3. [z EXCEPT !.rows = @ \o t, !.out_row_ctr = @ + num] = u
    BY <1>5 DEF Fields
  <2> HIDE DEF u
  <2> QED BY <2>2, <2>3 DEF t
<1>8. IsSeq(q)
  <2> HIDE DEF z
  <2>1. t = [i \in 1 .. num |-> t[i]] OBVIOUS
  <2> HIDE DEF t
  <2>2. num \in Nat BY <1>1, <1>4, <1>6
  <2>3. IsSeq(t) BY <2>1, <2>2, RowsAreSeq
  <2> QED BY <1>5, <2>3, Appended
<1>9. c = num BY <1>3, <1>6
<1> HIDE DEF q, c, z
<1>10. /\ u = [f \in Fields |-> u[f]] /\ u.rows = q /\ u.out_row_ctr = c
       /\ Same(z, u) /\ u.output_scanline = z.output_scanline
  BY <1>5 DEF Fields, Same, SameUpsampler
<1> HIDE DEF u
<1>11. Shape(u) BY <1>8, <1>10 DEF Shape
<1>12. u.next_row = x.next_row /\ u.starting_row = x.starting_row
  BY <1>4, <1>10 DEF Same
<1>13. /\ Shape(v) /\ Kept(u, v) /\ SameUpsampler(u, v)
       /\ v.starting_row \in Nat /\ v.next_row \in 0 .. V - 1
       /\ v.starting_row + v.next_row = u.starting_row + u.next_row + num
       /\ v.out_row_ctr = u.out_row_ctr
  <2>1. V \in Nat /\ V > 0 /\ max_v_samp_factor = V BY <1>1
  <2> HIDE DEF V
  <2>2. x.next_row \in Nat /\ x.starting_row \in Nat BY <1>4
  <2>3. num \in Nat /\ x.next_row + num <= V BY <1>6, <2>1, <2>2
  <2>4. /\ max_v_samp_factor \in Nat /\ num \in Nat /\ u.next_row \in Nat
        /\ u.starting_row \in Nat /\ u.next_row + num <= max_v_samp_factor
        /\ max_v_samp_factor > 0
    BY <1>12, <2>1, <2>2, <2>3
  <2> QED BY <1>1, <1>11, <2>4, StripShape
<1> HIDE DEF v
<1>14. Same(x, u) BY <1>3, <1>10 DEF Same, SameUpsampler
<1>15. Counters(setup, v) /\ Buffers(setup, v)
  BY <1>13, <1>14 DEF Same, SameUpsampler, Kept, Counters, Buffers
<1>16. v.output_scanline = p /\ v.out_row_ctr = num
  BY <1>3, <1>9, <1>10, <1>13 DEF Kept
<1>17. v.starting_row + v.next_row = p + num
  <2>1. x.starting_row + x.next_row = p OBVIOUS
  <2> QED BY <1>12, <1>13, <2>1
<1> HIDE DEF p
<1>18. y = [v EXCEPT !.output_scanline = p + num]
  <2>1. v = [f \in Fields |-> v[f]] BY <1>13 DEF Shape
  <2> HIDE DEF y
  <2> QED BY <1>2, <1>7, <1>16, <2>1 DEF AddScanlines, Fields
<1> HIDE DEF y
<1>19. Shape(y) /\ Same(v, y) /\ y.output_scanline = p + num
  BY <1>13, <1>18, ScanlineShape
<1>20. Counters(setup, y) /\ Buffers(setup, y) BY <1>15, <1>19, SameHolds
<1>21. p + num \in p + 1 .. H BY <1>1, <1>4, <1>6 DEF p
<1>22. y.starting_row + y.next_row = y.output_scanline BY <1>17, <1>19 DEF Same
<1> QED BY <1>19, <1>20, <1>21, <1>22 DEF p, y

-----------------------------------------------------------------------------
(* The passes.                                                             *)
(* What a pass begins with, the samples and the buffers aside.             *)
Starts(s, x) ==
    /\ Shape(x)
    /\ x.xbuffer = Fresh.xbuffer /\ x.buffer_full = FALSE
    /\ x.rowgroup_ctr = 0 /\ x.rowgroups_avail = 0 /\ x.whichptr = 0
    /\ x.context_state = "CTX_PREPARE_FOR_IMCU"
    /\ x.iMCU_row_ctr = 0 /\ x.output_iMCU_row = 0
    /\ x.next_row_out = s.V /\ x.rows_to_go = s.output_height
    /\ x.spare_full = FALSE
    /\ x.starting_row = 0 /\ x.next_row = 0
    /\ x.output_scanline = 0

(* So does the first pass.                                                 *)
LEMMA FreshStarts == Starts(setup, Fresh)
<1> DEFINE b == [c \in Components |-> [r \in WorkRows(c) |-> Padding]]
           xb == IF need_context_rows THEN make_funny_pointers ELSE << >>
           l == [luma |-> <<0, 0>>, chroma |-> [v \in Lines |-> << >>]]
           w == [r \in Image |-> << >>]
<1>1. Fresh =
        [buffer |-> b, xbuffer |-> xb,
         buffer_full |-> FALSE, rowgroup_ctr |-> 0, rowgroups_avail |-> 0,
         whichptr |-> 0, context_state |-> "CTX_PREPARE_FOR_IMCU",
         iMCU_row_ctr |-> 0, output_iMCU_row |-> 0, color_buf |-> l,
         next_row_out |-> max_v_samp_factor, rows_to_go |-> output_height,
         spare_full |-> FALSE, spare_row |-> << >>,
         starting_row |-> 0, next_row |-> 0, whole_image |-> w,
         output_scanline |-> 0, out_row_ctr |-> 0, rows |-> << >>]
  BY Zenon DEF Fresh
<1> HIDE DEF b, xb, l, w
<1>2. Fresh = [f \in Fields |-> Fresh[f]] BY <1>1 DEF Fields
<1>3. Fresh.rows = << >> BY <1>1
<1>4. Shape(Fresh) BY <1>2, <1>3, NoRows DEF Shape
<1> QED BY <1>1, <1>4 DEF Starts, max_v_samp_factor, output_height

(* A pass that begins is ready for its first line.                         *)
LEMMA StartHolds ==
    ASSUME setup \in Setups, NEW z, Starts(setup, z), BufferOK(setup, z.buffer)
    PROVE  Held(setup, TRUE, z)
<1> DEFINE H == setup.output_height
           V == setup.V
           xb == Fresh.xbuffer
<1>1. /\ V \in 1 .. 4 /\ H \in Nat \ {0} /\ setup.M \in Nat
      /\ IMCULines(setup) \in Nat /\ IMCURows(setup) \in Nat
  BY SetupsAre, SizesAre
<1>2. setup.kind = "context" => xb = make_funny_pointers
  BY DEF Fresh, need_context_rows
<1> HIDE DEF xb
<1>3. PointersOK(setup, xb)
  <2>1. CASE setup.kind = "context" BY <1>2, <2>1, MadeOK
  <2>2. CASE setup.kind # "context" BY <2>2 DEF PointersOK
  <2> QED BY <2>1, <2>2
<1>4. Shape(z) /\ Buffers(setup, z) BY <1>3 DEF Starts, Buffers, xb
<1>5. Counters(setup, z)
  <2>1. /\ 0 \in 0 .. setup.M + 2 /\ 0 \in 0 .. 1 /\ 0 \in 0 .. IMCURows(setup)
        /\ V \in 0 .. V /\ H \in 0 .. H /\ 0 \in 0 .. V - 1 /\ 0 \in Nat
        /\ FALSE \in BOOLEAN
    BY <1>1
  <2> QED BY <2>1 DEF Counters, Starts
<1>6. Within(setup, z) = 0 BY DEF Within, Starts
<1>7. 0 * IMCULines(setup) = 0 BY <1>1
<1>8. AtTop(setup, z) BY <1>6, <1>7 DEF AtTop, Starts
<1>9. H - 0 = H /\ 0 < H /\ H >= H BY <1>1
<1>10. /\ z.output_scanline = 0 /\ z.rows_to_go = H BY DEF Starts
<1> QED BY <1>4, <1>5, <1>8, <1>9, <1>10, TopHolds

(* The decompressor is ready when it has been set up.                      *)
LEMMA InitHolds == ASSUME Init PROVE Inv
<1> DEFINE b == Fresh.buffer
<1>1. setup \in Setups /\ pass \in {"read", "dummy"} /\ d = Fresh BY DEF Init, Passes
<1>2. BufferOK(setup, b)
  <2>1. b = [c \in Components |-> [r \in WorkRows(c) |-> Padding]] BY DEF Fresh
  <2>2. SUFFICES ASSUME NEW c \in Components
                 PROVE  b[c] \in [BufferRows(setup, c) ->
                                  0 .. SampleHeight(setup, c) - 1 \cup {Padding}]
    BY DEF BufferOK
  <2>3. WorkRows(c) = BufferRows(setup, c) BY <1>1, SameSizes
  <2> HIDE DEF b
  <2> QED BY <2>1, <2>3
<1>3. Starts(setup, d) BY <1>1, FreshStarts
<1>4. Held(setup, TRUE, d) BY <1>1, <1>2, <1>3, StartHolds
<1>5. Between(setup, pass, d) BY <1>1, <1>4 DEF Between, Held
<1> QED BY <1>5 DEF Inv

(* A pass begun again.                                                     *)
LEMMA StartPassShape ==
    ASSUME NEW x PROVE LET z == start_output_pass(x)
                       IN  Starts(setup, z) /\ z.buffer = x.buffer
<1> DEFINE y == [Fresh EXCEPT !.buffer = x.buffer, !.color_buf = x.color_buf,
                              !.spare_row = x.spare_row,
                              !.whole_image = x.whole_image]
<1>1. start_output_pass(x) = y BY Zenon DEF start_output_pass
<1>2. Starts(setup, Fresh) BY FreshStarts
<1>3. Fresh = [f \in Fields |-> Fresh[f]] BY <1>2 DEF Starts, Shape
<1>4. y = [f \in Fields |-> y[f]] BY <1>3 DEF Fields
<1>5. /\ y.buffer = x.buffer /\ y.rows = Fresh.rows
      /\ y.xbuffer = Fresh.xbuffer /\ y.buffer_full = Fresh.buffer_full
      /\ y.rowgroup_ctr = Fresh.rowgroup_ctr
      /\ y.rowgroups_avail = Fresh.rowgroups_avail
      /\ y.whichptr = Fresh.whichptr /\ y.context_state = Fresh.context_state
      /\ y.iMCU_row_ctr = Fresh.iMCU_row_ctr
      /\ y.output_iMCU_row = Fresh.output_iMCU_row
      /\ y.next_row_out = Fresh.next_row_out /\ y.rows_to_go = Fresh.rows_to_go
      /\ y.spare_full = Fresh.spare_full /\ y.starting_row = Fresh.starting_row
      /\ y.next_row = Fresh.next_row
      /\ y.output_scanline = Fresh.output_scanline
  BY <1>3 DEF Fields
<1> HIDE DEF y
<1>6. Shape(y) BY <1>2, <1>4, <1>5 DEF Shape, Starts
<1> QED BY <1>1, <1>2, <1>5, <1>6 DEF Starts

(* jpeg_start_output makes it ready again, from any state.                 *)
LEMMA StartPassHolds ==
    ASSUME Inv, pass' \in Passes
    PROVE  Held(setup, TRUE, start_output_pass(d)) /\ pass' \in {"read", "dummy"}
<1>1. setup \in Setups /\ BufferOK(setup, d.buffer) BY DEF Inv, Between, Buffers
<1>2. pass' \in {"read", "dummy"} BY DEF Passes
<1> DEFINE z == start_output_pass(d)
<1>3. Starts(setup, z) /\ z.buffer = d.buffer BY StartPassShape
<1> HIDE DEF z
<1>4. Held(setup, TRUE, z) BY <1>1, <1>3, StartHolds
<1> QED BY <1>2, <1>4 DEF z

(* A step of the dummy pass, which counts in output_scanline.              *)
LEMMA DummyHolds ==
    ASSUME setup \in Setups, pass = "dummy", NEW x, Held(setup, TRUE, x),
           x.output_scanline < setup.output_height, NEW data \in BOOLEAN
    PROVE  LET u == process_data([x EXCEPT !.out_row_ctr = x.output_scanline],
                                 0, data)
               y == [u EXCEPT !.output_scanline = u.out_row_ctr]
           IN  /\ Held(setup, TRUE, y)
               /\ data => y.output_scanline > x.output_scanline
<1> DEFINE H == setup.output_height
           p == x.output_scanline
           z == [x EXCEPT !.out_row_ctr = p]
           u == process_data(z, 0, data)
           y == [u EXCEPT !.output_scanline = u.out_row_ctr]
<1>1. H \in Nat /\ p \in Nat /\ p < H BY SetupsAre DEF Held
<1>2. Shape(z) /\ Same(x, z) /\ z.output_scanline = p /\ z.out_row_ctr = p
  <2>1. x = [f \in Fields |-> x[f]] /\ IsSeq(x.rows) BY DEF Held, Shape
  <2> HIDE DEF p
  <2>2. z = [f \in Fields |-> z[f]] BY <2>1 DEF Fields
  <2>3. /\ Same(x, z) /\ z.output_scanline = x.output_scanline
        /\ z.out_row_ctr = p /\ z.rows = x.rows
    BY <2>1 DEF Fields, Same, SameUpsampler
  <2> HIDE DEF z
  <2> QED BY <2>1, <2>2, <2>3 DEF Shape, p
<1> HIDE DEF z
<1>3. Counters(setup, z) /\ Buffers(setup, z) /\ Somewhere(setup, TRUE, TRUE, p, z)
  BY <1>2, SameHolds DEF Held
<1>4. \E n \in Nat : /\ Shape(u) /\ Counters(setup, u) /\ Buffers(setup, u)
                     /\ u.out_row_ctr = p + n
                     /\ p + n <= H /\ (data => n > 0)
                     /\ Somewhere(setup, TRUE, TRUE, p + n, u)
  <2>1. CASE z.buffer_full \/ data
    <3>1. Upsampler(setup, TRUE, p, z) /\ Place(setup, TRUE, p, z)
      BY <1>1, <1>3 DEF Somewhere
    <3>2. z.out_row_ctr \in Nat /\ 0 \in Nat BY <1>1, <1>2
    <3>3. pass # "read" BY <1>1
    <3> HIDE DEF p, H
    <3>4. PICK n \in Nat : Result(setup, TRUE, p, z, u, n, 0)
      BY <1>1, <1>2, <1>3, <2>1, <3>1, <3>2, <3>3, DataResult DEF H
    <3> HIDE DEF u
    <3>5. /\ Shape(u) /\ Counters(setup, u) /\ Buffers(setup, u)
          /\ u.out_row_ctr = p + n /\ p + n <= H /\ n \in Nat \ {0}
          /\ Somewhere(setup, TRUE, TRUE, p + n, u)
      BY <1>2, <3>4 DEF Result, H
    <3>6. n > 0 BY <3>5
    <3> QED BY <3>5, <3>6
  <2>2. CASE ~(z.buffer_full \/ data)
    <3>1. u = z BY <2>2 DEF process_data
    <3> HIDE DEF p, H, u
    <3>2. p + 0 = p /\ p <= H /\ 0 \in Nat BY <1>1
    <3> QED BY <1>2, <1>3, <2>2, <3>1, <3>2
  <2> QED BY <2>1, <2>2
<1> HIDE DEF u
<1>5. PICK n \in Nat : /\ Shape(u) /\ Counters(setup, u) /\ Buffers(setup, u)
                       /\ u.out_row_ctr = p + n
                       /\ p + n <= H /\ (data => n > 0)
                       /\ Somewhere(setup, TRUE, TRUE, p + n, u)
  BY <1>4
<1>6. y = [u EXCEPT !.output_scanline = p + n]
  <2>1. u = [f \in Fields |-> u[f]] BY <1>5 DEF Shape
  <2> HIDE DEF p
  <2> QED BY <1>5, <2>1 DEF Fields
<1> HIDE DEF y
<1>7. Shape(y) /\ Same(u, y) /\ y.output_scanline = p + n
  BY <1>5, <1>6, ScanlineShape
<1>8. /\ Counters(setup, y) /\ Buffers(setup, y)
      /\ Somewhere(setup, TRUE, TRUE, p + n, y)
  BY <1>5, <1>7, SameHolds
<1>9. p + n \in 0 .. H /\ (data => p + n > p) BY <1>1, <1>5
<1> HIDE DEF p
<1>10. Held(setup, TRUE, y) BY <1>7, <1>8, <1>9 DEF Held, H
<1> QED BY <1>7, <1>9, <1>10 DEF p, u, y, z

(* The final pass begins at the first strip.                               *)
LEMMA CrankStarts ==
    ASSUME setup \in Setups, NEW x, Shape(x), Counters(setup, x), Buffers(setup, x)
    PROVE  Between(setup, "crank", start_crank_pass(x))
<1> DEFINE y == [x EXCEPT !.starting_row = 0, !.next_row = 0,
                          !.output_scanline = 0, !.rows = << >>]
<1>1. start_crank_pass(x) = y BY Zenon DEF start_crank_pass
<1>2. x = [f \in Fields |-> x[f]] BY DEF Shape
<1>3. y = [f \in Fields |-> y[f]] BY <1>2 DEF Fields
<1>4. /\ y.buffer = x.buffer /\ y.xbuffer = x.xbuffer
      /\ y.buffer_full = x.buffer_full /\ y.spare_full = x.spare_full
      /\ y.rowgroup_ctr = x.rowgroup_ctr
      /\ y.rowgroups_avail = x.rowgroups_avail
      /\ y.whichptr = x.whichptr /\ y.iMCU_row_ctr = x.iMCU_row_ctr
      /\ y.output_iMCU_row = x.output_iMCU_row
      /\ y.next_row_out = x.next_row_out /\ y.rows_to_go = x.rows_to_go
      /\ y.starting_row = 0 /\ y.next_row = 0
      /\ y.output_scanline = 0 /\ y.rows = << >>
  BY <1>2 DEF Fields
<1> HIDE DEF y
<1>5. Shape(y) BY <1>3, <1>4, NoRows DEF Shape
<1>6. /\ 0 \in 0 .. setup.V - 1 /\ 0 \in Nat /\ 0 \in 0 .. setup.output_height
      /\ 0 + 0 = 0
  BY SetupsAre
<1>7. Counters(setup, y) BY <1>4, <1>6 DEF Counters
<1>8. Buffers(setup, y) BY <1>4 DEF Buffers
<1> QED BY <1>1, <1>4, <1>5, <1>6, <1>7, <1>8 DEF Between

-----------------------------------------------------------------------------
(* Every step.                                                             *)
LEMMA HeldIsBetween ==
    ASSUME NEW s \in Setups, NEW q \in {"read", "dummy"}, NEW x
    PROVE  Between(s, q, x) <=> Held(s, TRUE, x)
BY DEF Between, Held

(* The invariant in the pass over the strips, where the place in them is   *)
(* output_scanline.                                                        *)
LEMMA CrankIsBetween ==
    ASSUME NEW s \in Setups, NEW x
    PROVE  Between(s, "crank", x) <=>
              /\ Shape(x) /\ Counters(s, x) /\ Buffers(s, x)
              /\ x.output_scanline \in 0 .. s.output_height
              /\ x.starting_row + x.next_row = x.output_scanline
BY DEF Between

(* A call of jpeg_read_scanlines keeps the invariant and gets on.          *)
LEMMA ReadStep ==
    ASSUME AnyCalls = FALSE, Inv, NEW n \in 1 .. MaxLines, NEW data \in BOOLEAN,
           jpeg_read_scanlines(n, data)
    PROVE  Inv' /\ (data => d'.output_scanline > d.output_scanline)
<1> DEFINE p == d.output_scanline
           y == ReadLines(d, n, data)
<1>1. /\ d' = y /\ setup' = setup /\ pass' = pass /\ pass \in {"read", "crank"}
      /\ p < setup.output_height /\ ReadsCleanly(n)
  BY DEF jpeg_read_scanlines, output_height
<1>2. setup \in Setups /\ Between(setup, pass, d) BY DEF Inv, Between
<1>3. n \in Nat \ {0} BY RowsAssumption
<1> HIDE DEF y
<1>4. CASE pass = "read"
  <2>1. Held(setup, TRUE, d) BY <1>2, <1>4, HeldIsBetween
  <2>2. Held(setup, TRUE, y) /\ (data => y.output_scanline > p)
    BY <1>1, <1>2, <1>3, <1>4, <2>1, ReadHolds DEF y
  <2>3. Between(setup, pass, y) BY <1>2, <1>4, <2>2, HeldIsBetween
  <2> QED BY <1>1, <2>2, <2>3 DEF Inv
<1>5. CASE pass = "crank"
  <2>1. /\ Shape(d) /\ Counters(setup, d) /\ Buffers(setup, d)
        /\ p \in 0 .. setup.output_height /\ d.starting_row + d.next_row = p
    BY <1>2, <1>5, CrankIsBetween
  <2>2. p \in Nat BY <2>1
  <2>3. d.next_row > 0 =>
           \/ n <= setup.output_height - p
           \/ setup.V - d.next_row <= setup.output_height - p
    BY <1>1, <1>5 DEF ReadsCleanly, output_height, max_v_samp_factor
  <2>4. /\ Shape(y) /\ Counters(setup, y) /\ Buffers(setup, y)
        /\ y.output_scanline \in p + 1 .. setup.output_height
        /\ y.starting_row + y.next_row = y.output_scanline
    BY <1>1, <1>2, <1>3, <1>5, <2>1, <2>2, <2>3, CrankHolds DEF y
  <2>5. y.output_scanline \in 0 .. setup.output_height /\ y.output_scanline > p
    <3>1. setup.output_height \in Nat BY <1>2, SetupsAre
    <3> HIDE DEF p
    <3> QED BY <2>2, <2>4, <3>1
  <2>6. Between(setup, pass, y) BY <1>2, <1>5, <2>4, <2>5, CrankIsBetween
  <2> QED BY <1>1, <2>5, <2>6 DEF Inv
<1> QED BY <1>1, <1>4, <1>5

(* A call of jpeg_skip_scanlines keeps the invariant and gets where it was *)
(* asked to.                                                               *)
LEMMA SkipStep ==
    ASSUME AnyCalls = FALSE, Inv, NEW n \in 0 .. output_height,
           jpeg_skip_scanlines(n)
    PROVE  Inv' /\ d'.output_scanline = Min2(d.output_scanline + n, output_height)
<1> DEFINE y == SkipLines(d, n)
<1>1. /\ d' = y /\ setup' = setup /\ pass' = pass /\ pass = "read"
      /\ d.output_scanline < output_height /\ SkipsCleanly(n)
  BY DEF jpeg_skip_scanlines
<1>2. setup \in Setups /\ Between(setup, pass, d) BY DEF Inv, Between
<1>3. n \in Nat BY <1>2, SetupsAre DEF output_height
<1>4. Held(setup, TRUE, d) BY <1>1, <1>2, HeldIsBetween
<1> HIDE DEF y
<1>5. /\ Held(setup, TRUE, y)
      /\ y.output_scanline = Min2(d.output_scanline + n, output_height)
  BY <1>1, <1>2, <1>3, <1>4, SkipHolds DEF y
<1>6. Between(setup, pass, y) BY <1>1, <1>2, <1>5, HeldIsBetween
<1> QED BY <1>1, <1>5, <1>6 DEF Inv

(* A step of the dummy pass keeps the invariant and gets on.               *)
LEMMA DummyStep ==
    ASSUME Inv, NEW data \in BOOLEAN, DummyPassRows(data)
    PROVE  Inv' /\ (data => d'.output_scanline > d.output_scanline)
<1> DEFINE u == process_data([d EXCEPT !.out_row_ctr = d.output_scanline], 0, data)
           y == [u EXCEPT !.output_scanline = u.out_row_ctr]
<1>1. /\ d' = y /\ setup' = setup /\ pass' = pass /\ pass = "dummy"
      /\ d.output_scanline < setup.output_height
  BY Zenon DEF DummyPassRows, output_height
<1>2. setup \in Setups /\ Between(setup, pass, d) BY DEF Inv, Between
<1>3. Held(setup, TRUE, d) BY <1>1, <1>2, HeldIsBetween
<1>4. /\ Held(setup, TRUE, y)
      /\ data => y.output_scanline > d.output_scanline
  BY <1>1, <1>2, <1>3, DummyHolds, Zenon
<1> HIDE DEF y
<1>5. Between(setup, pass, y) BY <1>1, <1>2, <1>4, HeldIsBetween
<1> QED BY <1>1, <1>4, <1>5 DEF Inv

(* Every step keeps the invariant.                                         *)
LEMMA InvHolds == ASSUME AnyCalls = FALSE, Inv, [Next]_vars PROVE Inv'
<1>1. CASE \E n \in 1 .. MaxLines, data \in BOOLEAN : jpeg_read_scanlines(n, data)
  BY <1>1, ReadStep
<1>2. CASE \E n \in 0 .. output_height : jpeg_skip_scanlines(n)
  BY <1>2, SkipStep
<1>3. CASE \E data \in BOOLEAN : DummyPassRows(data)
  BY <1>3, DummyStep
<1>4. CASE DummyPassDone
  <2>1. d' = start_crank_pass(d) /\ pass' = "crank" /\ setup' = setup
    BY <1>4 DEF DummyPassDone
  <2>2. setup \in Setups /\ Shape(d) /\ Counters(setup, d) /\ Buffers(setup, d)
    BY DEF Inv, Between
  <2>3. Between(setup, "crank", start_crank_pass(d)) BY <2>2, CrankStarts
  <2> QED BY <2>1, <2>3 DEF Inv
<1>5. CASE jpeg_start_output
  <2>1. d' = start_output_pass(d) /\ pass' \in Passes /\ setup' = setup
    BY <1>5 DEF jpeg_start_output
  <2>2. setup \in Setups BY DEF Inv, Between
  <2>3. Held(setup, TRUE, start_output_pass(d)) /\ pass' \in {"read", "dummy"}
    BY <2>1, StartPassHolds
  <2>4. Between(setup, pass', start_output_pass(d)) BY <2>2, <2>3, HeldIsBetween
  <2> QED BY <2>1, <2>4 DEF Inv
<1>6. CASE UNCHANGED vars BY <1>6 DEF Inv, vars
<1> QED BY <1>1, <1>2, <1>3, <1>4, <1>5, <1>6 DEF Next

(* The invariant has all of TypeOK in it.                                  *)
LEMMA TypeHolds == ASSUME Inv PROVE TypeOK
<1>1. /\ setup \in Setups /\ pass \in {"read", "dummy", "crank"}
      /\ Counters(setup, d) /\ BufferOK(setup, d.buffer)
      /\ PointersOK(setup, d.xbuffer)
      /\ d.output_scanline \in 0 .. setup.output_height
  BY DEF Inv, Between, Buffers
<1>2. total_iMCU_rows = IMCURows(setup)
  BY DEF total_iMCU_rows, lines_per_iMCU_row, IMCURows, IMCULines, M,
         max_v_samp_factor, output_height
<1>3. ASSUME NEW c \in Components
      PROVE  d.buffer[c] \in
                [WorkRows(c) -> 0 .. downsampled_height(c) - 1 \cup {Padding}]
  BY <1>1, SameSizes DEF BufferOK
<1>4. ASSUME NEW c \in Components, need_context_rows,
             NEW w \in 0 .. 1, NEW i \in ListRows(c)
      PROVE  d.xbuffer[w][c][i] \in WorkRows(c) \cup {Unset}
  BY <1>1, <1>4, SameSizes DEF PointersOK, need_context_rows
<1>5. /\ d.rowgroup_ctr \in 0 .. M + 2 /\ d.rowgroups_avail \in 0 .. M + 2
      /\ d.whichptr \in 0 .. 1
      /\ d.iMCU_row_ctr \in 0 .. total_iMCU_rows
      /\ d.output_iMCU_row \in 0 .. total_iMCU_rows
      /\ d.next_row_out \in 0 .. max_v_samp_factor
      /\ d.rows_to_go \in 0 .. output_height
      /\ d.next_row \in 0 .. max_v_samp_factor - 1
      /\ d.output_scanline \in 0 .. output_height
  BY <1>1, <1>2 DEF Counters, M, max_v_samp_factor, output_height
<1> QED BY <1>1, <1>3, <1>4, <1>5 DEF TypeOK

(* For every setup the assumption allows, every sequence of reads, skips   *)
(* and passes that ReadsCleanly and SkipsCleanly allow leaves the counters *)
(* of the main controller, the upsamplers and the postprocessor in range   *)
(* and the pointer lists in the workspace, and asks for no iMCU row below  *)
(* the last.                                                               *)
THEOREM RowsStayInRange == AnyCalls = FALSE => (Spec => []TypeOK)
<1> SUFFICES ASSUME AnyCalls = FALSE PROVE Spec => []TypeOK OBVIOUS
<1>1. Init => Inv BY InitHolds
<1>2. Inv /\ [Next]_vars => Inv' BY InvHolds
<1>3. Inv => TypeOK BY TypeHolds
<1> QED BY <1>1, <1>2, <1>3, PTL DEF Spec

(* In the same way: a read, or a step of the dummy pass, for which the     *)
(* source delivers hands out a line, and a skip ends at the line it was    *)
(* asked to go to, or at the bottom (jdapistd.c, jpeg_read_scanlines and   *)
(* jpeg_skip_scanlines).                                                   *)
THEOREM CallsGetThere == AnyCalls = FALSE => (Spec => CallsAsAsked)
<1> SUFFICES ASSUME AnyCalls = FALSE PROVE Spec => CallsAsAsked OBVIOUS
<1>1. Init => Inv BY InitHolds
<1>2. Inv /\ [Next]_vars => Inv' BY InvHolds
<1>3. Spec => ReadsAdvance
  <2>1. Inv /\ [Next]_vars =>
           [(\/ \E n \in 1 .. MaxLines : jpeg_read_scanlines(n, TRUE)
             \/ DummyPassRows(TRUE))
              => d'.output_scanline > d.output_scanline]_vars
    BY ReadStep, DummyStep
  <2> QED BY <1>1, <1>2, <2>1, PTL DEF Spec, ReadsAdvance
<1>4. Spec => SkipsAsAsked
  <2>1. Inv /\ [Next]_vars =>
           [\A n \in 0 .. output_height : jpeg_skip_scanlines(n) =>
              d'.output_scanline = Min2(d.output_scanline + n, output_height)]_vars
    BY SkipStep
  <2> QED BY <1>1, <1>2, <2>1, PTL DEF Spec, SkipsAsAsked
<1> QED BY <1>3, <1>4, PTL DEF CallsAsAsked
=============================================================================
