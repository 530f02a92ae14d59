-------------------------- MODULE CompPassesProofs --------------------------
(***************************************************************************)
(* Proofs about CompPasses, for every set of images, with every script     *)
(* that validate_script lets pass: the passes are counted right, the MCUs  *)
(* are formed of the right blocks in the right order wherever the          *)
(* destination suspends, each scan is coded with the tables the decoder    *)
(* was told and that were made for it, and the datastream is complete.     *)
(*                                                                         *)
(* The invariant has seven parts beside the types: how the passes are      *)
(* counted (PassesInv), where in the scan the coefficient controller is    *)
(* (PlaceInv), what the first of several passes has saved (SavedInv), what *)
(* has been written (StreamInv), what tables there are and which of them   *)
(* the decoder has (TablesInv, ToldInv), and what they were made for       *)
(* (CodesInv).                                                             *)
(***************************************************************************)
EXTENDS CompPasses, TLAPS

-----------------------------------------------------------------------------
(* The inductive invariant.                                                *)

Active == global_state # "START" /\ step # "failed"
InPass == Compressing \/ step = "pass" \/ (step = "app" /\ global_state = "SCANNING")
Writing == InPass /\ ~gather /\ ~call_pass_startup

per_row == MCUs_per_row(img, scan)
rows == MCU_rows_per_iMCU_row

(* The MCU rows of a scan that come before iMCU row r.                     *)
MCURowsBefore(i, s, r) ==
    IF interleaved(s) THEN r
    ELSE IF r < total_iMCU_rows(i) THEN r * i.comps[s.comps[1]].v
    ELSE height_in_blocks(i, s.comps[1])

(* The place in the iMCU row: in a call, and where the next one goes on.   *)
y_now == IF Compressing THEN yoffset ELSE MCU_vert_offset
x_now == IF Compressing THEN MCU_col_num ELSE mcu_ctr

PassesInv ==
    /\ global_state = "START" => step \in {"app", "failed"}
    /\ Active =>
         /\ img \in Images /\ images > 0
         /\ global_state = "WRCOEFS" <=> img.transcode
         /\ optimize_coding = (img.optimize \/ (progressive_mode(img) /\ ~img.arith))
         /\ total_passes = (IF optimize_coding THEN 2 ELSE 1) * num_scans(img)
         /\ pass_number = IF ~optimize_coding THEN scan_number
                          ELSE IF pass_type = "output" THEN 2 * scan_number + 1
                          ELSE 2 * scan_number
         /\ pass_type = "main" => scan_number = 0 /\ ~img.transcode
         /\ pass_type = "huff_opt" => optimize_coding
         /\ step = "compress" => ~img.transcode
         /\ ~img.transcode => (pass_type = "main" <=> step \in {"app", "compress"})
         /\ step = "app" /\ img.transcode => scan_number = 0 /\ ~is_last_pass
                                /\ (pass_type = "output" => ~optimize_coding)
         /\ call_pass_startup => pass_type = "main" /\ ~gather /\ step = "app"
    /\ InPass => /\ scan = select_scan_parameters(img, scan_number)
                 /\ scan_number < num_scans(img)
                 /\ is_last_pass = (pass_number + 1 = total_passes)
                 /\ gather = (optimize_coding /\ pass_type # "output")
    /\ step = "next" =>
         /\ is_last_pass = (pass_number = total_passes)
         /\ optimize_coding /\ pass_type = "output" =>
               scan = select_scan_parameters(img, scan_number)

PlaceInv ==
    InPass =>
        /\ iMCU_row_num = total_iMCU_rows(img) => ~Compressing /\ y_now = 0 /\ x_now = 0
        /\ iMCU_row_num < total_iMCU_rows(img) =>
              /\ x_now < per_row
              /\ y_now < rows \/ (Compressing /\ y_now = rows /\ x_now = 0)
        /\ mcus = (MCURowsBefore(img, scan, iMCU_row_num) + y_now) * per_row + x_now
        /\ call_pass_startup => iMCU_row_num = 0 /\ mcus = 0

(* A block row as the first pass saves it, dummy blocks included.          *)
SavedRow(i, c, y) ==
    LET h == i.comps[c].h
        across == width_in_blocks(i, c)
        high == height_in_blocks(i, c)
        LastInMCU(x) == (x \div h) * h + h - 1
    IN  [x \in 0 .. Padded(across, h) - 1 |->
            IF y < high
              THEN IF x < across THEN Real(y, x) ELSE Dummy(y, across - 1)
              ELSE Dummy(high - 1, IF LastInMCU(x) < across THEN LastInMCU(x)
                                                           ELSE across - 1)]

iMCU_rows_saved ==
    IF pass_type # "main" THEN total_iMCU_rows(img)
    ELSE IF step = "compress" THEN iMCU_row_num + 1 ELSE iMCU_row_num

SavedInv ==
    Active /\ ~img.transcode /\ total_passes > 1 =>
        \A c \in DOMAIN img.comps :
            /\ DOMAIN whole_image[c] = 0 .. total_iMCU_rows(img) * img.comps[c].v - 1
            /\ \A y \in 0 .. iMCU_rows_saved * img.comps[c].v - 1 :
                  whole_image[c][y] = SavedRow(img, c, y)

SizeOfScan(n) == ScanSize(img, select_scan_parameters(img, n))

StreamInv ==
    /\ global_state = "START" /\ step = "app" => phase \in {"none", "ended"}
    /\ Writing => phase = "frame" /\ scans = scan_number + 1 /\ written = mcus
    /\ Active /\ ~Writing =>
          IF scan_number = 0 THEN phase = "header" /\ scans = 0
          ELSE phase = "frame" /\ scans = scan_number /\ written = SizeOfScan(scans - 1)

(* What the decoder has; and, once a scan is coded, all that it needs.     *)
TablesInv ==
    /\ huff = [t \in Slots |-> [for |-> huff[t].for, sent |-> huff[t].sent]]
    /\ \A t \in Slots : huff[t].sent \in BOOLEAN
    /\ told = [tables |-> [t \in Slots |-> told.tables[t]],
               restart_interval |-> told.restart_interval]
    /\ \A t \in Slots : huff[t].sent => told.tables[t] = huff[t].for
    /\ told.restart_interval = last_restart_interval

ToldInv ==
    Writing => /\ restart_interval = last_restart_interval
               /\ \A t \in CodedWith(img, scan) : huff[t].sent

CodesInv ==
    /\ FreshTables /\ Active /\ ~optimize_coding =>
          \A t \in Slots : huff[t].for = Standard
    /\ (InPass \/ step = "next") /\ optimize_coding /\ pass_type = "output" =>
          \A t \in CodedWith(img, scan) :
              huff[t].for = [image |-> images, scan |-> scan_number,
                             codes |-> ScanSize(img, scan)]

IInv == /\ TypeOK /\ PassesInv /\ PlaceInv /\ SavedInv /\ StreamInv
        /\ TablesInv /\ ToldInv /\ CodesInv

-----------------------------------------------------------------------------
(* Arithmetic.                                                             *)

(* What is less, multiplied, is less before.                               *)
LEMMA LessBefore ==
    ASSUME NEW a \in Int, NEW b \in Int, NEW m \in Nat \ {0}, a * m < b * m
    PROVE  a < b
OBVIOUS

LEMMA AtMost ==
    ASSUME NEW a \in Int, NEW b \in Int, NEW m \in Nat, a <= b
    PROVE  a * m <= b * m
OBVIOUS

LEMMA QuotientIs ==
    ASSUME NEW b \in Nat \ {0}, NEW q \in Nat, NEW r \in 0 .. b - 1
    PROVE  (q * b + r) \div b = q /\ (q * b + r) % b = r
OBVIOUS

(* Division has a quotient and a remainder.                                *)
LEMMA Divided ==
    ASSUME NEW a \in Nat, NEW b \in Nat \ {0}
    PROVE  /\ a \div b \in Nat /\ a % b \in 0 .. b - 1
           /\ a = (a \div b) * b + (a % b)
OBVIOUS

(* CeilDiv is the least number of parts of size b that hold a.             *)
LEMMA CeilDivIs ==
    ASSUME NEW a \in Nat \ {0}, NEW b \in Nat \ {0}
    PROVE  /\ CeilDiv(a, b) \in Nat \ {0}
           /\ (CeilDiv(a, b) - 1) * b < a /\ a <= CeilDiv(a, b) * b
<1> DEFINE n == a + b - 1
           q == n \div b
           r == n % b
<1>1. n \in Nat /\ n >= b
  OBVIOUS
<1>2. q \in Nat /\ r \in 0 .. b - 1 /\ n = q * b + r
  BY <1>1, Divided
<1>3. q # 0
  BY <1>1, <1>2
<1>4. (q - 1) * b = q * b - b
  BY <1>2
<1>5. (q - 1) * b < a /\ a <= q * b
  BY <1>2, <1>4
<1> QED BY <1>2, <1>3, <1>5 DEF CeilDiv

(* There is one number of groups that is enough and not too many.          *)
LEMMA CeilDivUnique ==
    ASSUME NEW a \in Nat \ {0}, NEW b \in Nat \ {0}, NEW q \in Nat,
           (q - 1) * b < a, a <= q * b
    PROVE  CeilDiv(a, b) = q
<1> DEFINE p == CeilDiv(a, b)
<1>1. p \in Nat \ {0} /\ (p - 1) * b < a /\ a <= p * b
  BY CeilDivIs
<1> HIDE DEF p
<1>2. (p - 1) * b < q * b /\ (q - 1) * b < p * b
  BY <1>1
<1>3. p - 1 < q /\ q - 1 < p
  BY <1>1, <1>2, LessBefore
<1> QED BY <1>1, <1>3 DEF p

(* What is left over fills the last part.                                  *)
LEMMA LeftIs ==
    ASSUME NEW n \in Nat \ {0}, NEW size \in Nat \ {0}
    PROVE  /\ Left(n, size) \in 1 .. size
           /\ n = (CeilDiv(n, size) - 1) * size + Left(n, size)
<1> DEFINE q == n \div size
           r == n % size
           p == CeilDiv(n, size)
<1>1. q \in Nat /\ r \in 0 .. size - 1 /\ n = q * size + r
  BY Divided
<1>2. CASE r = 0
  <2>1. n = q * size /\ (q - 1) * size = q * size - size
    BY <1>1, <1>2
  <2>2. (q - 1) * size < n /\ n <= q * size
    BY <2>1
  <2> HIDE DEF q
  <2>3. p = q
    BY <1>1, <2>2, CeilDivUnique
  <2>4. Left(n, size) = size
    BY <1>2 DEF Left
  <2> QED BY <1>1, <2>1, <2>3, <2>4
<1>3. CASE r # 0
  <2>1. ((q + 1) - 1) * size = q * size /\ (q + 1) * size = q * size + size
    BY <1>1
  <2>2. ((q + 1) - 1) * size < n /\ n <= (q + 1) * size /\ q + 1 \in Nat
    BY <1>1, <1>3, <2>1
  <2> HIDE DEF q
  <2>3. p = q + 1
    BY <2>2, CeilDivUnique
  <2>4. Left(n, size) = r
    BY <1>3 DEF Left
  <2> QED BY <1>1, <1>3, <2>1, <2>3, <2>4
<1> QED BY <1>2, <1>3

(* The blocks of a component, n * v of them to m * v, fall into as many    *)
(* groups of v as the image has groups of m.                               *)
LEMMA GroupsOfBlocks ==
    ASSUME NEW n \in Nat \ {0}, NEW m \in Nat \ {0}, NEW v \in Nat \ {0}
    PROVE  /\ CeilDiv(n * v, m) \in Nat \ {0}
           /\ CeilDiv(CeilDiv(n * v, m), v) = CeilDiv(n, m)
<1> DEFINE q == CeilDiv(n, m)
           p == CeilDiv(n * v, m)
<1>1. n * v \in Nat \ {0}
  OBVIOUS
<1>2. q \in Nat \ {0} /\ (q - 1) * m < n /\ n <= q * m
  BY CeilDivIs
<1>3. p \in Nat \ {0} /\ (p - 1) * m < n * v /\ n * v <= p * m
  BY <1>1, CeilDivIs
<1> HIDE DEF p, q
<1>4. n * v <= (q * v) * m
  <2>1. n * v <= (q * m) * v BY <1>2
  <2> QED BY <1>2, <2>1
<1>5. p <= q * v
  <2>1. (p - 1) * m < (q * v) * m
    <3>1. (p - 1) * m \in Int /\ n * v \in Int /\ (q * v) * m \in Int BY <1>2, <1>3
    <3> QED BY <1>3, <1>4, <3>1
  <2>2. p - 1 \in Int /\ q * v \in Int BY <1>2, <1>3
  <2>3. p - 1 < q * v BY <2>1, <2>2, LessBefore
  <2> QED BY <1>2, <1>3, <2>3
<1>6. (q - 1) * v < p
  <2>1. ((q - 1) * m) * v < n * v BY <1>2
  <2>2. ((q - 1) * v) * m < p * m BY <1>2, <1>3, <2>1
  <2>3. (q - 1) * v \in Int /\ p \in Int BY <1>2, <1>3
  <2> QED BY <2>2, <2>3, LessBefore
<1> QED BY <1>2, <1>3, <1>5, <1>6, CeilDivUnique DEF p, q

-----------------------------------------------------------------------------
(* Images and scans.                                                       *)

LEMMA MaxIs ==
    ASSUME NEW S \in SUBSET (1 .. 4), S # {}
    PROVE  MaxOf(S) \in 1 .. 4
<1>1. \E m \in S : \A n \in S : n <= m
  <2>1. CASE 4 \in S BY <2>1
  <2>2. CASE 4 \notin S /\ 3 \in S BY <2>2
  <2>3. CASE 4 \notin S /\ 3 \notin S /\ 2 \in S BY <2>3
  <2>4. CASE 4 \notin S /\ 3 \notin S /\ 2 \notin S
    <3>1. PICK m \in S : TRUE OBVIOUS
    <3>2. \A n \in S : n = 1 BY <2>4
    <3>3. \A n \in S : n <= m BY <3>2
    <3> QED BY <3>3
  <2> QED BY <2>1, <2>2, <2>3, <2>4
<1> QED BY <1>1 DEF MaxOf

(* An image has components, with the factors that initial_setup lets pass. *)
LEMMA ComponentsOf ==
    ASSUME NEW i, IsImage(i)
    PROVE  /\ Len(i.comps) \in Nat \ {0} /\ DOMAIN i.comps = 1 .. Len(i.comps)
           /\ \A c \in DOMAIN i.comps : i.comps[c] \in Components
<1>1. i.comps \in Seq(Components) /\ i.comps # << >>
  BY DEF IsImage
<1> QED BY <1>1

LEMMA FactorsOf ==
    ASSUME NEW i, IsImage(i)
    PROVE  /\ max_h(i) \in Nat \ {0} /\ max_v(i) \in Nat \ {0}
           /\ \A c \in DOMAIN i.comps : /\ i.comps[c].h \in Nat \ {0}
                                        /\ i.comps[c].v \in Nat \ {0}
<1>1. /\ \A c \in DOMAIN i.comps : i.comps[c].h \in 1 .. 4 /\ i.comps[c].v \in 1 .. 4
      /\ 1 \in DOMAIN i.comps
  BY ComponentsOf DEF Components
<1> DEFINE H == {i.comps[c].h : c \in DOMAIN i.comps}
           V == {i.comps[c].v : c \in DOMAIN i.comps}
<1>2. H \in SUBSET (1 .. 4) /\ H # {} /\ V \in SUBSET (1 .. 4) /\ V # {}
  BY <1>1
<1>3. MaxOf(H) \in 1 .. 4 /\ MaxOf(V) \in 1 .. 4
  BY <1>2, MaxIs
<1>4. max_h(i) \in 1 .. 4 /\ max_v(i) \in 1 .. 4
  BY <1>3 DEF max_h, max_v
<1> QED BY <1>1, <1>4

(* The sizes of a component, in blocks and in iMCUs.                       *)
LEMMA SizesOf ==
    ASSUME NEW i, IsImage(i), NEW c \in DOMAIN i.comps
    PROVE  /\ total_iMCU_rows(i) \in Nat \ {0}
           /\ CeilDiv(i.width, max_h(i)) \in Nat \ {0}
           /\ height_in_blocks(i, c) \in Nat \ {0}
           /\ width_in_blocks(i, c) \in Nat \ {0}
           /\ CeilDiv(height_in_blocks(i, c), i.comps[c].v) = total_iMCU_rows(i)
           /\ CeilDiv(width_in_blocks(i, c), i.comps[c].h) = CeilDiv(i.width, max_h(i))
<1>1. /\ max_h(i) \in Nat \ {0} /\ max_v(i) \in Nat \ {0}
      /\ i.comps[c].h \in Nat \ {0} /\ i.comps[c].v \in Nat \ {0}
  BY FactorsOf
<1>2. i.width \in Nat \ {0} /\ i.height \in Nat \ {0}
  BY DEF IsImage
<1>3. /\ CeilDiv(i.height, max_v(i)) \in Nat \ {0}
      /\ CeilDiv(i.width, max_h(i)) \in Nat \ {0}
  BY <1>1, <1>2, CeilDivIs
<1>4. /\ CeilDiv(i.height * i.comps[c].v, max_v(i)) \in Nat \ {0}
      /\ CeilDiv(CeilDiv(i.height * i.comps[c].v, max_v(i)), i.comps[c].v)
           = CeilDiv(i.height, max_v(i))
  BY <1>1, <1>2, GroupsOfBlocks
<1>5. /\ CeilDiv(i.width * i.comps[c].h, max_h(i)) \in Nat \ {0}
      /\ CeilDiv(CeilDiv(i.width * i.comps[c].h, max_h(i)), i.comps[c].h)
           = CeilDiv(i.width, max_h(i))
  BY <1>1, <1>2, GroupsOfBlocks
<1> QED BY <1>3, <1>4, <1>5 DEF total_iMCU_rows, height_in_blocks, width_in_blocks

(* There is an iMCU row.                                                   *)
LEMMA TotalOf ==
    ASSUME NEW i, IsImage(i)
    PROVE  total_iMCU_rows(i) \in Nat \ {0}
BY ComponentsOf, SizesOf

IsScan(i, s) == s \in ScansOf(i) /\ Valid(i, s)

(* Whatever its number, a scan is one of the image.                        *)
LEMMA ScanOf ==
    ASSUME NEW i, IsImage(i), NEW n \in Nat
    PROVE  num_scans(i) \in Nat \ {0} /\ IsScan(i, select_scan_parameters(i, n))
<1>1. i.scan_info \in Seq(ScansOf(i))
  BY DEF IsImage
<1>2. CASE i.scan_info = << >>
  <2>1. select_scan_parameters(i, n) = AllComponents(i) /\ num_scans(i) = 1
    BY <1>2 DEF select_scan_parameters, num_scans
  <2>2. [c \in DOMAIN i.comps |-> c] \in Seq(DOMAIN i.comps) \ {<< >>}
    <3> DEFINE all == [c \in DOMAIN i.comps |-> c]
    <3>1. PICK l \in Nat \ {0} : DOMAIN i.comps = 1 .. l
      BY ComponentsOf
    <3>2. all \in Seq(DOMAIN i.comps) /\ 1 \in DOMAIN all
      BY <3>1
    <3> QED BY <3>2
  <2>3. AllComponents(i) \in ScansOf(i)
    BY <2>2 DEF AllComponents, ScansOf
  <2>4. Valid(i, AllComponents(i))
    BY <1>2 DEF AllComponents, Valid, progressive_mode
  <2> QED BY <2>1, <2>3, <2>4 DEF IsScan
<1>3. CASE i.scan_info # << >>
  <2>1. num_scans(i) = Len(i.scan_info) /\ Len(i.scan_info) \in Nat \ {0}
    BY <1>1, <1>3 DEF num_scans
  <2>2. PICK k \in DOMAIN i.scan_info : select_scan_parameters(i, n) = i.scan_info[k]
    BY <1>1, <1>3, <2>1 DEF select_scan_parameters
  <2>3. i.scan_info[k] \in ScansOf(i) /\ Valid(i, i.scan_info[k])
    BY <1>1, <2>2 DEF IsImage
  <2> QED BY <2>1, <2>2, <2>3 DEF IsScan
<1> QED BY <1>2, <1>3

(* A scan has a component, and one only if it is not interleaved.          *)
LEMMA ScanComponents ==
    ASSUME NEW i, IsImage(i), NEW s, IsScan(i, s)
    PROVE  /\ Len(s.comps) \in Nat \ {0} /\ DOMAIN s.comps = 1 .. Len(s.comps)
           /\ 1 \in DOMAIN s.comps
           /\ \A k \in DOMAIN s.comps : s.comps[k] \in DOMAIN i.comps
           /\ ~interleaved(s) => \A k \in DOMAIN s.comps : k = 1
<1>1. s.comps \in Seq(DOMAIN i.comps) /\ s.comps # << >>
  BY DEF IsScan, ScansOf
<1>2. Len(s.comps) \in Nat \ {0} /\ DOMAIN s.comps = 1 .. Len(s.comps)
  BY <1>1
<1> QED BY <1>1, <1>2 DEF interleaved

LEMMA PerRow ==
    ASSUME NEW i, IsImage(i), NEW s, IsScan(i, s)
    PROVE  MCUs_per_row(i, s) \in Nat \ {0}
BY ScanComponents, SizesOf DEF MCUs_per_row

-----------------------------------------------------------------------------
(* The rows of MCUs.                                                       *)

RowsOfMCUs(i, s, r) ==
    IF interleaved(s) THEN 1
    ELSE IF r < total_iMCU_rows(i) - 1 THEN i.comps[s.comps[1]].v
    ELSE last_row_height(i, s, s.comps[1])

(* What the controller goes through adds up.                               *)
LEMMA RowsAddUp ==
    ASSUME NEW i, IsImage(i), NEW s, IsScan(i, s), NEW r \in Nat, r < total_iMCU_rows(i)
    PROVE  /\ RowsOfMCUs(i, s, r) \in Nat \ {0}
           /\ MCURowsBefore(i, s, r) \in Nat /\ MCURowsBefore(i, s, r + 1) \in Nat
           /\ MCURowsBefore(i, s, r + 1)
                = MCURowsBefore(i, s, r) + RowsOfMCUs(i, s, r)
<1> DEFINE T == total_iMCU_rows(i)
           c == s.comps[1]
           v == i.comps[c].v
           hb == height_in_blocks(i, c)
           left == Left(hb, v)
<1>1. c \in DOMAIN i.comps
  BY ScanComponents
<1>2. v \in Nat \ {0} /\ T \in Nat \ {0} /\ hb \in Nat \ {0} /\ CeilDiv(hb, v) = T
  BY <1>1, FactorsOf, SizesOf
<1>3. left \in 1 .. v /\ hb = (T - 1) * v + left
  BY <1>2, LeftIs
<1>4. CASE interleaved(s)
  BY <1>4 DEF RowsOfMCUs, MCURowsBefore
<1>5. CASE ~interleaved(s)
  <2>1. RowsOfMCUs(i, s, r) = IF r < T - 1 THEN v ELSE left
    BY <1>5 DEF RowsOfMCUs, last_row_height
  <2>2. /\ MCURowsBefore(i, s, r) = r * v
        /\ MCURowsBefore(i, s, r + 1) = IF r + 1 < T THEN (r + 1) * v ELSE hb
    BY <1>5 DEF MCURowsBefore
  <2>3. r < T
    OBVIOUS
  <2> HIDE DEF T, v, hb, left
  <2>4. r * v \in Nat /\ (r + 1) * v = r * v + v
    BY <1>2
  <2>5. CASE r < T - 1
    <3>1. r + 1 < T BY <1>2, <2>5
    <3> QED BY <1>2, <2>1, <2>2, <2>4, <2>5, <3>1
  <2>6. CASE ~(r < T - 1)
    <3>1. r = T - 1 BY <1>2, <2>3, <2>6
    <3>2. hb = r * v + left BY <1>3, <3>1
    <3>3. ~(r + 1 < T) BY <1>2, <3>1
    <3> QED BY <1>2, <1>3, <2>1, <2>2, <2>4, <2>6, <3>2, <3>3
  <2> QED BY <2>5, <2>6
<1> QED BY <1>4, <1>5

(* What comes before the end is the whole scan.                            *)
LEMMA AllRows ==
    ASSUME NEW i, IsImage(i), NEW s, IsScan(i, s)
    PROVE  /\ MCURowsBefore(i, s, 0) = 0
           /\ MCURowsBefore(i, s, total_iMCU_rows(i)) \in Nat
           /\ ScanSize(i, s) = MCURowsBefore(i, s, total_iMCU_rows(i)) * MCUs_per_row(i, s)
<1> DEFINE c == s.comps[1]
<1>1. c \in DOMAIN i.comps
  BY ScanComponents
<1>2. /\ total_iMCU_rows(i) \in Nat \ {0} /\ height_in_blocks(i, c) \in Nat \ {0}
      /\ i.comps[c].v \in Nat \ {0}
  BY <1>1, FactorsOf, SizesOf
<1>3. MCUs_per_row(i, s) \in Nat \ {0}
  BY PerRow
<1>4. MCURowsBefore(i, s, 0) = 0
  BY <1>2 DEF MCURowsBefore
<1>5. MCURowsBefore(i, s, total_iMCU_rows(i))
        = IF interleaved(s) THEN total_iMCU_rows(i) ELSE height_in_blocks(i, c)
  BY <1>2 DEF MCURowsBefore
<1>6. ScanSize(i, s) = MCUs_per_row(i, s) * MCURowsBefore(i, s, total_iMCU_rows(i))
  BY <1>5 DEF ScanSize, total_iMCU_rows
<1> QED BY <1>2, <1>3, <1>4, <1>5, <1>6

(* Before the last MCU row of the scan there is room for another MCU.      *)
LEMMA RowsBelow ==
    ASSUME NEW i, IsImage(i), NEW s, IsScan(i, s), NEW r \in Nat, r < total_iMCU_rows(i),
           NEW y \in Nat, y < RowsOfMCUs(i, s, r)
    PROVE  MCURowsBefore(i, s, r) + y < MCURowsBefore(i, s, total_iMCU_rows(i))
<1> DEFINE T == total_iMCU_rows(i)
           c == s.comps[1]
           v == i.comps[c].v
           hb == height_in_blocks(i, c)
           left == Left(hb, v)
<1>1. c \in DOMAIN i.comps
  BY ScanComponents
<1>2. v \in Nat \ {0} /\ T \in Nat \ {0} /\ hb \in Nat \ {0} /\ CeilDiv(hb, v) = T
  BY <1>1, FactorsOf, SizesOf
<1>3. left \in 1 .. v /\ hb = (T - 1) * v + left
  BY <1>2, LeftIs
<1>4. CASE interleaved(s)
  BY <1>2, <1>4 DEF RowsOfMCUs, MCURowsBefore
<1>5. CASE ~interleaved(s)
  <2>1. y < IF r < T - 1 THEN v ELSE left
    BY <1>5 DEF RowsOfMCUs, last_row_height
  <2>2. MCURowsBefore(i, s, r) = r * v /\ MCURowsBefore(i, s, T) = hb
    BY <1>5, <1>2 DEF MCURowsBefore
  <2>3. r < T
    OBVIOUS
  <2> HIDE DEF T, v, hb, left
  <2>4. ASSUME r < T - 1 PROVE r * v + y < hb
    <3>1. (r + 1) * v <= (T - 1) * v BY <1>2, <2>4, AtMost
    <3>2. (r + 1) * v = r * v + v /\ r * v \in Nat /\ (T - 1) * v \in Int BY <1>2
    <3> QED BY <1>2, <1>3, <2>1, <2>2, <2>4, <3>1, <3>2
  <2>5. ASSUME ~(r < T - 1) PROVE r * v + y < hb
    <3>1. r = T - 1 BY <1>2, <2>3, <2>5
    <3>2. hb = r * v + left /\ r * v \in Nat BY <1>2, <1>3, <3>1
    <3> QED BY <1>2, <1>3, <2>1, <2>2, <2>5, <3>2
  <2> QED BY <2>2, <2>4, <2>5 DEF T
<1> QED BY <1>4, <1>5

-----------------------------------------------------------------------------
(* The blocks of an MCU.                                                   *)

(* The columns of a component that an MCU has: h of them from x0 on, of    *)
(* which the first real_columns are within the component.                  *)
real_columns(i, s, c, col) ==
    IF col < MCUs_per_row(i, s) - 1 THEN MCU_width(i, s, c) ELSE last_col_width(i, s, c)

(* The last MCU of a row: how many of its columns are real.                *)
LEMMA Columns ==
    ASSUME NEW i, IsImage(i), NEW s, IsScan(i, s), NEW k \in DOMAIN s.comps,
           NEW c, c = s.comps[k], NEW col \in Nat, col < MCUs_per_row(i, s),
           NEW h, h = MCU_width(i, s, c), NEW across, across = width_in_blocks(i, c),
           NEW n, n = real_columns(i, s, c, col)
    PROVE  /\ h \in Nat \ {0} /\ across \in Nat \ {0} /\ n \in 1 .. h
           /\ col * h + n <= across
           /\ n < h => col * h + n = across
           /\ (col + 1) * h <= CeilDiv(across, h) * h
<1> DEFINE P == MCUs_per_row(i, s)
           left == Left(across, h)
<1>1. /\ c \in DOMAIN i.comps /\ P \in Nat \ {0}
      /\ ~interleaved(s) => c = s.comps[1]
  BY ScanComponents, PerRow
<1>2. across \in Nat \ {0} /\ i.comps[c].h \in Nat \ {0}
  BY <1>1, SizesOf, FactorsOf
<1>3. h \in Nat \ {0} /\ CeilDiv(across, h) = P
  <2>1. CASE interleaved(s)
    BY <1>1, <1>2, <2>1, SizesOf DEF MCU_width, MCUs_per_row
  <2>2. CASE ~interleaved(s)
    <3>1. h = 1 /\ P = across BY <1>1, <2>2 DEF MCU_width, MCUs_per_row
    <3>2. (across - 1) * 1 < across /\ across <= across * 1 BY <1>2
    <3> QED BY <1>2, <3>1, <3>2, CeilDivUnique
  <2> QED BY <2>1, <2>2
<1>4. left \in 1 .. h /\ across = (P - 1) * h + left
  BY <1>2, <1>3, LeftIs
<1>5. n = IF col < P - 1 THEN h ELSE left
  BY DEF real_columns, last_col_width
<1>6. col < P
  OBVIOUS
<1> HIDE DEF P, left
<1>7. (col + 1) * h = col * h + h /\ col * h \in Nat /\ (P - 1) * h \in Int
  BY <1>1, <1>3
<1>8. (col + 1) * h <= P * h
  BY <1>1, <1>3, <1>6, AtMost
<1>9. CASE col < P - 1
  <2>1. (col + 1) * h <= (P - 1) * h BY <1>1, <1>3, <1>9, AtMost
  <2> QED BY <1>2, <1>3, <1>4, <1>5, <1>7, <1>8, <1>9, <2>1
<1>10. CASE ~(col < P - 1)
  <2>1. col = P - 1 BY <1>1, <1>6, <1>10
  <2> QED BY <1>2, <1>3, <1>4, <1>5, <1>7, <1>8, <1>10, <2>1
<1> QED BY <1>9, <1>10

(* The same of its rows: v of them from y0 on, in MCU row y of iMCU row r. *)
real_lines(i, s, c, r, y) ==
    IF r < total_iMCU_rows(i) - 1 THEN MCU_height(i, s, c)
                                  ELSE last_row_height(i, s, c) - y

(* The last iMCU row: how many of its block rows are real.                 *)
LEMMA Lines ==
    ASSUME NEW i, IsImage(i), NEW s, IsScan(i, s), NEW k \in DOMAIN s.comps,
           NEW c, c = s.comps[k], NEW r \in Nat, r < total_iMCU_rows(i),
           NEW y \in Nat, y < RowsOfMCUs(i, s, r),
           NEW v, v = MCU_height(i, s, c), NEW high, high = height_in_blocks(i, c),
           NEW y0, y0 = r * i.comps[c].v + y, NEW n, n = real_lines(i, s, c, r, y)
    PROVE  /\ v \in Nat \ {0} /\ high \in Nat \ {0} /\ n \in Nat \ {0} /\ y0 \in Nat
           /\ y0 = (MCURowsBefore(i, s, r) + y) * v
           /\ y0 + v <= (r + 1) * i.comps[c].v
           /\ y0 + (IF n < v THEN n ELSE v) <= high
           /\ n < v => y0 + n = high
<1> DEFINE T == total_iMCU_rows(i)
           w == i.comps[c].v
           left == Left(high, w)
<1>1. /\ c \in DOMAIN i.comps
      /\ ~interleaved(s) => c = s.comps[1]
  BY ScanComponents
<1>2. high \in Nat \ {0} /\ w \in Nat \ {0} /\ T \in Nat \ {0} /\ CeilDiv(high, w) = T
  BY <1>1, SizesOf, FactorsOf
<1>3. left \in 1 .. w /\ high = (T - 1) * w + left
  BY <1>2, LeftIs
<1>4. n = IF r < T - 1 THEN v ELSE left - y
  BY DEF real_lines, last_row_height
<1>5. r < T /\ y0 = r * w + y
  OBVIOUS
<1>6. \/ v = w /\ y = 0 /\ MCURowsBefore(i, s, r) = r
      \/ v = 1 /\ y < (IF r < T - 1 THEN w ELSE left) /\ MCURowsBefore(i, s, r) = r * w
  BY <1>1, <1>2 DEF MCU_height, RowsOfMCUs, MCURowsBefore, last_row_height
<1> HIDE DEF T, w, left
<1>7. r * w \in Nat /\ (r + 1) * w = r * w + w /\ (T - 1) * w \in Int
  BY <1>2
<1>8. y0 = (MCURowsBefore(i, s, r) + y) * v
  <2>1. CASE v = w /\ y = 0 /\ MCURowsBefore(i, s, r) = r BY <1>2, <1>5, <1>7, <2>1
  <2>2. CASE v = 1 /\ MCURowsBefore(i, s, r) = r * w BY <1>2, <1>5, <1>7, <2>2
  <2> QED BY <1>6, <2>1, <2>2
<1>9. v \in Nat \ {0} /\ y0 \in Nat /\ y0 + v <= (r + 1) * w
  BY <1>2, <1>3, <1>5, <1>6, <1>7
<1>10. CASE r < T - 1
  <2>1. (r + 1) * w <= (T - 1) * w BY <1>2, <1>10, AtMost
  <2>2. n = v BY <1>4, <1>10
  <2>3. y0 + v <= high BY <1>2, <1>3, <1>7, <1>9, <2>1
  <2> QED BY <1>2, <1>8, <1>9, <2>2, <2>3 DEF w
<1>11. CASE ~(r < T - 1)
  <2>1. r = T - 1 BY <1>2, <1>5, <1>11
  <2>2. high = r * w + left BY <1>3, <2>1
  <2>3. n = left - y BY <1>4, <1>11
  <2>4. n \in Nat \ {0} /\ y0 + n = high BY <1>2, <1>3, <1>5, <1>6, <1>7, <1>11, <2>2, <2>3
  <2> QED BY <1>2, <1>8, <1>9, <2>4 DEF w
<1> QED BY <1>10, <1>11

(* The place of the MCU that comes next.                                   *)
Place ==
    /\ IsImage(img) /\ IsScan(img, scan)
    /\ iMCU_row_num \in Nat /\ iMCU_row_num < total_iMCU_rows(img)
    /\ yoffset \in Nat /\ yoffset < RowsOfMCUs(img, scan, iMCU_row_num)
    /\ MCU_col_num \in Nat /\ MCU_col_num < per_row
    /\ mcus = (MCURowsBefore(img, scan, iMCU_row_num) + yoffset) * per_row + MCU_col_num

(* The number of an MCU tells its place.                                   *)
LEMMA PlaceOfMCU ==
    ASSUME Place
    PROVE  /\ mcus \div per_row = MCURowsBefore(img, scan, iMCU_row_num) + yoffset
           /\ mcus % per_row = MCU_col_num
<1> DEFINE q == MCURowsBefore(img, scan, iMCU_row_num) + yoffset
           P == per_row
<1>1. q \in Nat /\ P \in Nat \ {0}
  BY RowsAddUp, PerRow DEF Place, per_row
<1>2. MCU_col_num \in 0 .. P - 1 /\ mcus = q * P + MCU_col_num
  BY <1>1 DEF Place
<1> HIDE DEF q, P
<1>3. mcus \div P = q /\ mcus % P = MCU_col_num
  BY <1>1, <1>2, QuotientIs
<1> QED BY <1>3 DEF q, P

(* Blocks made on the fly are those of the standard.                       *)
LEMMA MadeIsRef ==
    ASSUME Place, NEW k \in DOMAIN scan.comps, NEW c, c = scan.comps[k]
    PROVE  BlocksMade(c, yoffset, MCU_col_num) = RefBlocks(c, mcus)
<1> DEFINE h == MCU_width(img, scan, c)
           v == MCU_height(img, scan, c)
           across == width_in_blocks(img, c)
           high == height_in_blocks(img, c)
           y0 == iMCU_row_num * img.comps[c].v + yoffset
           x0 == MCU_col_num * h
           cols == real_columns(img, scan, c, MCU_col_num)
           lines == real_lines(img, scan, c, iMCU_row_num, yoffset)
           Least(a, b) == IF a < b THEN a ELSE b
<1>1. /\ h \in Nat \ {0} /\ across \in Nat \ {0} /\ cols \in 1 .. h
      /\ x0 + cols <= across
      /\ cols < h => x0 + cols = across
  BY Columns DEF Place, per_row
<1>2. /\ v \in Nat \ {0} /\ high \in Nat \ {0} /\ lines \in Nat \ {0} /\ y0 \in Nat
      /\ y0 = (MCURowsBefore(img, scan, iMCU_row_num) + yoffset) * v
      /\ y0 + (IF lines < v THEN lines ELSE v) <= high
      /\ lines < v => y0 + lines = high
  BY Lines DEF Place
<1>3. x0 \in Nat
  BY <1>1 DEF Place
<1>4. RefBlocks(c, mcus) =
        [yi \in 0 .. v - 1 |-> [xi \in 0 .. h - 1 |->
            IF y0 + yi > high - 1
              THEN Dummy(high - 1, Least(x0 + h - 1, across - 1))
            ELSE IF x0 + xi > across - 1 THEN Dummy(y0 + yi, across - 1)
            ELSE Real(y0 + yi, x0 + xi)]]
  BY <1>2, PlaceOfMCU DEF RefBlocks, per_row
<1>5. BlocksMade(c, yoffset, MCU_col_num) =
        [yi \in 0 .. v - 1 |-> [xi \in 0 .. h - 1 |->
            IF yi < lines
              THEN IF xi < cols THEN Real(y0 + yi, x0 + xi)
                   ELSE Dummy(y0 + yi, x0 + cols - 1)
              ELSE Dummy(y0 + lines - 1, x0 + cols - 1)]]
  BY DEF BlocksMade, real_columns, real_lines
<1> HIDE DEF h, v, across, high, y0, x0, cols, lines
<1>6. x0 + cols - 1 = Least(x0 + h - 1, across - 1)
  BY <1>1, <1>3
<1> HIDE DEF Least
<1>7. \A yi \in 0 .. v - 1, xi \in 0 .. h - 1 :
         (IF yi < lines
            THEN IF xi < cols THEN Real(y0 + yi, x0 + xi)
                 ELSE Dummy(y0 + yi, x0 + cols - 1)
            ELSE Dummy(y0 + lines - 1, x0 + cols - 1))
       = (IF y0 + yi > high - 1
            THEN Dummy(high - 1, Least(x0 + h - 1, across - 1))
          ELSE IF x0 + xi > across - 1 THEN Dummy(y0 + yi, across - 1)
          ELSE Real(y0 + yi, x0 + xi))
  <2> SUFFICES ASSUME NEW yi \in 0 .. v - 1, NEW xi \in 0 .. h - 1
               PROVE  (IF yi < lines
                         THEN IF xi < cols THEN Real(y0 + yi, x0 + xi)
                              ELSE Dummy(y0 + yi, x0 + cols - 1)
                         ELSE Dummy(y0 + lines - 1, x0 + cols - 1))
                    = (IF y0 + yi > high - 1
                         THEN Dummy(high - 1, Least(x0 + h - 1, across - 1))
                       ELSE IF x0 + xi > across - 1 THEN Dummy(y0 + yi, across - 1)
                       ELSE Real(y0 + yi, x0 + xi))
    OBVIOUS
  <2>1. CASE ~(yi < lines)
    <3>1. y0 + yi > high - 1 /\ y0 + lines - 1 = high - 1 BY <1>2, <2>1
    <3> QED BY <1>6, <2>1, <3>1
  <2>2. CASE yi < lines
    <3>1. ~(y0 + yi > high - 1) BY <1>2, <2>2
    <3>2. CASE xi < cols
      <4>1. ~(x0 + xi > across - 1) BY <1>1, <1>3, <3>2
      <4> QED BY <2>2, <3>1, <3>2, <4>1
    <3>3. CASE ~(xi < cols)
      <4>1. x0 + xi > across - 1 /\ x0 + cols - 1 = across - 1 BY <1>1, <1>3, <3>3
      <4> QED BY <2>2, <3>1, <3>3, <4>1
    <3> QED BY <3>2, <3>3
  <2> QED BY <2>1, <2>2
<1> QED BY <1>4, <1>5, <1>7

(* The virtual arrays have room for whole MCUs.                            *)
LEMMA PaddedIs ==
    ASSUME NEW i, IsImage(i), NEW c \in DOMAIN i.comps
    PROVE  /\ Padded(height_in_blocks(i, c), i.comps[c].v)
                = total_iMCU_rows(i) * i.comps[c].v
           /\ Padded(width_in_blocks(i, c), i.comps[c].h)
                = CeilDiv(i.width, max_h(i)) * i.comps[c].h
BY SizesOf DEF Padded

(* The first pass saves an iMCU row as SavedRow has it, and leaves the     *)
(* other rows alone.                                                       *)
LEMMA SavesRow ==
    ASSUME NEW i, IsImage(i), NEW c \in DOMAIN i.comps,
           NEW r \in Nat, r < total_iMCU_rows(i),
           DOMAIN whole_image[c] = 0 .. total_iMCU_rows(i) * i.comps[c].v - 1
    PROVE  /\ DOMAIN SaveRows(i, c, r) = DOMAIN whole_image[c]
           /\ \A y \in DOMAIN whole_image[c] :
                 SaveRows(i, c, r)[y] =
                    IF y \in r * i.comps[c].v .. (r + 1) * i.comps[c].v - 1
                      THEN SavedRow(i, c, y) ELSE whole_image[c][y]
<1> DEFINE T == total_iMCU_rows(i)
           w == i.comps[c].v
           h == i.comps[c].h
           high == height_in_blocks(i, c)
           across == width_in_blocks(i, c)
           left == Left(high, w)
           block_rows == IF r < T - 1 THEN w ELSE left
           Last(x) == (x \div h) * h + h - 1
           Row(y, x) == IF x < across THEN Real(y, x) ELSE Dummy(y, across - 1)
           Saved(y) == [x \in 0 .. Padded(across, h) - 1 |->
                          IF y < r * w + block_rows THEN Row(y, x)
                          ELSE Dummy(r * w + block_rows - 1, Row(y, Last(x)).x)]
<1>1. /\ w \in Nat \ {0} /\ T \in Nat \ {0} /\ high \in Nat \ {0}
      /\ across \in Nat \ {0} /\ CeilDiv(high, w) = T
  BY SizesOf, FactorsOf
<1>2. left \in 1 .. w /\ high = (T - 1) * w + left
  BY <1>1, LeftIs
<1>3. SaveRows(i, c, r) = [y \in DOMAIN whole_image[c] |->
                             IF y \notin r * w .. r * w + w - 1 THEN whole_image[c][y]
                             ELSE Saved(y)]
  BY DEF SaveRows
<1>4. \A y : SavedRow(i, c, y) =
         [x \in 0 .. Padded(across, h) - 1 |->
            IF y < high
              THEN Row(y, x)
              ELSE Dummy(high - 1, IF Last(x) < across THEN Last(x) ELSE across - 1)]
  BY DEF SavedRow
<1>5. r * w \in Nat /\ (r + 1) * w = r * w + w /\ (T - 1) * w \in Int
  BY <1>1
<1>6. \A y \in r * w .. r * w + w - 1 : /\ y < r * w + block_rows <=> y < high
                                        /\ ~(y < high) => r * w + block_rows - 1 = high - 1
  <2>1. r < T
    OBVIOUS
  <2> HIDE DEF T, w, high, left
  <2>2. CASE r < T - 1
    <3>1. (r + 1) * w <= (T - 1) * w BY <1>1, <2>2, AtMost
    <3> QED BY <1>1, <1>2, <1>5, <2>2, <3>1
  <2>3. CASE ~(r < T - 1)
    <3>1. r = T - 1 BY <1>1, <2>1, <2>3
    <3>2. high = r * w + left BY <1>2, <3>1
    <3> QED BY <1>1, <1>2, <1>5, <2>3, <3>2
  <2> QED BY <2>2, <2>3
<1>7. \A y, x : Row(y, Last(x)).x = IF Last(x) < across THEN Last(x) ELSE across - 1
  BY DEF Real, Dummy
<1>8. \A y \in r * w .. r * w + w - 1 : Saved(y) = SavedRow(i, c, y)
  <2> HIDE DEF T, w, h, high, across, left, block_rows, Last, Row
  <2> SUFFICES ASSUME NEW y \in r * w .. r * w + w - 1
               PROVE  Saved(y) = SavedRow(i, c, y)
    OBVIOUS
  <2>1. CASE y < high
    <3>1. y < r * w + block_rows BY <1>6, <2>1
    <3> QED BY <1>4, <2>1, <3>1
  <2>2. CASE ~(y < high)
    <3>1. ~(y < r * w + block_rows) /\ r * w + block_rows - 1 = high - 1 BY <1>6, <2>2
    <3>2. Saved(y) = [x \in 0 .. Padded(across, h) - 1 |->
                        Dummy(r * w + block_rows - 1, Row(y, Last(x)).x)]
      BY <3>1
    <3>3. SavedRow(i, c, y) =
            [x \in 0 .. Padded(across, h) - 1 |->
               Dummy(high - 1, IF Last(x) < across THEN Last(x) ELSE across - 1)]
      BY <1>4, <2>2
    <3> QED BY <1>7, <3>1, <3>2, <3>3
  <2> QED BY <2>1, <2>2
<1> HIDE DEF T, h, high, across, left, Saved
<1>9. (r + 1) * w - 1 = r * w + w - 1
  BY <1>1, <1>5
<1>10. \A y \in DOMAIN whole_image[c] :
          SaveRows(i, c, r)[y] = IF y \in r * w .. r * w + w - 1
                                   THEN SavedRow(i, c, y) ELSE whole_image[c][y]
  BY <1>3, <1>8
<1>11. DOMAIN SaveRows(i, c, r) = DOMAIN whole_image[c]
  BY <1>3
<1> QED BY <1>9, <1>10, <1>11

(* Saved blocks are those of the standard, too.                            *)
LEMMA SavedIsRef ==
    ASSUME Place, NEW k \in DOMAIN scan.comps, NEW c, c = scan.comps[k],
           \A y \in 0 .. (iMCU_row_num + 1) * img.comps[c].v - 1 :
              whole_image[c][y] = SavedRow(img, c, y)
    PROVE  BlocksSaved(c, yoffset, MCU_col_num) = RefBlocks(c, mcus)
<1> DEFINE h == MCU_width(img, scan, c)
           v == MCU_height(img, scan, c)
           across == width_in_blocks(img, c)
           high == height_in_blocks(img, c)
           y0 == iMCU_row_num * img.comps[c].v + yoffset
           x0 == MCU_col_num * h
           w == img.comps[c].h
           Last(x) == (x \div w) * w + w - 1
           Least(a, b) == IF a < b THEN a ELSE b
           cols == real_columns(img, scan, c, MCU_col_num)
           lines == real_lines(img, scan, c, iMCU_row_num, yoffset)
<1>1. /\ h \in Nat \ {0} /\ across \in Nat \ {0} /\ cols \in 1 .. h
      /\ x0 + cols <= across
      /\ (MCU_col_num + 1) * h <= CeilDiv(across, h) * h
  BY Columns DEF Place, per_row
<1>2. /\ v \in Nat \ {0} /\ high \in Nat \ {0} /\ lines \in Nat \ {0} /\ y0 \in Nat
      /\ y0 = (MCURowsBefore(img, scan, iMCU_row_num) + yoffset) * v
      /\ y0 + v <= (iMCU_row_num + 1) * img.comps[c].v
      /\ y0 + (IF lines < v THEN lines ELSE v) <= high
  BY Lines DEF Place
<1>3. x0 \in Nat /\ MCU_col_num \in Nat /\ x0 + h = (MCU_col_num + 1) * h
  BY <1>1 DEF Place
<1>4. c \in DOMAIN img.comps /\ w \in Nat \ {0}
  BY ScanComponents, FactorsOf DEF Place
<1>5. h = w \/ (h = 1 /\ v = 1)
  BY DEF MCU_width, MCU_height
<1>6. (MCU_col_num + 1) * h <= Padded(across, w)
  <2>1. CASE h = w
    BY <1>1, <2>1 DEF Padded
  <2>2. CASE h = 1
    <3>1. across <= CeilDiv(across, w) * w /\ CeilDiv(across, w) * w \in Nat
      <4>1. CeilDiv(across, w) \in Nat /\ across <= CeilDiv(across, w) * w
        BY <1>1, <1>4, CeilDivIs
      <4> QED BY <1>4, <4>1
    <3>2. (across - 1) * 1 < across /\ across <= across * 1 BY <1>1
    <3>3. CeilDiv(across, h) = across BY <1>1, <2>2, <3>2, CeilDivUnique
    <3> QED BY <1>1, <1>3, <2>2, <3>1, <3>3 DEF Padded
  <2> QED BY <1>5, <2>1, <2>2
<1>7. RefBlocks(c, mcus) =
        [yi \in 0 .. v - 1 |-> [xi \in 0 .. h - 1 |->
            IF y0 + yi > high - 1
              THEN Dummy(high - 1, Least(x0 + h - 1, across - 1))
            ELSE IF x0 + xi > across - 1 THEN Dummy(y0 + yi, across - 1)
            ELSE Real(y0 + yi, x0 + xi)]]
  BY <1>2, PlaceOfMCU DEF RefBlocks, per_row
<1>8. BlocksSaved(c, yoffset, MCU_col_num) =
        [yi \in 0 .. v - 1 |-> [xi \in 0 .. h - 1 |-> whole_image[c][y0 + yi][x0 + xi]]]
  BY DEF BlocksSaved
<1> HIDE DEF v, h, y0, x0, w
<1>9. \A yi \in 0 .. v - 1, xi \in 0 .. h - 1 :
         /\ y0 + yi \in 0 .. (iMCU_row_num + 1) * img.comps[c].v - 1
         /\ x0 + xi \in 0 .. Padded(across, w) - 1
  <2>1. (iMCU_row_num + 1) * img.comps[c].v \in Nat /\ Padded(across, w) \in Int
    <3>1. iMCU_row_num \in Nat /\ img.comps[c].v \in Nat \ {0}
      BY <1>4, FactorsOf DEF Place
    <3>2. CeilDiv(across, w) \in Nat BY <1>1, <1>4, CeilDivIs
    <3>3. CeilDiv(across, w) * w \in Nat BY <1>4, <3>2
    <3>4. (iMCU_row_num + 1) * img.comps[c].v \in Nat BY <3>1
    <3> QED BY <3>3, <3>4 DEF Padded
  <2> QED BY <1>1, <1>2, <1>3, <1>6, <2>1
<1>10. \A yi \in 0 .. v - 1, xi \in 0 .. h - 1 :
         whole_image[c][y0 + yi][x0 + xi] =
            IF y0 + yi < high
              THEN IF x0 + xi < across THEN Real(y0 + yi, x0 + xi)
                                       ELSE Dummy(y0 + yi, across - 1)
              ELSE Dummy(high - 1, IF Last(x0 + xi) < across THEN Last(x0 + xi)
                                                             ELSE across - 1)
  <2> SUFFICES ASSUME NEW yi \in 0 .. v - 1, NEW xi \in 0 .. h - 1
               PROVE  whole_image[c][y0 + yi][x0 + xi] =
                        IF y0 + yi < high
                          THEN IF x0 + xi < across THEN Real(y0 + yi, x0 + xi)
                                                   ELSE Dummy(y0 + yi, across - 1)
                          ELSE Dummy(high - 1, IF Last(x0 + xi) < across THEN Last(x0 + xi)
                                                                         ELSE across - 1)
    OBVIOUS
  <2>1. whole_image[c][y0 + yi] = SavedRow(img, c, y0 + yi) BY <1>9
  <2>2. x0 + xi \in 0 .. Padded(across, w) - 1 BY <1>9
  <2> QED BY <2>1, <2>2 DEF SavedRow, w
<1>11. \A yi \in 0 .. v - 1, xi \in 0 .. h - 1 :
          ~(y0 + yi < high) =>
             (IF Last(x0 + xi) < across THEN Last(x0 + xi) ELSE across - 1)
                = Least(x0 + h - 1, across - 1)
  <2> SUFFICES ASSUME NEW yi \in 0 .. v - 1, NEW xi \in 0 .. h - 1, ~(y0 + yi < high)
               PROVE  (IF Last(x0 + xi) < across THEN Last(x0 + xi) ELSE across - 1)
                         = Least(x0 + h - 1, across - 1)
    OBVIOUS
  <2>1. v # 1
    BY <1>2
  <2>2. h = w
    BY <1>5, <2>1
  <2>3. x0 = MCU_col_num * w
    BY <2>2 DEF x0, h
  <2>4. (x0 + xi) \div w = MCU_col_num
    BY <1>3, <1>4, <2>2, <2>3, QuotientIs
  <2>5. Last(x0 + xi) = x0 + h - 1
    BY <1>3, <1>4, <2>2, <2>3, <2>4
  <2> HIDE DEF Last
  <2> QED BY <1>1, <1>3, <2>5
<1> HIDE DEF high, across, Last, Least
<1>12. \A yi \in 0 .. v - 1, xi \in 0 .. h - 1 :
          whole_image[c][y0 + yi][x0 + xi] =
             IF y0 + yi > high - 1
               THEN Dummy(high - 1, Least(x0 + h - 1, across - 1))
             ELSE IF x0 + xi > across - 1 THEN Dummy(y0 + yi, across - 1)
             ELSE Real(y0 + yi, x0 + xi)
  <2> SUFFICES ASSUME NEW yi \in 0 .. v - 1, NEW xi \in 0 .. h - 1
               PROVE  whole_image[c][y0 + yi][x0 + xi] =
                        IF y0 + yi > high - 1
                          THEN Dummy(high - 1, Least(x0 + h - 1, across - 1))
                        ELSE IF x0 + xi > across - 1 THEN Dummy(y0 + yi, across - 1)
                        ELSE Real(y0 + yi, x0 + xi)
    OBVIOUS
  <2>1. /\ y0 + yi > high - 1 <=> ~(y0 + yi < high)
        /\ x0 + xi > across - 1 <=> ~(x0 + xi < across)
    BY <1>1, <1>2, <1>3
  <2> QED BY <1>10, <1>11, <2>1
<1> QED BY <1>7, <1>8, <1>12

-----------------------------------------------------------------------------
(* What the invariant says of the image and of the scan.                   *)

LEMMA NoImageIs == IsImage(NoImage)
<1> DEFINE c == [h |-> 1, v |-> 1, dc |-> 0, ac |-> 0]
<1>1. c \in Components
  BY DEF Components
<1>2. <<c>> \in Seq(Components) \ {<< >>}
  BY <1>1
<1>3. NoImage.scan_info = << >> /\ << >> \in Seq(ScansOf(NoImage))
  BY DEF NoImage
<1>4. NoImage.comps = <<c>>
  BY DEF NoImage
<1> QED BY <1>2, <1>3, <1>4 DEF IsImage, NoImage

LEMMA ImageNow ==
    ASSUME TypeOK
    PROVE  IsImage(img) /\ total_iMCU_rows(img) \in Nat \ {0} /\ num_scans(img) \in Nat \ {0}
<1>1. IsImage(img)
  BY ImagesAssumption, NoImageIs DEF TypeOK
<1> QED BY <1>1, TotalOf, ScanOf

(* In a pass the scan is one of the image.                                 *)
LEMMA ScanNow ==
    ASSUME TypeOK, PassesInv, InPass
    PROVE  /\ Active /\ IsImage(img) /\ IsScan(img, scan)
           /\ per_row \in Nat \ {0} /\ total_iMCU_rows(img) \in Nat \ {0}
           /\ rows = RowsOfMCUs(img, scan, iMCU_row_num)
<1>1. IsImage(img) /\ total_iMCU_rows(img) \in Nat \ {0}
  BY ImageNow
<1>2. Active
  BY DEF PassesInv, InPass, Active, Compressing
<1>3. scan_number \in Nat /\ scan = select_scan_parameters(img, scan_number)
  <2>1. scan_number \in 0 .. num_scans(img) BY DEF TypeOK
  <2>2. num_scans(img) \in Nat BY ImageNow
  <2>3. scan = select_scan_parameters(img, scan_number) BY DEF PassesInv
  <2> QED BY <2>1, <2>2, <2>3
<1>4. IsScan(img, scan)
  BY <1>1, <1>3, ScanOf
<1>5. per_row \in Nat \ {0}
  BY <1>1, <1>4, PerRow DEF per_row
<1>6. rows = RowsOfMCUs(img, scan, iMCU_row_num)
  BY DEF rows, MCU_rows_per_iMCU_row, RowsOfMCUs
<1> QED BY <1>1, <1>2, <1>4, <1>5, <1>6

(* The tables of a scan are among those that its header brings.            *)
LEMMA HeaderBrings ==
    ASSUME NEW i, IsImage(i), NEW s, IsScan(i, s)
    PROVE  CodedWith(i, s) \subseteq HeaderTables(i, s) \cap Slots
<1> DEFINE C == {i.comps[s.comps[k]] : k \in DOMAIN s.comps}
           dc == {<<"dc", c.dc>> : c \in C}
           ac == {<<"ac", c.ac>> : c \in C}
<1>1. \A c \in C : c.dc \in {0, 1} /\ c.ac \in {0, 1}
  BY ScanComponents, ComponentsOf DEF Components
<1>2. dc \subseteq Slots /\ ac \subseteq Slots
  BY <1>1 DEF Slots
<1>3. CodedWith(i, s) = IF i.arith THEN {}
                        ELSE IF ~progressive_mode(i) THEN dc \cup ac
                        ELSE IF s.Ss # 0 THEN ac
                        ELSE IF s.Ah = 0 THEN dc ELSE {}
  BY DEF CodedWith
<1>4. HeaderTables(i, s) = IF i.arith THEN {}
                           ELSE (IF s.Ss = 0 /\ s.Ah = 0 THEN dc ELSE {})
                                  \cup (IF s.Se # 0 THEN ac ELSE {})
  BY DEF HeaderTables
<1>5. /\ s.Ss \in 0 .. 63 /\ s.Se \in 0 .. 63
      /\ progressive_mode(i) => s.Ss <= s.Se
      /\ ~progressive_mode(i) => s.Ss = 0 /\ s.Se = 63 /\ s.Ah = 0
  BY DEF IsScan, ScansOf, Valid
<1> HIDE DEF dc, ac
<1>6. CASE i.arith BY <1>3, <1>6
<1>7. CASE ~i.arith /\ ~progressive_mode(i) BY <1>2, <1>3, <1>4, <1>5, <1>7
<1>8. CASE ~i.arith /\ progressive_mode(i)
  <2>1. s.Ss # 0 => s.Se # 0 BY <1>5, <1>8
  <2> QED BY <1>2, <1>3, <1>4, <1>8, <2>1
<1> QED BY <1>6, <1>7, <1>8

(* Once the headers are written the decoder has what the scan needs.       *)
LEMMA HeadersTell ==
    ASSUME TablesInv, NEW i, IsImage(i), NEW s, IsScan(i, s), NEW interval,
           WriteHeaders(huff, i, s, interval)
    PROVE  /\ TablesInv' /\ last_restart_interval' = interval
           /\ \A t \in CodedWith(i, s) : huff'[t].sent
           /\ \A t \in Slots : huff'[t].for = huff[t].for
<1> DEFINE new == {t \in HeaderTables(i, s) : ~huff[t].sent}
<1>1. /\ told' = [tables |-> [t \in Slots |-> IF t \in new
                                THEN huff[t].for ELSE told.tables[t]],
                  restart_interval |-> IF interval # last_restart_interval
                                         THEN interval ELSE told.restart_interval]
      /\ last_restart_interval' = interval
      /\ huff' = [t \in Slots |-> [huff[t] EXCEPT !.sent = @ \/ t \in new]]
  BY DEF WriteHeaders
<1>2. \A t \in Slots : huff[t] = [for |-> huff[t].for, sent |-> huff[t].sent]
  BY DEF TablesInv
<1>3. \A t \in Slots : huff'[t] = [for |-> huff[t].for, sent |-> huff[t].sent \/ t \in new]
  <2> SUFFICES ASSUME NEW t \in Slots
               PROVE  huff'[t] = [for |-> huff[t].for, sent |-> huff[t].sent \/ t \in new]
    OBVIOUS
  <2> DEFINE b == huff[t].sent \/ t \in new
  <2>1. huff'[t] = [huff[t] EXCEPT !.sent = b]
    BY <1>1, Zenon
  <2>2. huff[t] = [for |-> huff[t].for, sent |-> huff[t].sent]
    BY <1>2
  <2> HIDE DEF b
  <2>3. huff'[t] = [for |-> huff[t].for, sent |-> b]
    BY <2>1, <2>2
  <2> QED BY <2>3 DEF b
<1>4. \A t \in Slots : /\ huff'[t].for = huff[t].for
                       /\ huff'[t].sent = (huff[t].sent \/ t \in new)
  <2> SUFFICES ASSUME NEW t \in Slots
               PROVE  /\ huff'[t].for = huff[t].for
                      /\ huff'[t].sent = (huff[t].sent \/ t \in new)
    OBVIOUS
  <2> DEFINE b == huff[t].sent \/ t \in new
  <2>1. huff'[t] = [for |-> huff[t].for, sent |-> b] BY <1>3
  <2> HIDE DEF b
  <2>2. huff'[t].for = huff[t].for /\ huff'[t].sent = b BY <2>1
  <2> QED BY <2>2 DEF b
<1>5. \A t \in Slots : told'.tables[t] = IF t \in new THEN huff[t].for ELSE told.tables[t]
  BY <1>1
<1>6. huff' = [t \in Slots |-> [for |-> huff'[t].for, sent |-> huff'[t].sent]]
  BY <1>1, <1>3, <1>4
<1>7. told' = [tables |-> [t \in Slots |-> told'.tables[t]],
               restart_interval |-> told'.restart_interval]
  BY <1>1
<1>8. told'.restart_interval = interval
  BY <1>1 DEF TablesInv
<1>9. \A t \in CodedWith(i, s) : t \in Slots /\ t \in HeaderTables(i, s)
  BY HeaderBrings
<1>10. \A t \in CodedWith(i, s) : huff'[t].sent
  BY <1>4, <1>9
<1>11. \A t \in Slots : huff'[t].sent \in BOOLEAN
  BY <1>4
<1>12. \A t \in Slots : huff'[t].sent => told'.tables[t] = huff'[t].for
  BY <1>4, <1>5 DEF TablesInv
<1>13. TablesInv'
  BY <1>1, <1>6, <1>7, <1>8, <1>11, <1>12 DEF TablesInv
<1> QED BY <1>1, <1>4, <1>10, <1>13

(* Nothing is done to the tables.                                          *)
LEMMA TablesStay ==
    ASSUME TablesInv, UNCHANGED <<huff, told, last_restart_interval>>
    PROVE  TablesInv'
BY DEF TablesInv

-----------------------------------------------------------------------------
(* The steps.                                                              *)

(* An error leaves all as it is.                                           *)
LEMMA FailureKeeps ==
    ASSUME IInv, Fail,
           UNCHANGED <<global_state, params, master, setup, loops, iMCU_row_num,
              whole_image, mcus, huff, last_restart_interval, stream, told>>,
           mcu_ctr' \in Nat, MCU_vert_offset' \in Nat
    PROVE  IInv'
<1>1. step' = "failed"
  BY DEF Fail
<1>2. TypeOK'
  BY <1>1 DEF IInv, TypeOK, InLibrary, params, master, setup, loops, stream
<1>3. TablesInv'
  BY TablesStay DEF IInv
<1>4. PassesInv' /\ PlaceInv' /\ SavedInv' /\ StreamInv' /\ ToldInv' /\ CodesInv'
  BY <1>1 DEF PassesInv, PlaceInv, SavedInv, StreamInv, ToldInv, CodesInv, Active, InPass,
              Writing, Compressing
<1> QED BY <1>2, <1>3, <1>4 DEF IInv

LEMMA MarkerKeeps ==
    ASSUME IInv, jpeg_write_marker
    PROVE  IInv'
<1>1. UNCHANGED <<global_state, step, params, master, setup, coef, loops,
          whole_image, mcus, huff, last_restart_interval, told, phase, scans, written>>
  BY DEF jpeg_write_marker
<1>2. TypeOK'
  BY <1>1 DEF jpeg_write_marker, IInv, TypeOK, InLibrary, params, master, setup, coef, loops
<1>3. PassesInv'
  BY <1>1 DEF IInv, PassesInv, Active, InPass, Compressing, params, master, setup
<1>4. PlaceInv'
  BY <1>1 DEF IInv, PlaceInv, InPass, Compressing, params, master, setup, coef, loops,
              y_now, x_now, per_row, rows, MCU_rows_per_iMCU_row
<1>5. SavedInv'
  BY <1>1 DEF IInv, SavedInv, Active, params, master, coef, iMCU_rows_saved
<1>6. StreamInv'
  BY <1>1 DEF IInv, StreamInv, Active, Writing, InPass, Compressing, params, master, setup,
              SizeOfScan
<1>7. TablesInv' /\ ToldInv'
  BY <1>1, TablesStay DEF IInv, ToldInv, Writing, InPass, Compressing, params, master, setup
<1>8. CodesInv'
  BY <1>1 DEF IInv, CodesInv, Active, InPass, Compressing, params, master, setup
<1> QED BY <1>2, <1>3, <1>4, <1>5, <1>6, <1>7, <1>8 DEF IInv

LEMMA StutterKeeps ==
    ASSUME IInv, UNCHANGED vars
    PROVE  IInv'
<1>1. UNCHANGED <<global_state, step, params, master, setup, coef, loops,
          whole_image, mcus, huff, last_restart_interval, told, stream>>
  BY DEF vars
<1>2. TypeOK'
  BY <1>1 DEF IInv, TypeOK, InLibrary, params, master, setup, coef, loops, stream
<1>3. PassesInv'
  BY <1>1 DEF IInv, PassesInv, Active, InPass, Compressing, params, master, setup
<1>4. PlaceInv'
  BY <1>1 DEF IInv, PlaceInv, InPass, Compressing, params, master, setup, coef, loops,
              y_now, x_now, per_row, rows, MCU_rows_per_iMCU_row
<1>5. SavedInv'
  BY <1>1 DEF IInv, SavedInv, Active, params, master, coef, iMCU_rows_saved
<1>6. StreamInv'
  BY <1>1 DEF IInv, StreamInv, Active, Writing, InPass, Compressing, params, master, setup,
              SizeOfScan, stream
<1>7. TablesInv' /\ ToldInv'
  BY <1>1, TablesStay DEF IInv, ToldInv, Writing, InPass, Compressing, params, master, setup
<1>8. CodesInv'
  BY <1>1 DEF IInv, CodesInv, Active, InPass, Compressing, params, master, setup
<1> QED BY <1>2, <1>3, <1>4, <1>5, <1>6, <1>7, <1>8 DEF IInv

LEMMA Shapes ==
    ASSUME TablesInv
    PROVE  DOMAIN huff = Slots /\ DOMAIN told.tables = Slots
BY DEF TablesInv

(* No pass is made beyond the last.                                        *)
LEMMA PassesLeft ==
    ASSUME TypeOK, PassesInv, InPass
    PROVE  pass_number \in Nat /\ scan_number \in Nat /\ pass_number < total_passes
<1>1. num_scans(img) \in Nat
  BY ImageNow
<1>2. scan_number \in Nat
  <2>1. scan_number \in 0 .. num_scans(img) BY DEF TypeOK
  <2> QED BY <1>1, <2>1
<1>3. /\ scan_number < num_scans(img)
      /\ total_passes = (IF optimize_coding THEN 2 ELSE 1) * num_scans(img)
      /\ pass_number = IF ~optimize_coding THEN scan_number
                       ELSE IF pass_type = "output" THEN 2 * scan_number + 1
                       ELSE 2 * scan_number
  BY ScanNow DEF PassesInv
<1> QED BY <1>1, <1>2, <1>3

(* pass_startup: the headers of the first scan.                            *)
LEMMA StartupKeeps ==
    ASSUME IInv, pass_startup
    PROVE  IInv'
<1>1. /\ step = "app" /\ global_state = "SCANNING" /\ call_pass_startup
      /\ call_pass_startup' = FALSE
      /\ WriteHeaders(huff, img, scan, restart_interval)
      /\ UNCHANGED <<global_state, step, params, setup, coef, loops, mcus,
            whole_image, pass_type, pass_number, scan_number, total_passes, is_last_pass>>
  BY DEF pass_startup
<1>2. TypeOK /\ PassesInv /\ InPass /\ Active
  BY <1>1 DEF IInv, InPass, Active
<1>3. IsImage(img) /\ IsScan(img, scan)
  BY <1>2, ScanNow
<1>4. pass_type = "main" /\ ~gather /\ scan_number = 0
  BY <1>1, <1>2 DEF PassesInv
<1>5. /\ TablesInv' /\ last_restart_interval' = restart_interval
      /\ \A t \in CodedWith(img, scan) : huff'[t].sent
      /\ \A t \in Slots : huff'[t].for = huff[t].for
  BY <1>1, <1>3, HeadersTell DEF IInv
<1>6. phase' = "frame" /\ scans' = scans + 1 /\ written' = 0 /\ marked' = marked
  BY <1>1 DEF WriteHeaders
<1>7. TypeOK'
  <2>1. DOMAIN huff' = Slots /\ DOMAIN told'.tables = Slots
    BY <1>5 DEF TablesInv
  <2>2. restart_interval \in Nat /\ scans \in Nat
    BY <1>2 DEF TypeOK
  <2>3. /\ last_restart_interval' \in Nat /\ scans' \in Nat /\ written' \in Nat
        /\ phase' = "frame" /\ marked' = marked
    BY <1>5, <1>6, <2>2
  <2>4. UNCHANGED <<global_state, step, params, setup, coef, loops, mcus, pass_type,
                    pass_number, scan_number, total_passes, is_last_pass>>
    BY <1>1
  <2>5. TypeOK /\ call_pass_startup' = FALSE
    BY <1>1, <1>2
  <2> QED BY <2>1, <2>3, <2>4, <2>5 DEF TypeOK, InLibrary, params, setup, coef, loops
<1>8. PassesInv'
  BY <1>1, <1>2 DEF PassesInv, Active, InPass, Compressing, params, setup
<1>9. PlaceInv'
  BY <1>1 DEF IInv, PlaceInv, InPass, Compressing, params, setup, coef, loops,
              y_now, x_now, per_row, rows, MCU_rows_per_iMCU_row
<1>10. SavedInv'
  BY <1>1 DEF IInv, SavedInv, Active, params, coef, iMCU_rows_saved
<1>11. StreamInv'
  <2>1. scans = 0
    BY <1>1, <1>2, <1>4 DEF IInv, StreamInv, Writing
  <2>2. mcus = 0
    BY <1>1, <1>2 DEF IInv, PlaceInv
  <2>3. Writing' /\ scan_number' = 0 /\ mcus' = 0 /\ global_state' = "SCANNING"
    BY <1>1, <1>4, <2>2 DEF Writing, InPass, setup
  <2> QED BY <1>6, <2>1, <2>3 DEF StreamInv
<1>12. ToldInv'
  <2>1. restart_interval' = restart_interval /\ img' = img /\ scan' = scan
    BY <1>1 DEF params, setup
  <2> QED BY <1>5, <2>1 DEF ToldInv
<1>13. CodesInv'
  <2>1. \A t \in CodedWith(img, scan) : t \in Slots
    BY <1>3, HeaderBrings
  <2>2. pass_type' = "main"
    BY <1>1, <1>4
  <2>3. Active' = Active /\ optimize_coding' = optimize_coding
    BY <1>1 DEF Active, params
  <2> QED BY <1>5, <2>2, <2>3 DEF IInv, CodesInv
<1> QED BY <1>5, <1>7, <1>8, <1>9, <1>10, <1>11, <1>12, <1>13 DEF IInv

(* A call begins, or goes on, where the last one was suspended.            *)
LEMMA CallKeeps ==
    ASSUME IInv, CallCompress
    PROVE  IInv'
<1>1. /\ \/ step = "app" /\ global_state = "SCANNING" /\ ~call_pass_startup
         \/ step = "pass"
      /\ iMCU_row_num < total_iMCU_rows(img)
      /\ step' = IF step = "app" THEN "compress" ELSE "compress in pass"
      /\ yoffset' = MCU_vert_offset /\ MCU_col_num' = mcu_ctr
      /\ UNCHANGED <<global_state, params, master, setup, coef, mcus, huff,
                     last_restart_interval, stream, told>>
  BY DEF CallCompress
<1>2. TypeOK /\ PassesInv /\ InPass
  BY <1>1 DEF IInv, InPass
<1>3. /\ Active /\ IsImage(img) /\ total_iMCU_rows(img) \in Nat
      /\ iMCU_row_num \in Nat /\ iMCU_row_num < total_iMCU_rows(img)
      /\ iMCU_row_num # total_iMCU_rows(img) /\ ~call_pass_startup
  <2>1. Active /\ IsImage(img) /\ total_iMCU_rows(img) \in Nat
    BY <1>2, ScanNow
  <2>2. iMCU_row_num \in 0 .. total_iMCU_rows(img)
    BY <1>2 DEF TypeOK
  <2>3. ~call_pass_startup
    BY <1>1, <1>2, <2>1 DEF PassesInv
  <2>4. iMCU_row_num < total_iMCU_rows(img)
    BY DEF CallCompress
  <2> QED BY <2>1, <2>2, <2>3, <2>4
<1>4. /\ InPass' /\ Active' /\ Compressing' /\ ~Compressing
      /\ Writing' = Writing
  BY <1>1, <1>2, <1>3 DEF InPass, Active, Compressing, Writing, setup, master
<1>5. TypeOK'
  <2>1. pass_number < total_passes /\ scan_number < num_scans(img)
    BY <1>2, PassesLeft DEF PassesInv
  <2> QED BY <1>1, <1>2, <2>1 DEF TypeOK, InLibrary, params, master, setup, coef, stream
<1>6. PassesInv'
  BY <1>1, <1>2, <1>3, <1>4 DEF PassesInv, Active, InPass, params, master, setup, TypeOK
<1>7. PlaceInv'
  <2>1. /\ iMCU_row_num' = iMCU_row_num /\ img' = img /\ scan' = scan /\ mcus' = mcus
        /\ per_row' = per_row /\ rows' = rows
        /\ y_now' = y_now /\ x_now' = x_now /\ ~call_pass_startup'
    BY <1>1, <1>3, <1>4 DEF params, setup, master, coef, per_row, rows,
                            MCU_rows_per_iMCU_row, y_now, x_now
  <2> QED BY <1>2, <1>3, <1>4, <2>1 DEF IInv, PlaceInv
<1>8. SavedInv'
  <2> SUFFICES ASSUME ~img.transcode, total_passes > 1, NEW c \in DOMAIN img.comps
               PROVE  /\ DOMAIN whole_image'[c]
                            = 0 .. total_iMCU_rows(img) * img.comps[c].v - 1
                      /\ \A y \in 0 .. iMCU_rows_saved' * img.comps[c].v - 1 :
                            whole_image'[c][y] = SavedRow(img, c, y)
    <3>1. img' = img /\ total_passes' = total_passes
      BY <1>1 DEF params, master
    <3> QED BY <3>1 DEF SavedInv
  <2>5. whole_image' = IF first_pass
                         THEN [d \in DOMAIN img.comps |-> SaveRows(img, d, iMCU_row_num)]
                         ELSE whole_image
    BY DEF CallCompress
  <2> DEFINE r == iMCU_row_num
             w == img.comps[c].v
  <2>1. /\ DOMAIN whole_image[c] = 0 .. total_iMCU_rows(img) * w - 1
        /\ \A y \in 0 .. iMCU_rows_saved * w - 1 :
              whole_image[c][y] = SavedRow(img, c, y)
    BY <1>3 DEF IInv, SavedInv
  <2>2. w \in Nat \ {0}
    BY <1>3, FactorsOf
  <2>3. CASE pass_type = "main"
    <3>1. step = "app" /\ step' = "compress" /\ pass_type' = "main"
      BY <1>1, <1>2, <1>3, <2>3 DEF PassesInv, master
    <3>2. iMCU_rows_saved = r /\ iMCU_rows_saved' = r + 1
      BY <1>1, <2>3, <3>1 DEF iMCU_rows_saved, coef
    <3>3. whole_image'[c] = SaveRows(img, c, r)
      BY <2>3, <2>5, Zenon DEF first_pass
    <3>4. /\ DOMAIN SaveRows(img, c, r) = DOMAIN whole_image[c]
          /\ \A y \in DOMAIN whole_image[c] :
                SaveRows(img, c, r)[y] =
                   IF y \in r * w .. (r + 1) * w - 1
                     THEN SavedRow(img, c, y) ELSE whole_image[c][y]
      BY <1>3, <2>1, SavesRow
    <3>5. \A y \in 0 .. (r + 1) * w - 1 :
             /\ y \in 0 .. total_iMCU_rows(img) * w - 1
             /\ y \in r * w .. (r + 1) * w - 1 \/ y \in 0 .. r * w - 1
      <4>1. (r + 1) * w <= total_iMCU_rows(img) * w
        <5>1. r + 1 <= total_iMCU_rows(img) /\ r + 1 \in Int BY <1>3
        <5> QED BY <1>3, <2>2, <5>1, AtMost
      <4>2. r * w \in Nat /\ (r + 1) * w \in Nat /\ total_iMCU_rows(img) * w \in Nat
        BY <1>3, <2>2
      <4> QED BY <4>1, <4>2
    <3> QED BY <2>1, <3>2, <3>3, <3>4, <3>5
  <2>4. CASE pass_type # "main"
    <3>1. whole_image' = whole_image
      BY <2>4, <2>5, Zenon DEF first_pass
    <3>2. iMCU_rows_saved' = iMCU_rows_saved
      BY <1>1, <2>4 DEF iMCU_rows_saved, params, master
    <3> QED BY <2>1, <3>1, <3>2
  <2> QED BY <2>3, <2>4
<1>9. StreamInv'
  BY <1>1, <1>3, <1>4 DEF IInv, StreamInv, params, master, stream, SizeOfScan
<1>10. TablesInv' /\ ToldInv'
  BY <1>1, <1>4, TablesStay DEF IInv, ToldInv, params, setup
<1>11. CodesInv'
  BY <1>1, <1>2, <1>3, <1>4 DEF IInv, CodesInv, params, master, setup
<1> QED BY <1>5, <1>6, <1>7, <1>8, <1>9, <1>10, <1>11 DEF IInv

(* Where the next MCU is, while there is one in the iMCU row.              *)
LEMMA NextMCU ==
    ASSUME IInv, Compressing
    PROVE  /\ InPass /\ Active /\ ~call_pass_startup
           /\ iMCU_row_num \in Nat /\ iMCU_row_num < total_iMCU_rows(img)
           /\ IF MoreMCUs THEN Place
              ELSE yoffset = rows /\ MCU_col_num = 0
<1>1. InPass /\ TypeOK /\ PassesInv
  BY DEF InPass, IInv
<1>2. Active /\ total_iMCU_rows(img) \in Nat /\ per_row \in Nat \ {0}
      /\ IsImage(img) /\ IsScan(img, scan)
      /\ rows = RowsOfMCUs(img, scan, iMCU_row_num)
  BY <1>1, ScanNow
<1>3. ~call_pass_startup
  BY <1>1, <1>2 DEF PassesInv, Compressing
<1>4. iMCU_row_num \in Nat /\ iMCU_row_num < total_iMCU_rows(img)
  <2>1. iMCU_row_num \in 0 .. total_iMCU_rows(img)
    BY <1>1 DEF TypeOK
  <2>2. iMCU_row_num # total_iMCU_rows(img)
    BY <1>1 DEF IInv, PlaceInv
  <2> QED BY <1>2, <2>1, <2>2
<1>5. /\ yoffset \in Nat /\ MCU_col_num \in Nat
      /\ MCU_col_num < per_row
      /\ yoffset < rows \/ (yoffset = rows /\ MCU_col_num = 0)
      /\ mcus = (MCURowsBefore(img, scan, iMCU_row_num) + yoffset) * per_row + MCU_col_num
  BY <1>1, <1>4 DEF IInv, TypeOK, PlaceInv, y_now, x_now
<1>6. rows \in Nat
  BY <1>2, <1>4, RowsAddUp
<1>7. MoreMCUs <=> yoffset < rows
  BY DEF MoreMCUs, rows
<1> QED BY <1>1, <1>2, <1>3, <1>4, <1>5, <1>6, <1>7 DEF Place

(* An MCU is done, and a row of them may be.                               *)
LEMMA EncodeKeeps ==
    ASSUME IInv, EncodeMCU
    PROVE  IInv'
<1> DEFINE row_ends == MCU_col_num + 1 >= per_row
<1>1. /\ Compressing /\ MoreMCUs /\ mcus' = mcus + 1
      /\ written' = IF gather THEN written ELSE written + 1
      /\ mcu_ctr' = IF row_ends THEN 0 ELSE mcu_ctr
      /\ MCU_col_num' = IF row_ends THEN mcu_ctr' ELSE MCU_col_num + 1
      /\ yoffset' = IF row_ends THEN yoffset + 1 ELSE yoffset
      /\ UNCHANGED <<global_state, step, params, master, setup, iMCU_row_num,
            MCU_vert_offset, whole_image, huff, last_restart_interval,
            phase, scans, marked, told>>
  BY DEF EncodeMCU, mcu_ctr_at_end, per_row
<1>2. TypeOK /\ PassesInv /\ InPass /\ Active /\ ~call_pass_startup /\ Place
  BY <1>1, NextMCU DEF IInv
<1>3. /\ yoffset \in Nat /\ MCU_col_num \in Nat /\ mcus \in Nat /\ per_row \in Nat \ {0}
      /\ mcu_ctr \in Nat /\ written \in Nat
      /\ rows = RowsOfMCUs(img, scan, iMCU_row_num) /\ rows \in Nat
      /\ MCURowsBefore(img, scan, iMCU_row_num) \in Nat
  BY <1>2, ScanNow, RowsAddUp DEF Place, TypeOK
<1>4. InPass' /\ Active' /\ Compressing' /\ Writing' = Writing /\ Writing = ~gather
  BY <1>1, <1>2 DEF InPass, Active, Compressing, Writing, setup, master
<1>5. TypeOK'
  <2>1. {mcu_ctr', yoffset', MCU_col_num', mcus', written'} \subseteq Nat
    BY <1>1, <1>3
  <2> HIDE DEF row_ends
  <2> QED BY <1>1, <1>2, <2>1 DEF TypeOK, InLibrary, params, master, setup
<1>6. PassesInv'
  BY <1>1, <1>2, <1>4 DEF PassesInv, Active, InPass, params, master, setup
<1>7. PlaceInv'
  <2> DEFINE B == MCURowsBefore(img, scan, iMCU_row_num)
  <2>1. /\ iMCU_row_num' = iMCU_row_num /\ img' = img /\ scan' = scan
        /\ per_row' = per_row /\ rows' = rows
        /\ y_now' = yoffset' /\ x_now' = MCU_col_num' /\ ~call_pass_startup'
    BY <1>1, <1>2, <1>4 DEF params, setup, master, per_row, rows, MCU_rows_per_iMCU_row,
                            y_now, x_now
  <2>2. iMCU_row_num < total_iMCU_rows(img) /\ yoffset < rows /\ MCU_col_num < per_row
        /\ mcus = (B + yoffset) * per_row + MCU_col_num
    BY <1>2, <1>3 DEF Place
  <2>3. total_iMCU_rows(img) \in Nat /\ iMCU_row_num \in Nat
    BY <1>2, ImageNow DEF Place
  <2>4. /\ MCU_col_num' < per_row
        /\ yoffset' < rows \/ (yoffset' = rows /\ MCU_col_num' = 0)
        /\ mcus' = (B + yoffset') * per_row + MCU_col_num'
    <3> HIDE DEF B
    <3>1. CASE row_ends
      <4>1. MCU_col_num + 1 = per_row BY <1>3, <2>2, <3>1
      <4>2. (B + (yoffset + 1)) * per_row = (B + yoffset) * per_row + per_row
        BY <1>3 DEF B
      <4>3. (B + yoffset) * per_row \in Nat BY <1>3 DEF B
      <4> QED BY <1>1, <1>3, <2>2, <3>1, <4>1, <4>2, <4>3
    <3>2. CASE ~row_ends
      <4>1. (B + yoffset) * per_row \in Nat BY <1>3 DEF B
      <4> QED BY <1>1, <1>3, <2>2, <3>2, <4>1
    <3> QED BY <3>1, <3>2
  <2> QED BY <1>4, <2>1, <2>2, <2>3, <2>4 DEF PlaceInv
<1>8. SavedInv'
  BY <1>1 DEF IInv, SavedInv, Active, params, master, iMCU_rows_saved
<1>9. StreamInv'
  BY <1>1, <1>2, <1>3, <1>4 DEF IInv, StreamInv, params, master, setup, SizeOfScan, Active
<1>10. TablesInv' /\ ToldInv'
  BY <1>1, <1>4, TablesStay DEF IInv, ToldInv, params, setup
<1>11. CodesInv'
  BY <1>1, <1>2, <1>4 DEF IInv, CodesInv, params, master, setup
<1> QED BY <1>5, <1>6, <1>7, <1>8, <1>9, <1>10, <1>11 DEF IInv

(* The iMCU row after this begins where this one ends.                     *)
LEMMA EndRowKeeps ==
    ASSUME IInv, EndRow
    PROVE  IInv'
<1>1. /\ Compressing /\ ~MoreMCUs
      /\ iMCU_row_num' = iMCU_row_num + 1
      /\ mcu_ctr' = 0 /\ MCU_vert_offset' = 0
      /\ step' = IF step = "compress" THEN "app" ELSE "pass"
      /\ UNCHANGED <<global_state, params, master, setup, loops, whole_image,
            mcus, huff, last_restart_interval, stream, told>>
  BY DEF EndRow
<1>2. TypeOK /\ PassesInv /\ InPass /\ Active /\ ~call_pass_startup
  BY <1>1, NextMCU DEF IInv
<1>3. /\ IsImage(img) /\ IsScan(img, scan)
      /\ iMCU_row_num \in Nat /\ iMCU_row_num < total_iMCU_rows(img)
      /\ total_iMCU_rows(img) \in Nat
      /\ per_row \in Nat \ {0} /\ rows = RowsOfMCUs(img, scan, iMCU_row_num)
      /\ yoffset = rows /\ MCU_col_num = 0
  BY <1>1, <1>2, NextMCU, ScanNow
<1>4. step = "compress" => global_state = "SCANNING"
  BY <1>2 DEF PassesInv, TypeOK, Active
<1>5. InPass' /\ Active' /\ ~Compressing' /\ Writing' = Writing
  BY <1>1, <1>2, <1>4 DEF InPass, Active, Compressing, Writing, setup, master
<1>6. TypeOK'
  <2>1. iMCU_row_num' \in 0 .. total_iMCU_rows(img)
    BY <1>1, <1>3
  <2>2. pass_number < total_passes /\ scan_number < num_scans(img)
    BY <1>2, PassesLeft DEF PassesInv
  <2>3. step' \in {"app", "pass"} /\ mcu_ctr' = 0 /\ MCU_vert_offset' = 0
        /\ UNCHANGED <<global_state, params, master, setup, loops,
              mcus, huff, last_restart_interval, stream, told>>
    BY <1>1
  <2>4. /\ pass_number' < total_passes' /\ scan_number' < num_scans(img')
        /\ iMCU_row_num' \in 0 .. total_iMCU_rows(img')
    BY <2>1, <2>2, <2>3 DEF params, master
  <2>5. mcu_ctr' \in Nat /\ MCU_vert_offset' \in Nat
    BY <2>3
  <2>6. UNCHANGED <<global_state, params, master, setup, loops,
              mcus, huff, last_restart_interval, stream, told>>
    BY <2>3
  <2>7. step' \in {"app", "pass"}
    BY <2>3
  <2> QED BY <1>2, <2>4, <2>5, <2>6, <2>7 DEF TypeOK, params, master, setup, loops, stream
<1>7. PassesInv'
  BY <1>1, <1>2, <1>5
     DEF PassesInv, Active, InPass, Compressing, params, master, setup, TypeOK
<1>8. PlaceInv'
  <2> DEFINE B(r) == MCURowsBefore(img, scan, r)
             R(r) == RowsOfMCUs(img, scan, r)
             r == iMCU_row_num
  <2>1. /\ R(r) \in Nat \ {0} /\ B(r) \in Nat /\ B(r + 1) \in Nat
        /\ B(r + 1) = B(r) + R(r)
    BY <1>3, RowsAddUp
  <2>2. mcus = (B(r) + R(r)) * per_row + 0
    BY <1>1, <1>2, <1>3 DEF IInv, PlaceInv, y_now, x_now
  <2>3. /\ img' = img /\ scan' = scan /\ mcus' = mcus /\ per_row' = per_row
        /\ rows' = R(r + 1) /\ y_now' = 0 /\ x_now' = 0 /\ ~call_pass_startup'
    <3>1. img' = img /\ scan' = scan /\ mcus' = mcus /\ ~call_pass_startup'
      BY <1>1, <1>2 DEF params, setup, master
    <3>2. per_row' = per_row /\ y_now' = 0 /\ x_now' = 0
      BY <1>1, <1>5, <3>1 DEF per_row, y_now, x_now
    <3>3. rows' = R(r + 1)
      BY <1>1, <3>1 DEF rows, MCU_rows_per_iMCU_row, RowsOfMCUs
    <3> QED BY <3>1, <3>2, <3>3
  <2>4. r + 1 < total_iMCU_rows(img) => R(r + 1) \in Nat \ {0}
    BY <1>3, RowsAddUp
  <2>5. mcus = (B(r + 1) + 0) * per_row + 0
    BY <1>3, <2>1, <2>2
  <2> HIDE DEF B, R
  <2>6. iMCU_row_num' < total_iMCU_rows(img)' => x_now' < per_row' /\ y_now' < rows'
    BY <1>1, <1>3, <2>3, <2>4
  <2>7. mcus' = (MCURowsBefore(img, scan, iMCU_row_num)' + y_now') * per_row' + x_now'
    BY <1>1, <2>3, <2>5 DEF B
  <2> QED BY <1>5, <2>3, <2>6, <2>7 DEF PlaceInv
<1>9. SavedInv'
  <2>1. iMCU_rows_saved' = iMCU_rows_saved
    <3>1. CASE pass_type = "main"
      BY <1>1, <1>2, <3>1 DEF PassesInv, Compressing, iMCU_rows_saved, master
    <3>2. CASE pass_type # "main"
      BY <1>1, <3>2 DEF iMCU_rows_saved, master, params
    <3> QED BY <3>1, <3>2
  <2>2. img' = img /\ total_passes' = total_passes /\ whole_image' = whole_image
    BY <1>1 DEF params, master
  <2> QED BY <1>2, <2>1, <2>2 DEF IInv, SavedInv
<1>10. StreamInv'
  <2>1. StreamInv
    BY DEF IInv
  <2>2. /\ global_state' = global_state /\ global_state # "START" /\ phase' = phase
        /\ scans' = scans /\ written' = written /\ mcus' = mcus /\ img' = img
        /\ scan_number' = scan_number
    BY <1>1, <1>2 DEF params, master, stream, Active
  <2> QED BY <1>2, <1>5, <2>1, <2>2 DEF StreamInv, SizeOfScan
<1>11. TablesInv' /\ ToldInv'
  BY <1>1, <1>5, TablesStay DEF IInv, ToldInv, params, setup
<1>12. CodesInv'
  BY <1>1, <1>2, <1>5 DEF IInv, CodesInv, params, master, setup
<1> QED BY <1>6, <1>7, <1>8, <1>9, <1>10, <1>11, <1>12 DEF IInv

(* The place of the MCU that was not written is kept.                      *)
LEMMA SuspendKeeps ==
    ASSUME IInv, SuspendMCU
    PROVE  IInv'
<1>1. /\ Compressing /\ MoreMCUs
      /\ UNCHANGED <<global_state, params, master, setup, loops, iMCU_row_num,
            whole_image, mcus, huff, last_restart_interval, stream, told>>
  BY DEF SuspendMCU
<1>2. /\ TypeOK /\ PassesInv /\ InPass /\ Active /\ ~call_pass_startup /\ Place
  BY <1>1, NextMCU DEF IInv
<1>3. CASE ~CanSuspend
  <2>1. Fail /\ UNCHANGED <<MCU_vert_offset, mcu_ctr>>
    BY <1>3 DEF SuspendMCU
  <2>2. mcu_ctr \in Nat /\ MCU_vert_offset \in Nat
    BY <1>2 DEF TypeOK
  <2> QED BY <1>1, <2>1, <2>2, FailureKeeps
<1>4. CASE CanSuspend
  <2>1. step' = "app" /\ MCU_vert_offset' = yoffset /\ mcu_ctr' = MCU_col_num
    BY <1>4 DEF SuspendMCU
  <2>2. step = "compress"
    BY <1>4 DEF CanSuspend
  <2>3. global_state = "SCANNING" /\ pass_type = "main"
    BY <1>2, <2>2 DEF PassesInv, TypeOK, Active
  <2>4. InPass' /\ Active' /\ ~Compressing' /\ Writing' = Writing
    BY <1>1, <1>2, <2>1, <2>3 DEF InPass, Active, Compressing, Writing, setup, master
  <2>5. /\ img' = img /\ scan' = scan /\ mcus' = mcus /\ iMCU_row_num' = iMCU_row_num
        /\ per_row' = per_row /\ rows' = rows
        /\ y_now' = y_now /\ x_now' = x_now /\ ~call_pass_startup'
    BY <1>1, <1>2, <2>1, <2>4 DEF params, setup, master, per_row, rows,
                                  MCU_rows_per_iMCU_row, y_now, x_now
  <2>6. TypeOK'
    BY <1>1, <1>2, <2>1 DEF TypeOK, InLibrary, params, master, setup, loops, stream
  <2>7. PassesInv'
    BY <1>1, <1>2, <2>1, <2>2, <2>4
       DEF PassesInv, Active, InPass, params, master, setup
  <2>8. PlaceInv'
    <3>1. yoffset < rows /\ MCU_col_num < per_row
      BY <1>1, <1>2 DEF MoreMCUs, rows, Place
    <3>2. y_now' < rows' /\ x_now' < per_row'
      BY <1>1, <2>5, <3>1 DEF y_now, x_now
    <3>3. iMCU_row_num' # total_iMCU_rows(img)'
      BY <1>1, <1>2, <2>5 DEF IInv, PlaceInv
    <3> QED BY <1>2, <2>4, <2>5, <3>2, <3>3 DEF IInv, PlaceInv
  <2>9. SavedInv'
    <3>1. iMCU_rows_saved = iMCU_row_num + 1 /\ iMCU_rows_saved' = iMCU_row_num
      BY <1>1, <2>1, <2>2, <2>3 DEF iMCU_rows_saved, master
    <3>2. img' = img /\ total_passes' = total_passes /\ whole_image' = whole_image
      BY <1>1 DEF params, master
    <3>3. \A c \in DOMAIN img.comps : \A y \in 0 .. iMCU_row_num * img.comps[c].v - 1 :
             y \in 0 .. (iMCU_row_num + 1) * img.comps[c].v - 1
      <4> SUFFICES ASSUME NEW c \in DOMAIN img.comps,
                          NEW y \in 0 .. iMCU_row_num * img.comps[c].v - 1
                   PROVE  y \in 0 .. (iMCU_row_num + 1) * img.comps[c].v - 1
        OBVIOUS
      <4> DEFINE w == img.comps[c].v
      <4>1. w \in Nat \ {0} /\ iMCU_row_num \in Nat
        BY <1>2, FactorsOf DEF Place
      <4>2. (iMCU_row_num + 1) * w = iMCU_row_num * w + w /\ iMCU_row_num * w \in Nat
        BY <4>1
      <4> QED BY <4>1, <4>2
    <3> QED BY <1>2, <3>1, <3>2, <3>3 DEF IInv, SavedInv
  <2>10. StreamInv'
    BY <1>1, <1>2, <2>3, <2>4 DEF IInv, StreamInv, params, master, stream, SizeOfScan
  <2>11. TablesInv' /\ ToldInv'
    BY <1>1, <2>4, TablesStay DEF IInv, ToldInv, params, setup
  <2>12. CodesInv'
    BY <1>1, <1>2, <2>4 DEF IInv, CodesInv, params, master, setup
  <2> QED BY <2>6, <2>7, <2>8, <2>9, <2>10, <2>11, <2>12 DEF IInv
<1> QED BY <1>3, <1>4

(* At the end of a pass all MCUs of the scan are coded, or counted.        *)
LEMMA PassComplete ==
    ASSUME IInv, InPass, iMCU_row_num = total_iMCU_rows(img)
    PROVE  mcus = ScanSize(img, scan) /\ ~call_pass_startup /\ ~Compressing
<1>1. IsImage(img) /\ IsScan(img, scan) /\ per_row \in Nat \ {0}
      /\ total_iMCU_rows(img) \in Nat \ {0}
  BY ScanNow DEF IInv
<1>2. /\ MCURowsBefore(img, scan, total_iMCU_rows(img)) \in Nat
      /\ ScanSize(img, scan) = MCURowsBefore(img, scan, total_iMCU_rows(img)) * per_row
  BY <1>1, AllRows DEF per_row
<1>3. /\ y_now = 0 /\ x_now = 0 /\ ~Compressing
      /\ mcus = (MCURowsBefore(img, scan, total_iMCU_rows(img)) + y_now) * per_row + x_now
      /\ call_pass_startup => iMCU_row_num = 0
  BY DEF IInv, PlaceInv
<1> QED BY <1>1, <1>2, <1>3

(* finish_pass: the scan is complete, its tables are made, the pass is counted.*)
LEMMA FinishKeeps ==
    ASSUME IInv, InPass, ~Compressing, iMCU_row_num = total_iMCU_rows(img),
           finish_pass_master
    PROVE  IInv'
<1>1. /\ finish_pass_entropy
      /\ scan_number' = IF scan_is_output THEN scan_number + 1 ELSE scan_number
      /\ pass_type' = IF pass_type = "output" /\ optimize_coding THEN "huff_opt" ELSE "output"
      /\ pass_number' = pass_number + 1 /\ step' = "next"
      /\ UNCHANGED <<global_state, params, setup, coef, loops, whole_image, mcus,
            total_passes, is_last_pass, call_pass_startup,
            last_restart_interval, stream, told>>
  BY DEF finish_pass_master
<1>2. TypeOK /\ PassesInv /\ Active
  BY ScanNow DEF IInv
<1>3. /\ IsImage(img) /\ IsScan(img, scan) /\ num_scans(img) \in Nat
      /\ pass_number \in Nat /\ scan_number \in Nat
      /\ pass_number < total_passes /\ scan_number < num_scans(img)
      /\ total_passes \in Nat
      /\ scan = select_scan_parameters(img, scan_number)
  <2>1. pass_number < total_passes /\ pass_number \in Nat /\ scan_number \in Nat
    BY <1>2, PassesLeft
  <2>2. num_scans(img) \in Nat BY <1>2, ImageNow
  <2>3. total_passes = (IF optimize_coding THEN 2 ELSE 1) * num_scans(img) BY <1>2 DEF PassesInv
  <2>4. total_passes \in Nat BY <2>2, <2>3
  <2> QED BY <1>2, <2>1, <2>2, <2>4, ScanNow DEF PassesInv
<1>4. mcus = ScanSize(img, scan) /\ ~call_pass_startup
  BY PassComplete
<1>5. /\ Active' /\ ~InPass' /\ ~Writing' /\ ~Compressing'
  BY <1>1, <1>2 DEF Active, InPass, Writing, Compressing
<1>6. /\ scan_is_output <=> ~gather
      /\ gather <=> optimize_coding /\ pass_type # "output"
      /\ optimize_coding \in BOOLEAN
      /\ Writing <=> ~gather
  BY <1>2, <1>4 DEF PassesInv, scan_is_output, TypeOK, Writing
<1>7. \A t \in Slots : huff'[t] = IF gather /\ t \in CodedWith(img, scan)
                                    THEN [for |-> ThisScan, sent |-> FALSE] ELSE huff[t]
  BY <1>1 DEF finish_pass_entropy
<1>8. TypeOK'
  <2>1. pass_number' \in 0 .. total_passes /\ scan_number' \in 0 .. num_scans(img)
    BY <1>1, <1>3
  <2>2. DOMAIN huff' = Slots
    BY <1>1 DEF finish_pass_entropy
  <2>3. pass_type' \in {"main", "huff_opt", "output"}
    BY <1>1
  <2>4. step' = "next" /\ UNCHANGED <<global_state, params, setup, coef, loops, mcus,
            total_passes, is_last_pass, call_pass_startup, last_restart_interval,
            stream, told>>
    BY <1>1
  <2> QED BY <1>2, <2>1, <2>2, <2>3, <2>4
          DEF TypeOK, InLibrary, params, setup, coef, loops, stream
<1>9. PassesInv'
  <2>1. /\ step' = "next" /\ global_state' = global_state /\ global_state # "START"
        /\ img' = img /\ images' = images /\ optimize_coding' = optimize_coding
        /\ total_passes' = total_passes /\ is_last_pass' = is_last_pass
        /\ scan' = scan /\ ~call_pass_startup'
    BY <1>1, <1>2, <1>4 DEF params, setup, Active
  <2>2. pass_number' = IF ~optimize_coding' THEN scan_number'
                       ELSE IF pass_type' = "output" THEN 2 * scan_number' + 1
                       ELSE 2 * scan_number'
    BY <1>1, <1>2, <1>3, <1>6, <2>1 DEF PassesInv
  <2>3. is_last_pass' = (pass_number' = total_passes')
    BY <1>1, <1>2, <2>1 DEF PassesInv
  <2>4. optimize_coding /\ pass_type' = "output" =>
           scan' = select_scan_parameters(img', scan_number')
    BY <1>1, <1>3, <1>6, <2>1
  <2>5. pass_type' # "main" /\ (pass_type' = "huff_opt" => optimize_coding')
    BY <1>1, <2>1
  <2> QED BY <1>2, <1>5, <2>1, <2>2, <2>3, <2>4, <2>5 DEF PassesInv
<1>10. PlaceInv'
  BY <1>5 DEF PlaceInv
<1>11. SavedInv'
  <2>1. ~img.transcode => iMCU_rows_saved = total_iMCU_rows(img)
    BY <1>2 DEF PassesInv, iMCU_rows_saved, Compressing
  <2>2. iMCU_rows_saved' = total_iMCU_rows(img)
    BY <1>1 DEF iMCU_rows_saved, params
  <2>3. img' = img /\ total_passes' = total_passes /\ whole_image' = whole_image
    BY <1>1 DEF params
  <2> QED BY <1>2, <2>1, <2>2, <2>3 DEF IInv, SavedInv
<1>12. StreamInv'
  <2>1. /\ phase' = phase /\ scans' = scans /\ written' = written /\ img' = img
        /\ global_state' = global_state /\ step' = "next"
    BY <1>1 DEF stream, params
  <2>2. CASE gather
    <3>1. scan_number' = scan_number BY <1>1, <1>6, <2>2
    <3> QED BY <1>2, <1>5, <1>6, <2>1, <2>2, <3>1 DEF IInv, StreamInv, SizeOfScan
  <2>3. CASE ~gather
    <3>1. phase = "frame" /\ scans = scan_number + 1 /\ written = mcus
      BY <1>6, <2>3 DEF IInv, StreamInv
    <3>2. scan_number' = scan_number + 1 BY <1>1, <1>6, <2>3
    <3>3. scan_number' # 0 /\ scans' - 1 = scan_number BY <1>3, <2>1, <3>1, <3>2
    <3>4. written' = SizeOfScan(scan_number)
      BY <1>3, <1>4, <2>1, <3>1 DEF SizeOfScan
    <3> QED BY <1>5, <2>1, <3>1, <3>2, <3>3, <3>4 DEF StreamInv, SizeOfScan
  <2> QED BY <2>2, <2>3
<1>13. TablesInv'
  <2>1. TablesInv BY DEF IInv
  <2>2. UNCHANGED <<told, last_restart_interval>> BY <1>1
  <2>3. huff' = [t \in Slots |-> [for |-> huff'[t].for, sent |-> huff'[t].sent]]
    <3>1. \A t \in Slots : huff'[t] = [for |-> huff'[t].for, sent |-> huff'[t].sent]
      BY <1>7, <2>1 DEF TablesInv
    <3>2. huff' = [t \in Slots |-> huff'[t]] BY <1>1 DEF finish_pass_entropy
    <3> QED BY <3>1, <3>2
  <2>4. \A t \in Slots : huff'[t].sent => huff'[t] = huff[t]
    BY <1>7
  <2>5. \A t \in Slots : huff'[t].sent \in BOOLEAN
    <3> SUFFICES ASSUME NEW t \in Slots PROVE huff'[t].sent \in BOOLEAN
      OBVIOUS
    <3>1. huff[t].sent \in BOOLEAN BY <2>1 DEF TablesInv
    <3>2. huff'[t] = [for |-> ThisScan, sent |-> FALSE] \/ huff'[t] = huff[t] BY <1>7
    <3>3. CASE huff'[t] = [for |-> ThisScan, sent |-> FALSE] BY <3>3
    <3>4. CASE huff'[t] = huff[t] BY <3>1, <3>4
    <3> QED BY <3>2, <3>3, <3>4
  <2> QED BY <2>1, <2>2, <2>3, <2>4, <2>5 DEF TablesInv
<1>14. ToldInv'
  BY <1>5 DEF ToldInv
<1>15. CodesInv'
  <2>1. /\ img' = img /\ images' = images /\ scan' = scan /\ step' = "next"
        /\ optimize_coding' = optimize_coding
    BY <1>1 DEF params, setup
  <2>2. CASE ~optimize_coding
    <3>1. \A t \in Slots : huff'[t] = huff[t] BY <1>6, <1>7, <2>2
    <3> QED BY <1>2, <2>1, <2>2, <3>1 DEF IInv, CodesInv
  <2>3. CASE optimize_coding
    <3>1. CASE ~gather
      <4>1. pass_type' = "huff_opt" BY <1>1, <1>6, <2>3, <3>1
      <4> QED BY <2>1, <2>3, <4>1 DEF CodesInv
    <3>2. CASE gather
      <4>1. \A t \in CodedWith(img, scan) : t \in Slots BY <1>3, HeaderBrings
      <4>2. scan_number' = scan_number BY <1>1, <1>6, <3>2
      <4>3. \A t \in CodedWith(img, scan) : huff'[t].for = ThisScan BY <1>7, <3>2, <4>1
      <4>4. ThisScan = [image |-> images', scan |-> scan_number',
                        codes |-> ScanSize(img', scan')]
        BY <1>4, <2>1, <4>2 DEF ThisScan
      <4> QED BY <2>1, <2>3, <4>3, <4>4 DEF CodesInv
    <3> QED BY <3>1, <3>2
  <2> QED BY <2>2, <2>3
<1> QED BY <1>8, <1>9, <1>10, <1>11, <1>12, <1>13, <1>14, <1>15 DEF IInv

LEMMA FinishCompressKeeps ==
    ASSUME IInv, jpeg_finish_compress \/ FinishPass
    PROVE  IInv'
<1>1. \/ step = "app" /\ global_state = "SCANNING"
      \/ step = "pass"
  BY DEF jpeg_finish_compress, FinishPass
<1>2. InPass /\ ~Compressing
  BY <1>1 DEF InPass, Compressing
<1>3. CASE jpeg_finish_compress /\ TooLittleData
  <2>1. /\ Fail
        /\ UNCHANGED <<global_state, params, master, setup, coef, loops,
              whole_image, mcus, huff, last_restart_interval, stream, told>>
    BY <1>3 DEF jpeg_finish_compress
  <2>2. mcu_ctr' \in Nat /\ MCU_vert_offset' \in Nat /\ iMCU_row_num' = iMCU_row_num
    BY <2>1 DEF coef, IInv, TypeOK
  <2> QED BY <2>1, <2>2, FailureKeeps
<1>4. CASE ~(jpeg_finish_compress /\ TooLittleData)
  <2>1. finish_pass_master /\ ~(iMCU_row_num < total_iMCU_rows(img))
    <3>1. total_iMCU_rows(img) \in Nat BY ImageNow DEF IInv
    <3>2. CASE FinishPass BY <3>1, <3>2 DEF FinishPass
    <3>3. CASE jpeg_finish_compress /\ ~TooLittleData
      BY <3>3 DEF jpeg_finish_compress, TooLittleData
    <3> QED BY <1>4, <3>2, <3>3
  <2>2. iMCU_row_num = total_iMCU_rows(img)
    <3>1. iMCU_row_num \in 0 .. total_iMCU_rows(img) BY DEF IInv, TypeOK
    <3>2. total_iMCU_rows(img) \in Nat BY ImageNow DEF IInv
    <3> QED BY <2>1, <3>1, <3>2
  <2> QED BY <1>2, <2>1, <2>2, FinishKeeps
<1> QED BY <1>3, <1>4

LEMMA EmitFailsKeeps ==
    ASSUME IInv, EmitFails
    PROVE  IInv'
<1>1. /\ Fail
      /\ UNCHANGED <<global_state, params, master, setup, coef, loops,
            whole_image, mcus, huff, last_restart_interval, stream, told>>
  BY DEF EmitFails
<1>2. mcu_ctr' \in Nat /\ MCU_vert_offset' \in Nat /\ iMCU_row_num' = iMCU_row_num
  BY <1>1 DEF coef, IInv, TypeOK
<1> QED BY <1>1, <1>2, FailureKeeps

LEMMA FinishCoefsKeeps ==
    ASSUME IInv, jpeg_finish_compress_coefs
    PROVE  IInv'
<1>1. /\ step = "app" /\ global_state = "WRCOEFS" /\ step' = "next"
      /\ UNCHANGED <<global_state, params, master, setup, coef, loops,
            whole_image, mcus, huff, last_restart_interval, stream, told>>
  BY DEF jpeg_finish_compress_coefs
<1>2. TypeOK /\ PassesInv /\ Active
  BY <1>1 DEF IInv, Active
<1>3. ~InPass /\ ~InPass' /\ Active' /\ ~Writing /\ ~Writing' /\ ~Compressing'
  BY <1>1 DEF InPass, Active, Writing, Compressing
<1>4. img.transcode /\ pass_type # "main" /\ scan_number = 0 /\ ~is_last_pass
      /\ ~(optimize_coding /\ pass_type = "output") /\ ~call_pass_startup
  BY <1>1, <1>2 DEF PassesInv
<1>5. pass_number = 0 /\ total_passes # 0
  <2>1. num_scans(img) \in Nat \ {0} BY <1>2, ImageNow
  <2>2. total_passes = (IF optimize_coding THEN 2 ELSE 1) * num_scans(img) BY <1>2 DEF PassesInv
  <2>3. total_passes # 0 BY <2>1, <2>2
  <2>4. pass_number = 0 BY <1>2, <1>4 DEF PassesInv
  <2> QED BY <2>3, <2>4
<1>6. TypeOK'
  BY <1>1, <1>2 DEF TypeOK, InLibrary, params, master, setup, coef, loops, stream
<1>7. PassesInv'
  <2>1. /\ global_state' = global_state /\ img' = img /\ images' = images /\ step' = "next"
        /\ optimize_coding' = optimize_coding /\ pass_type' = pass_type
        /\ pass_number' = pass_number /\ scan_number' = scan_number
        /\ total_passes' = total_passes /\ is_last_pass' = is_last_pass
        /\ call_pass_startup' = call_pass_startup
    BY <1>1 DEF params, master
  <2>2. is_last_pass' = (pass_number' = total_passes')
    BY <1>2, <1>4, <1>5, <2>1 DEF TypeOK
  <2> QED BY <1>2, <1>3, <1>4, <2>1, <2>2 DEF PassesInv
<1>8. PlaceInv' /\ ToldInv'
  BY <1>3 DEF PlaceInv, ToldInv
<1>9. SavedInv'
  BY <1>1, <1>4 DEF SavedInv, params
<1>10. StreamInv'
  BY <1>1, <1>2, <1>3 DEF IInv, StreamInv, params, master, stream, SizeOfScan
<1>11. TablesInv'
  BY <1>1, TablesStay DEF IInv
<1>12. CodesInv'
  BY <1>1, <1>2, <1>3, <1>4 DEF IInv, CodesInv, params, master
<1> QED BY <1>6, <1>7, <1>8, <1>9, <1>10, <1>11, <1>12 DEF IInv

LEMMA FinishImageKeeps ==
    ASSUME IInv, FinishImage \/ jpeg_abort_compress
    PROVE  IInv'
<1>1. /\ global_state' = "START" /\ step' = "app"
      /\ UNCHANGED <<params, master, setup, coef, loops, whole_image, mcus, huff,
            last_restart_interval, scans, written, marked, told>>
  BY DEF FinishImage, jpeg_abort_compress
<1>2. phase' \in {"none", "ended"}
  BY DEF FinishImage, jpeg_abort_compress, IInv, StreamInv
<1>3. ~Active' /\ ~InPass' /\ ~Writing'
  BY <1>1 DEF Active, InPass, Writing, Compressing
<1>4. TypeOK'
  BY <1>1, <1>2 DEF IInv, TypeOK, InLibrary, params, master, setup, coef, loops
<1>5. PassesInv' /\ PlaceInv' /\ SavedInv' /\ StreamInv' /\ ToldInv' /\ CodesInv'
  BY <1>1, <1>2, <1>3 DEF PassesInv, PlaceInv, SavedInv, StreamInv, ToldInv, CodesInv
<1>6. TablesInv'
  BY <1>1, TablesStay DEF IInv
<1> QED BY <1>4, <1>5, <1>6 DEF IInv

(* A scan is prepared at its first MCU.                                    *)
LEMMA PlaceAtStart ==
    ASSUME NEW i, IsImage(i), NEW s, IsScan(i, s)
    PROVE  /\ MCUs_per_row(i, s) \in Nat \ {0} /\ 0 < MCUs_per_row(i, s)
           /\ total_iMCU_rows(i) \in Nat \ {0}
           /\ 0 < RowsOfMCUs(i, s, 0)
           /\ (MCURowsBefore(i, s, 0) + 0) * MCUs_per_row(i, s) + 0 = 0
<1>1. MCUs_per_row(i, s) \in Nat \ {0} /\ total_iMCU_rows(i) \in Nat \ {0}
  BY PerRow, TotalOf
<1>2. RowsOfMCUs(i, s, 0) \in Nat \ {0}
  BY <1>1, RowsAddUp
<1>3. MCURowsBefore(i, s, 0) = 0
  BY AllRows
<1> QED BY <1>1, <1>2, <1>3

(* The passes that prepare_for_pass has still to make.                     *)
LEMMA PassToPrepare ==
    ASSUME IInv, step = "next", ~is_last_pass
    PROVE  /\ TypeOK /\ PassesInv /\ Active /\ ~InPass /\ ~Writing
           /\ IsImage(img) /\ num_scans(img) \in Nat \ {0}
           /\ pass_type \in {"huff_opt", "output"}
           /\ pass_number \in Nat /\ scan_number \in Nat /\ total_passes \in Nat
           /\ scan_number < num_scans(img) /\ pass_number < total_passes
           /\ optimize_coding \in BOOLEAN
           /\ total_passes = (IF optimize_coding THEN 2 ELSE 1) * num_scans(img)
           /\ pass_number = IF ~optimize_coding THEN scan_number
                            ELSE IF pass_type = "output" THEN 2 * scan_number + 1
                            ELSE 2 * scan_number
           /\ pass_type = "huff_opt" => optimize_coding
           /\ IsScan(img, select_scan_parameters(img, scan_number))
           /\ ~call_pass_startup
<1>1. TypeOK /\ PassesInv /\ Active /\ ~InPass /\ ~Writing
  BY DEF IInv, PassesInv, Active, InPass, Writing, Compressing
<1>2. IsImage(img) /\ num_scans(img) \in Nat \ {0}
  BY <1>1, ImageNow
<1>3. /\ pass_type \in {"huff_opt", "output"} /\ optimize_coding \in BOOLEAN
      /\ ~call_pass_startup
      /\ pass_type = "huff_opt" => optimize_coding
  BY <1>1 DEF PassesInv, TypeOK
<1>4. /\ total_passes = (IF optimize_coding THEN 2 ELSE 1) * num_scans(img)
      /\ pass_number = IF ~optimize_coding THEN scan_number
                       ELSE IF pass_type = "output" THEN 2 * scan_number + 1
                       ELSE 2 * scan_number
      /\ pass_number # total_passes
  BY <1>1 DEF PassesInv
<1>5. scan_number \in 0 .. num_scans(img) /\ pass_number \in 0 .. total_passes
  BY <1>1 DEF TypeOK
<1>6. /\ scan_number \in Nat /\ total_passes \in Nat /\ pass_number \in Nat
      /\ pass_number < total_passes
  BY <1>2, <1>3, <1>4, <1>5
<1>7. scan_number < num_scans(img)
  BY <1>2, <1>3, <1>4, <1>5, <1>6
<1>8. IsScan(img, select_scan_parameters(img, scan_number))
  BY <1>2, <1>6, ScanOf
<1> QED BY <1>1, <1>2, <1>3, <1>4, <1>6, <1>7, <1>8

LEMMA IntervalIs ==
    ASSUME TypeOK, NEW i, IsImage(i), NEW s, IsScan(i, s)
    PROVE  RestartInterval(i, s) \in Nat
<1>1. MCUs_per_row(i, s) \in Nat /\ i.restart_in_rows \in Nat
  BY PerRow DEF IsImage
<1>2. restart_interval \in Nat
  BY DEF TypeOK
<1>3. i.restart_in_rows * MCUs_per_row(i, s) \in Nat
  BY <1>1
<1> QED BY <1>2, <1>3 DEF RestartInterval

(* prepare_for_pass, huff_opt_pass.                                        *)
LEMMA PrepareOptimizationKeeps ==
    ASSUME IInv, PrepareOptimization
    PROVE  IInv'
<1> DEFINE s == select_scan_parameters(img, scan_number)
<1>1. /\ step = "next" /\ ~is_last_pass /\ pass_type = "huff_opt"
      /\ scan' = s /\ restart_interval' = RestartInterval(img, s)
      /\ gather' = TRUE /\ iMCU_row_num' = 0 /\ mcu_ctr' = 0 /\ MCU_vert_offset' = 0
      /\ mcus' = 0
      /\ is_last_pass' = (pass_number = total_passes - 1)
      /\ call_pass_startup' = FALSE
      /\ step' = IF img.arith THEN "failed" ELSE "pass"
      /\ UNCHANGED <<global_state, params, loops, whole_image, huff,
            pass_type, pass_number, scan_number, total_passes,
            last_restart_interval, stream, told>>
  BY DEF PrepareOptimization, SetUpScan, StartPass
<1>2. /\ TypeOK /\ PassesInv /\ Active /\ ~InPass /\ ~Writing
      /\ IsImage(img) /\ num_scans(img) \in Nat \ {0} /\ IsScan(img, s)
      /\ pass_number \in Nat /\ scan_number \in Nat /\ total_passes \in Nat
      /\ scan_number < num_scans(img) /\ pass_number < total_passes
      /\ pass_type = "huff_opt" => optimize_coding
  BY <1>1, PassToPrepare
<1>3. RestartInterval(img, s) \in Nat
  BY <1>2, IntervalIs
<1>4. /\ MCUs_per_row(img, s) \in Nat \ {0} /\ 0 < MCUs_per_row(img, s)
      /\ total_iMCU_rows(img) \in Nat \ {0}
      /\ 0 < RowsOfMCUs(img, s, 0)
      /\ (MCURowsBefore(img, s, 0) + 0) * MCUs_per_row(img, s) + 0 = 0
  BY <1>2, PlaceAtStart
<1> HIDE DEF s
<1>5. ~Compressing' /\ ~Writing' /\ (InPass' => step' = "pass")
  BY <1>1, <1>2 DEF Compressing, Writing, InPass, Active
<1>6. /\ img' = img /\ images' = images /\ optimize_coding' = optimize_coding
      /\ optimize_coding /\ global_state' = global_state /\ global_state # "START"
      /\ pass_type' = "huff_opt"
  BY <1>1, <1>2 DEF params, Active
<1>7. TypeOK'
  <2>0. /\ restart_interval' \in Nat /\ mcu_ctr' \in Nat /\ MCU_vert_offset' \in Nat
        /\ mcus' \in Nat
    <3>1. restart_interval' = RestartInterval(img, s) BY <1>1
    <3>2. mcu_ctr' = 0 /\ MCU_vert_offset' = 0 /\ mcus' = 0 BY <1>1
    <3> QED BY <1>3, <3>1, <3>2
  <2>1. /\ is_last_pass' \in BOOLEAN /\ gather' \in BOOLEAN /\ call_pass_startup' \in BOOLEAN
        /\ step' \in {"failed", "pass"}
    <3>1. /\ is_last_pass' = (pass_number = total_passes - 1)
          /\ gather' = TRUE /\ call_pass_startup' = FALSE
          /\ step' = IF img.arith THEN "failed" ELSE "pass"
      BY <1>1
    <3> QED BY <3>1
  <2>3. iMCU_row_num' \in 0 .. total_iMCU_rows(img)
    <3>1. iMCU_row_num' = 0 BY <1>1
    <3>2. total_iMCU_rows(img) \in Nat \ {0} BY <1>4
    <3> QED BY <3>1, <3>2
  <2>2. UNCHANGED <<global_state, params, loops, whole_image, huff,
            pass_type, pass_number, scan_number, total_passes,
            last_restart_interval, stream, told>>
    BY <1>1
  <2> QED BY <1>2, <2>0, <2>1, <2>2, <2>3 DEF TypeOK, params, loops, stream
<1>8. PassesInv'
  <2>1. is_last_pass' = (pass_number' + 1 = total_passes')
    BY <1>1, <1>2
  <2>2. /\ pass_number' = pass_number /\ scan_number' = scan_number
        /\ total_passes' = total_passes /\ scan' = s /\ gather' = TRUE
        /\ ~call_pass_startup' /\ pass_type = "huff_opt" /\ step = "next"
    BY <1>1
  <2>3. /\ optimize_coding = (img.optimize \/ (progressive_mode(img) /\ ~img.arith))
        /\ total_passes = (IF optimize_coding THEN 2 ELSE 1) * num_scans(img)
        /\ pass_number = 2 * scan_number
        /\ img \in Images /\ images > 0
        /\ global_state = "WRCOEFS" <=> img.transcode
    BY <1>1, <1>2, <1>6 DEF PassesInv
  <2>4. step' = "failed" \/ step' = "pass"
    BY <1>1
  <2>5. scan' = select_scan_parameters(img', scan_number')
    BY <1>6, <2>2 DEF s
  <2>6. gather' = (optimize_coding' /\ pass_type' # "output")
    BY <1>6, <2>2
  <2>7. InPass' => /\ scan' = select_scan_parameters(img', scan_number')
                   /\ scan_number' < num_scans(img')
                   /\ is_last_pass' = (pass_number' + 1 = total_passes')
                   /\ gather' = (optimize_coding' /\ pass_type' # "output")
    BY <1>2, <1>6, <2>1, <2>2, <2>5, <2>6
  <2>8. step' # "next" /\ step' # "app" /\ step' # "compress" /\ global_state' # "START"
        /\ pass_type' # "main"
    BY <1>6, <2>4
  <2>9. /\ img' \in Images /\ images' > 0
        /\ global_state' = "WRCOEFS" <=> img'.transcode
        /\ optimize_coding' = (img'.optimize \/ (progressive_mode(img') /\ ~img'.arith))
        /\ total_passes' = (IF optimize_coding' THEN 2 ELSE 1) * num_scans(img')
        /\ optimize_coding' /\ pass_type' # "output" /\ pass_number' = 2 * scan_number'
    BY <1>6, <2>2, <2>3
  <2> QED BY <2>2, <2>7, <2>8, <2>9 DEF PassesInv
<1>9. PlaceInv'
  <2>1. /\ y_now' = 0 /\ x_now' = 0 /\ iMCU_row_num' = 0 /\ mcus' = 0
        /\ per_row' = MCUs_per_row(img, s) /\ scan' = s
    BY <1>1, <1>5, <1>6 DEF y_now, x_now, per_row
  <2>2. rows' = RowsOfMCUs(img, s, 0)
    BY <1>6, <2>1 DEF rows, MCU_rows_per_iMCU_row, RowsOfMCUs
  <2> QED BY <1>1, <1>4, <1>5, <1>6, <2>1, <2>2 DEF PlaceInv
<1>10. SavedInv'
  <2>1. iMCU_rows_saved = total_iMCU_rows(img) /\ iMCU_rows_saved' = total_iMCU_rows(img)
    BY <1>1, <1>6 DEF iMCU_rows_saved
  <2>2. total_passes' = total_passes /\ whole_image' = whole_image
    BY <1>1
  <2> QED BY <1>2, <1>6, <2>1, <2>2 DEF IInv, SavedInv
<1>11. StreamInv'
  <2>1. phase' = phase /\ scans' = scans /\ written' = written /\ scan_number' = scan_number
    BY <1>1 DEF stream
  <2> QED BY <1>2, <1>5, <1>6, <2>1 DEF IInv, StreamInv, SizeOfScan
<1>12. TablesInv' /\ ToldInv'
  BY <1>1, <1>5, TablesStay DEF IInv, ToldInv
<1>13. CodesInv'
  BY <1>6 DEF CodesInv
<1> QED BY <1>7, <1>8, <1>9, <1>10, <1>11, <1>12, <1>13 DEF IInv

(* prepare_for_pass, output_pass, after a huff_opt_pass was skipped or not.*)
LEMMA PrepareOutputKeeps ==
    ASSUME IInv, PrepareOutput
    PROVE  IInv'
<1> DEFINE s == select_scan_parameters(img, scan_number)
           again == optimize_coding /\ pass_type = "output"
<1>1. /\ step = "next" /\ ~is_last_pass
      /\ pass_type = "output" \/ ~OptimizeScan(s)
      /\ IF again THEN UNCHANGED <<scan, restart_interval>>
         ELSE scan' = s /\ restart_interval' = RestartInterval(img, s)
      /\ gather' = FALSE /\ iMCU_row_num' = 0 /\ mcu_ctr' = 0 /\ MCU_vert_offset' = 0
      /\ mcus' = 0
      /\ pass_type' = "output"
      /\ pass_number' = pass_number + (IF pass_type = "huff_opt" THEN 1 ELSE 0)
      /\ is_last_pass' = (pass_number' = total_passes - 1)
      /\ call_pass_startup' = FALSE
      /\ step' = "pass"
      /\ UNCHANGED <<global_state, params, loops, whole_image, scan_number, total_passes>>
  BY DEF PrepareOutput, SetUpScan, StartPass, passes_skipped
<1>2. /\ TypeOK /\ PassesInv /\ Active /\ ~InPass /\ ~Writing
      /\ IsImage(img) /\ num_scans(img) \in Nat \ {0} /\ IsScan(img, s)
      /\ pass_type \in {"huff_opt", "output"}
      /\ pass_number \in Nat /\ scan_number \in Nat /\ total_passes \in Nat
      /\ scan_number < num_scans(img) /\ pass_number < total_passes
      /\ optimize_coding \in BOOLEAN
      /\ total_passes = (IF optimize_coding THEN 2 ELSE 1) * num_scans(img)
      /\ pass_number = IF ~optimize_coding THEN scan_number
                       ELSE IF pass_type = "output" THEN 2 * scan_number + 1
                       ELSE 2 * scan_number
      /\ pass_type = "huff_opt" => optimize_coding
  BY <1>1, PassToPrepare
<1>3. scan' = s /\ restart_interval' \in Nat
  <2>1. CASE again
    <3>1. scan = s BY <1>1, <1>2, <2>1 DEF PassesInv
    <3>2. restart_interval \in Nat BY <1>2 DEF TypeOK
    <3> QED BY <1>1, <2>1, <3>1, <3>2
  <2>2. CASE ~again
    <3>1. RestartInterval(img, s) \in Nat BY <1>2, IntervalIs
    <3> QED BY <1>1, <2>2, <3>1
  <2> QED BY <2>1, <2>2
<1>4. /\ MCUs_per_row(img, s) \in Nat \ {0} /\ 0 < MCUs_per_row(img, s)
      /\ total_iMCU_rows(img) \in Nat \ {0}
      /\ 0 < RowsOfMCUs(img, s, 0)
      /\ (MCURowsBefore(img, s, 0) + 0) * MCUs_per_row(img, s) + 0 = 0
  BY <1>2, PlaceAtStart
<1>5. WriteHeaders(huff, img, s, restart_interval')
  BY <1>3 DEF PrepareOutput
<1>6. /\ TablesInv' /\ last_restart_interval' = restart_interval'
      /\ \A t \in CodedWith(img, s) : huff'[t].sent
      /\ \A t \in Slots : huff'[t].for = huff[t].for
  BY <1>2, <1>5, HeadersTell DEF IInv
<1>7. /\ phase' = "frame" /\ scans' = scans + 1 /\ written' = 0 /\ marked' = marked
  BY <1>5 DEF WriteHeaders
<1> HIDE DEF s
<1>8. /\ img' = img /\ images' = images /\ optimize_coding' = optimize_coding
      /\ global_state' = global_state /\ global_state # "START"
  BY <1>1, <1>2 DEF params, Active
<1>9. ~Compressing' /\ InPass' /\ Writing' /\ Active'
  BY <1>1, <1>8 DEF Compressing, InPass, Writing, Active
<1>10. /\ pass_number' \in Nat /\ pass_number' < total_passes
       /\ pass_number' = IF ~optimize_coding THEN scan_number ELSE 2 * scan_number + 1
  BY <1>1, <1>2
<1>11. TypeOK'
  <2>0. /\ restart_interval' \in Nat /\ mcu_ctr' \in Nat /\ MCU_vert_offset' \in Nat
        /\ mcus' \in Nat
    <3>1. mcu_ctr' = 0 /\ MCU_vert_offset' = 0 /\ mcus' = 0 BY <1>1
    <3> QED BY <1>3, <3>1
  <2>1. /\ is_last_pass' \in BOOLEAN /\ gather' \in BOOLEAN /\ call_pass_startup' \in BOOLEAN
        /\ step' = "pass" /\ pass_type' = "output"
    <3>1. /\ is_last_pass' = (pass_number' = total_passes - 1)
          /\ gather' = FALSE /\ call_pass_startup' = FALSE
          /\ step' = "pass" /\ pass_type' = "output"
      BY <1>1
    <3> QED BY <3>1
  <2>7. iMCU_row_num' \in 0 .. total_iMCU_rows(img)
    <3>1. iMCU_row_num' = 0 BY <1>1
    <3>2. total_iMCU_rows(img) \in Nat \ {0} BY <1>4
    <3> QED BY <3>1, <3>2
  <2>2. DOMAIN huff' = Slots /\ DOMAIN told'.tables = Slots
    BY <1>6 DEF TablesInv
  <2>3. last_restart_interval' \in Nat /\ scans' \in Nat /\ written' \in Nat
    <3>1. scans \in Nat BY <1>2 DEF TypeOK
    <3> QED BY <1>6, <1>7, <2>0, <3>1
  <2>4. UNCHANGED <<global_state, params, loops, scan_number, total_passes>>
    BY <1>1
  <2>5. pass_number' \in 0 .. total_passes' /\ pass_number' < total_passes'
    BY <1>2, <1>10, <2>4
  <2>6. marked' = marked /\ phase' = "frame"
    BY <1>7
  <2> QED BY <1>2, <2>0, <2>1, <2>2, <2>3, <2>4, <2>5, <2>6, <2>7 DEF TypeOK, params, loops
<1>12. PassesInv'
  <2>1. is_last_pass' = (pass_number' + 1 = total_passes')
    BY <1>1, <1>2, <1>10
  <2>2. /\ scan_number' = scan_number /\ total_passes' = total_passes /\ scan' = s
        /\ gather' = FALSE /\ pass_type' = "output"
        /\ ~call_pass_startup' /\ step = "next" /\ step' = "pass"
    BY <1>1, <1>3
  <2> QED BY <1>2, <1>8, <1>9, <1>10, <2>1, <2>2 DEF PassesInv, Active, s
<1>13. PlaceInv'
  <2>1. /\ y_now' = 0 /\ x_now' = 0 /\ iMCU_row_num' = 0 /\ mcus' = 0
        /\ per_row' = MCUs_per_row(img, s) /\ scan' = s
    BY <1>1, <1>3, <1>8, <1>9 DEF y_now, x_now, per_row
  <2>2. rows' = RowsOfMCUs(img, s, 0)
    BY <1>8, <2>1 DEF rows, MCU_rows_per_iMCU_row, RowsOfMCUs
  <2> QED BY <1>1, <1>4, <1>8, <1>9, <2>1, <2>2 DEF PlaceInv
<1>14. SavedInv'
  <2>1. iMCU_rows_saved = total_iMCU_rows(img) /\ iMCU_rows_saved' = total_iMCU_rows(img)
    BY <1>1, <1>2, <1>8 DEF iMCU_rows_saved
  <2>2. total_passes' = total_passes /\ whole_image' = whole_image
    BY <1>1
  <2> QED BY <1>2, <1>8, <2>1, <2>2 DEF IInv, SavedInv
<1>15. StreamInv'
  <2>1. scans = scan_number
    BY <1>2 DEF IInv, StreamInv
  <2>2. scan_number' = scan_number /\ mcus' = 0
    BY <1>1
  <2> QED BY <1>7, <1>8, <1>9, <2>1, <2>2 DEF StreamInv
<1>16. ToldInv'
  BY <1>3, <1>6, <1>8 DEF ToldInv
<1>17. CodesInv'
  <2>1. /\ FreshTables /\ ~optimize_coding => \A t \in Slots : huff'[t].for = Standard
    BY <1>2, <1>6 DEF IInv, CodesInv
  <2>2. ASSUME optimize_coding, NEW t \in CodedWith(img, s)
        PROVE  huff'[t].for = [image |-> images, scan |-> scan_number,
                               codes |-> ScanSize(img, s)]
    <3>1. CASE pass_type = "output"
      <4>1. scan = s BY <1>2, <1>1, <2>2, <3>1 DEF PassesInv, s
      <4>2. t \in Slots BY <1>2, HeaderBrings, <2>2
      <4> QED BY <1>1, <1>6, <2>2, <3>1, <4>1, <4>2 DEF IInv, CodesInv
    <3>2. CASE pass_type # "output"
      <4>1. ~OptimizeScan(s) BY <1>1, <3>2 DEF s
      <4>2. CodedWith(img, s) = {}
        BY <1>2, <4>1 DEF OptimizeScan, CodedWith, IsScan, Valid
      <4> QED BY <2>2, <4>2
    <3> QED BY <3>1, <3>2
  <2>3. scan_number' = scan_number
    BY <1>1
  <2> QED BY <1>3, <1>8, <2>1, <2>2, <2>3 DEF CodesInv
<1> QED BY <1>6, <1>11, <1>12, <1>13, <1>14, <1>15, <1>16, <1>17 DEF IInv

(* What an image begins with.                                              *)
LEMMA StartBegins ==
    ASSUME IInv, NEW i \in Images, NEW all \in BOOLEAN, StartImage(i, all)
    PROVE  /\ IsImage(i) /\ num_scans(i) \in Nat \ {0} /\ total_iMCU_rows(i) \in Nat \ {0}
           /\ img' = i /\ images' \in 0 .. MaxImages /\ images' > 0
           /\ optimize_coding' = (i.optimize \/ (progressive_mode(i) /\ ~i.arith))
           /\ optimize_coding' \in BOOLEAN
           /\ pass_number' = 0 /\ scan_number' = 0
           /\ total_passes' = (IF optimize_coding' THEN 2 ELSE 1) * num_scans(i)
           /\ total_passes' \in Nat \ {0}
           /\ phase' = "header" /\ scans' = 0 /\ written' = 0 /\ marked' = FALSE
           /\ last_restart_interval' = 0
           /\ whole_image' = EmptyArrays(i)
           /\ UNCHANGED loops
           /\ TablesInv'
           /\ FreshTables /\ ~optimize_coding' => \A t \in Slots : huff'[t].for = Standard
<1>1. IsImage(i)
  BY ImagesAssumption
<1>2. num_scans(i) \in Nat \ {0} /\ total_iMCU_rows(i) \in Nat \ {0}
  BY <1>1, ScanOf, TotalOf
<1>3. /\ img' = i /\ images' = images + 1 /\ images < MaxImages
      /\ pass_number' = 0 /\ scan_number' = 0
      /\ phase' = "header" /\ scans' = 0 /\ written' = 0 /\ marked' = FALSE
      /\ last_restart_interval' = 0 /\ whole_image' = EmptyArrays(i) /\ UNCHANGED loops
  BY DEF StartImage
<1>4. optimize_coding' = (i.optimize \/ (progressive_mode(i) /\ ~i.arith))
  BY DEF StartImage
<1>5. optimize_coding' \in BOOLEAN
  BY <1>4
<1>6. total_passes' = (IF optimize_coding' THEN 2 ELSE 1) * num_scans(i)
  <2>1. total_passes' = IF optimize_coding' THEN 2 * num_scans(i) ELSE num_scans(i)
    BY <1>4 DEF StartImage
  <2> QED BY <1>2, <1>5, <2>1
<1>7. total_passes' \in Nat \ {0}
  BY <1>2, <1>5, <1>6
<1>8. images' \in 0 .. MaxImages /\ images' > 0
  <2>1. images \in 0 .. MaxImages /\ MaxImages \in Nat
    BY ImagesAssumption DEF IInv, TypeOK
  <2> QED BY <1>3, <2>1
<1>9. huff' = IF all THEN jpeg_suppress_tables(Define(huff, i), FALSE) ELSE Define(huff, i)
  BY DEF StartImage
<1>10. told' = [told EXCEPT !.restart_interval = 0]
  BY DEF StartImage
<1>11. TablesInv
  BY DEF IInv
<1> DEFINE D == Define(huff, i)
<1>12. /\ D = [t \in Slots |-> D[t]]
       /\ \A t \in Slots : D[t] = [for |-> Standard, sent |-> FALSE] \/ D[t] = huff[t]
       /\ FreshTables /\ ~i.optimize => \A t \in Slots : D[t].for = Standard
  <2>1. D = [t \in Slots |-> IF FreshTables /\ ~i.optimize /\ huff[t].for # Standard
                               THEN [for |-> Standard, sent |-> FALSE] ELSE huff[t]]
    BY DEF Define
  <2> HIDE DEF D
  <2> QED BY <2>1
<1>13. \A t \in Slots : /\ D[t] = [for |-> D[t].for, sent |-> D[t].sent]
                        /\ D[t].sent \in BOOLEAN
                        /\ D[t].sent => told.tables[t] = D[t].for
  <2> HIDE DEF D
  <2> SUFFICES ASSUME NEW t \in Slots
               PROVE  /\ D[t] = [for |-> D[t].for, sent |-> D[t].sent]
                      /\ D[t].sent \in BOOLEAN
                      /\ D[t].sent => told.tables[t] = D[t].for
    OBVIOUS
  <2>1. CASE D[t] = [for |-> Standard, sent |-> FALSE]
    BY <2>1
  <2>2. CASE D[t] = huff[t]
    <3>1. /\ huff[t] = [for |-> huff[t].for, sent |-> huff[t].sent]
          /\ huff[t].sent \in BOOLEAN
          /\ huff[t].sent => told.tables[t] = huff[t].for
      BY <1>11 DEF TablesInv
    <3> QED BY <2>2, <3>1
  <2> QED BY <1>12, <2>1, <2>2
<1>14. /\ huff' = [t \in Slots |-> huff'[t]]
       /\ \A t \in Slots : huff'[t] = D[t] \/ huff'[t] = [for |-> D[t].for, sent |-> FALSE]
  <2> HIDE DEF D
  <2>1. CASE all
    <3>1. huff' = [t \in Slots |-> [D[t] EXCEPT !.sent = FALSE]]
      BY <1>9, <2>1 DEF jpeg_suppress_tables, D
    <3>2. ASSUME NEW t \in Slots
          PROVE  huff'[t] = [for |-> D[t].for, sent |-> FALSE]
      <4> DEFINE b == FALSE
      <4>1. huff'[t] = [D[t] EXCEPT !.sent = b]
        BY <3>1, Zenon
      <4>2. D[t] = [for |-> D[t].for, sent |-> D[t].sent]
        BY <1>13
      <4> HIDE DEF b
      <4>3. huff'[t] = [for |-> D[t].for, sent |-> b]
        BY <4>1, <4>2
      <4> QED BY <4>3 DEF b
    <3> QED BY <3>1, <3>2
  <2>2. CASE ~all
    BY <1>9, <1>12, <2>2 DEF D
  <2> QED BY <2>1, <2>2
<1>15. \A t \in Slots : /\ huff'[t] = [for |-> huff'[t].for, sent |-> huff'[t].sent]
                        /\ huff'[t].sent \in BOOLEAN
                        /\ huff'[t].sent => told.tables[t] = huff'[t].for
                        /\ huff'[t].for = D[t].for
  <2> HIDE DEF D
  <2> SUFFICES ASSUME NEW t \in Slots
               PROVE  /\ huff'[t] = [for |-> huff'[t].for, sent |-> huff'[t].sent]
                      /\ huff'[t].sent \in BOOLEAN
                      /\ huff'[t].sent => told.tables[t] = huff'[t].for
                      /\ huff'[t].for = D[t].for
    OBVIOUS
  <2>1. CASE huff'[t] = D[t] BY <1>13, <2>1
  <2>2. CASE huff'[t] = [for |-> D[t].for, sent |-> FALSE] BY <2>2
  <2> QED BY <1>14, <2>1, <2>2
<1> HIDE DEF D
<1>16. told' = [tables |-> told.tables, restart_interval |-> 0]
  BY <1>10, <1>11 DEF TablesInv
<1>17. TablesInv'
  <2>1. huff' = [t \in Slots |-> [for |-> huff'[t].for, sent |-> huff'[t].sent]]
    BY <1>14, <1>15
  <2>2. told'.tables = told.tables /\ told'.restart_interval = 0
    BY <1>16
  <2>3. told.tables = [t \in Slots |-> told.tables[t]]
    BY <1>11 DEF TablesInv
  <2>4. told' = [tables |-> [t \in Slots |-> told'.tables[t]],
                 restart_interval |-> told'.restart_interval]
    BY <1>16, <2>2, <2>3
  <2> QED BY <1>3, <1>15, <2>1, <2>2, <2>4 DEF TablesInv
<1>18. FreshTables /\ ~optimize_coding' => \A t \in Slots : huff'[t].for = Standard
  BY <1>4, <1>12, <1>15
<1> QED BY <1>1, <1>2, <1>3, <1>4, <1>5, <1>6, <1>7, <1>8, <1>17, <1>18

(* jpeg_start_compress, which the arithmetic coder may refuse.             *)
LEMMA StartCompressKeeps ==
    ASSUME IInv, NEW i \in Images, NEW all \in BOOLEAN, jpeg_start_compress(i, all)
    PROVE  IInv'
<1> DEFINE s == select_scan_parameters(i, 0)
           refused == i.arith /\ optimize_coding'
<1>1. /\ ~i.transcode /\ StartImage(i, all)
      /\ pass_type' = "main" /\ scan' = s /\ restart_interval' = RestartInterval(i, s)
      /\ gather' = optimize_coding'
      /\ iMCU_row_num' = 0 /\ mcu_ctr' = 0 /\ MCU_vert_offset' = 0 /\ mcus' = 0
      /\ is_last_pass' = (total_passes' = 1)
      /\ call_pass_startup' = ~optimize_coding'
      /\ IF refused THEN step' = "failed" /\ UNCHANGED global_state
         ELSE step' = "app" /\ global_state' = "SCANNING"
  BY DEF jpeg_start_compress, SetUpScan, StartPass, Fail
<1>2. /\ IsImage(i) /\ num_scans(i) \in Nat \ {0} /\ total_iMCU_rows(i) \in Nat \ {0}
      /\ img' = i /\ images' \in 0 .. MaxImages /\ images' > 0
      /\ optimize_coding' = (i.optimize \/ (progressive_mode(i) /\ ~i.arith))
      /\ optimize_coding' \in BOOLEAN
      /\ pass_number' = 0 /\ scan_number' = 0
      /\ total_passes' = (IF optimize_coding' THEN 2 ELSE 1) * num_scans(i)
      /\ total_passes' \in Nat \ {0}
      /\ phase' = "header" /\ scans' = 0 /\ written' = 0 /\ marked' = FALSE
      /\ last_restart_interval' = 0
      /\ whole_image' = EmptyArrays(i)
      /\ UNCHANGED loops
  BY <1>1, StartBegins
<1>3. TablesInv' /\ (FreshTables /\ ~optimize_coding' => \A t \in Slots : huff'[t].for = Standard)
  BY <1>1, StartBegins
<1>4. global_state = "START" /\ TypeOK
  BY <1>1 DEF StartImage, IInv
<1>5. IsScan(i, s)
  BY <1>2, ScanOf
<1>6. restart_interval' \in Nat
  BY <1>1, <1>2, <1>4, <1>5, IntervalIs
<1>7. /\ MCUs_per_row(i, s) \in Nat \ {0} /\ 0 < MCUs_per_row(i, s)
      /\ 0 < RowsOfMCUs(i, s, 0)
      /\ (MCURowsBefore(i, s, 0) + 0) * MCUs_per_row(i, s) + 0 = 0
  BY <1>2, <1>5, PlaceAtStart
<1> HIDE DEF s
<1>8. /\ \/ refused /\ step' = "failed" /\ global_state' = "START"
         \/ ~refused /\ step' = "app" /\ global_state' = "SCANNING"
  BY <1>1, <1>4
<1>9. ~Compressing' /\ ~Writing' /\ (InPass' => Active') /\ (Active' <=> ~refused)
      /\ (InPass' <=> ~refused)
  <2>1. gather' \/ call_pass_startup'
    BY <1>1, <1>2
  <2> QED BY <1>8, <2>1 DEF Compressing, Writing, InPass, Active
<1>10. TypeOK'
  <2>1. /\ mcu_ctr' \in Nat /\ MCU_vert_offset' \in Nat /\ mcus' \in Nat
        /\ written' \in Nat /\ scans' \in Nat /\ last_restart_interval' \in Nat
    <3>1. /\ mcu_ctr' = 0 /\ MCU_vert_offset' = 0 /\ mcus' = 0
          /\ written' = 0 /\ scans' = 0 /\ last_restart_interval' = 0
      BY <1>1, <1>2
    <3> QED BY <3>1
  <2>2. yoffset' \in Nat /\ MCU_col_num' \in Nat
    BY <1>2, <1>4 DEF loops, TypeOK
  <2>3. iMCU_row_num' \in 0 .. total_iMCU_rows(img') /\ scan_number' \in 0 .. num_scans(img')
        /\ pass_number' \in 0 .. total_passes'
    <3>1. iMCU_row_num' = 0 BY <1>1
    <3> QED BY <1>2, <3>1
  <2>4. /\ is_last_pass' \in BOOLEAN /\ gather' \in BOOLEAN /\ call_pass_startup' \in BOOLEAN
        /\ optimize_coding' \in BOOLEAN /\ marked' \in BOOLEAN
    BY <1>1, <1>2
  <2>5. DOMAIN huff' = Slots /\ DOMAIN told'.tables = Slots
    BY <1>3 DEF TablesInv
  <2>6. ~InLibrary' /\ step' \in {"app", "failed"} /\ global_state' \in {"START", "SCANNING"}
    BY <1>8 DEF InLibrary
  <2>7. pass_type' = "main" /\ img' \in Images /\ images' \in 0 .. MaxImages
        /\ phase' = "header"
    BY <1>1, <1>2
  <2> QED BY <1>6, <2>1, <2>2, <2>3, <2>4, <2>5, <2>6, <2>7 DEF TypeOK
<1>11. PassesInv'
  <2>1. is_last_pass' = (pass_number' + 1 = total_passes')
    BY <1>1, <1>2
  <2>2. /\ scan' = select_scan_parameters(img', scan_number')
        /\ gather' = (optimize_coding' /\ pass_type' # "output")
        /\ pass_type' = "main" /\ call_pass_startup' = ~optimize_coding'
        /\ gather' = optimize_coding' /\ ~i.transcode
    BY <1>1, <1>2 DEF s
  <2>3. scan_number' < num_scans(img')
    BY <1>2
  <2>4. InPass' => /\ scan' = select_scan_parameters(img', scan_number')
                   /\ scan_number' < num_scans(img')
                   /\ is_last_pass' = (pass_number' + 1 = total_passes')
                   /\ gather' = (optimize_coding' /\ pass_type' # "output")
    BY <2>1, <2>2, <2>3
  <2>5. /\ img' \in Images /\ img' = i /\ images' > 0
        /\ optimize_coding' = (img'.optimize \/ (progressive_mode(img') /\ ~img'.arith))
        /\ optimize_coding' \in BOOLEAN
        /\ total_passes' = (IF optimize_coding' THEN 2 ELSE 1) * num_scans(img')
        /\ pass_number' = 0 /\ scan_number' = 0 /\ 2 * scan_number' = 0
    BY <1>2
  <2>6. \/ step' = "failed"
        \/ step' = "app" /\ global_state' = "SCANNING"
    BY <1>8
  <2> QED BY <2>2, <2>4, <2>5, <2>6 DEF PassesInv, Active
<1>12. PlaceInv'
  <2>1. /\ y_now' = 0 /\ x_now' = 0 /\ iMCU_row_num' = 0 /\ mcus' = 0
        /\ per_row' = MCUs_per_row(i, s) /\ scan' = s
    BY <1>1, <1>2, <1>9 DEF y_now, x_now, per_row
  <2>2. rows' = RowsOfMCUs(i, s, 0)
    BY <1>2, <2>1 DEF rows, MCU_rows_per_iMCU_row, RowsOfMCUs
  <2> QED BY <1>2, <1>7, <1>9, <2>1, <2>2 DEF PlaceInv
<1>13. SavedInv'
  <2> SUFFICES ASSUME Active', NEW c \in DOMAIN i.comps
               PROVE  /\ DOMAIN whole_image'[c]
                            = 0 .. total_iMCU_rows(i) * i.comps[c].v - 1
                      /\ \A y \in 0 .. iMCU_rows_saved' * i.comps[c].v - 1 :
                            whole_image'[c][y] = SavedRow(i, c, y)
    BY <1>2 DEF SavedInv
  <2>1. iMCU_rows_saved' = 0
    <3>1. pass_type' = "main" /\ step' # "compress" /\ iMCU_row_num' = 0
      BY <1>1, <1>8
    <3> QED BY <3>1 DEF iMCU_rows_saved
  <2>2. whole_image'[c] = [y \in 0 .. Padded(height_in_blocks(i, c), i.comps[c].v) - 1 |-> << >>]
    BY <1>2 DEF EmptyArrays
  <2>3. DOMAIN whole_image'[c] = 0 .. total_iMCU_rows(i) * i.comps[c].v - 1
    BY <1>2, <2>2, PaddedIs
  <2>4. i.comps[c].v \in Nat
    BY <1>2, FactorsOf
  <2>5. 0 .. iMCU_rows_saved' * i.comps[c].v - 1 = {}
    BY <2>1, <2>4
  <2> QED BY <2>3, <2>5
<1>14. StreamInv'
  BY <1>2, <1>8, <1>9 DEF StreamInv
<1>15. ToldInv'
  BY <1>9 DEF ToldInv
<1>16. CodesInv'
  BY <1>1, <1>3 DEF CodesInv
<1> QED BY <1>3, <1>10, <1>11, <1>12, <1>13, <1>14, <1>15, <1>16 DEF IInv

(* jpeg_write_coefficients.                                                *)
LEMMA WriteCoefficientsKeeps ==
    ASSUME IInv, NEW i \in Images, jpeg_write_coefficients(i)
    PROVE  IInv'
<1>1. /\ i.transcode /\ StartImage(i, TRUE)
      /\ pass_type' = IF optimize_coding' THEN "huff_opt" ELSE "output"
      /\ is_last_pass' = FALSE /\ call_pass_startup' = FALSE
      /\ global_state' = "WRCOEFS"
      /\ iMCU_row_num' = 0 /\ mcu_ctr' = 0 /\ MCU_vert_offset' = 0
      /\ UNCHANGED <<step, setup, mcus>>
  BY DEF jpeg_write_coefficients
<1>2. /\ IsImage(i) /\ num_scans(i) \in Nat \ {0} /\ total_iMCU_rows(i) \in Nat \ {0}
      /\ img' = i /\ images' \in 0 .. MaxImages /\ images' > 0
      /\ optimize_coding' = (i.optimize \/ (progressive_mode(i) /\ ~i.arith))
      /\ optimize_coding' \in BOOLEAN
      /\ pass_number' = 0 /\ scan_number' = 0
      /\ total_passes' = (IF optimize_coding' THEN 2 ELSE 1) * num_scans(i)
      /\ total_passes' \in Nat \ {0}
      /\ phase' = "header" /\ scans' = 0 /\ written' = 0 /\ marked' = FALSE
      /\ last_restart_interval' = 0
      /\ UNCHANGED loops
  BY <1>1, StartBegins
<1>3. TablesInv' /\ (FreshTables /\ ~optimize_coding' => \A t \in Slots : huff'[t].for = Standard)
  BY <1>1, StartBegins
<1>4. step' = "app" /\ TypeOK
  BY <1>1 DEF StartImage, IInv
<1>5. ~Compressing' /\ ~Writing' /\ ~InPass' /\ Active'
  BY <1>1, <1>4 DEF Compressing, Writing, InPass, Active
<1>6. TypeOK'
  <2>1. /\ mcu_ctr' \in Nat /\ MCU_vert_offset' \in Nat
        /\ written' \in Nat /\ scans' \in Nat /\ last_restart_interval' \in Nat
    <3>1. /\ mcu_ctr' = 0 /\ MCU_vert_offset' = 0
          /\ written' = 0 /\ scans' = 0 /\ last_restart_interval' = 0
      BY <1>1, <1>2
    <3> QED BY <3>1
  <2>2. /\ yoffset' \in Nat /\ MCU_col_num' \in Nat /\ mcus' \in Nat
        /\ restart_interval' \in Nat /\ gather' \in BOOLEAN
    <3>1. UNCHANGED <<loops, setup, mcus>> BY <1>1, <1>2
    <3> QED BY <1>4, <3>1 DEF loops, setup, TypeOK
  <2>3. iMCU_row_num' \in 0 .. total_iMCU_rows(img') /\ scan_number' \in 0 .. num_scans(img')
        /\ pass_number' \in 0 .. total_passes'
    <3>1. iMCU_row_num' = 0 BY <1>1
    <3> QED BY <1>2, <3>1
  <2>4. /\ is_last_pass' \in BOOLEAN /\ call_pass_startup' \in BOOLEAN
        /\ optimize_coding' \in BOOLEAN /\ marked' \in BOOLEAN
    BY <1>1, <1>2
  <2>5. DOMAIN huff' = Slots /\ DOMAIN told'.tables = Slots
    BY <1>3 DEF TablesInv
  <2>6. ~InLibrary' /\ step' = "app" /\ global_state' = "WRCOEFS"
    BY <1>1, <1>4 DEF InLibrary
  <2>7. /\ pass_type' \in {"main", "huff_opt", "output"}
        /\ img' \in Images /\ images' \in 0 .. MaxImages /\ phase' = "header"
    BY <1>1, <1>2
  <2> QED BY <2>1, <2>2, <2>3, <2>4, <2>5, <2>6, <2>7 DEF TypeOK
<1>7. PassesInv'
  <2>1. /\ img' \in Images /\ img' = i /\ images' > 0 /\ i.transcode
        /\ optimize_coding' = (img'.optimize \/ (progressive_mode(img') /\ ~img'.arith))
        /\ optimize_coding' \in BOOLEAN
        /\ total_passes' = (IF optimize_coding' THEN 2 ELSE 1) * num_scans(img')
        /\ pass_number' = 0 /\ scan_number' = 0 /\ 2 * scan_number' = 0
    BY <1>1, <1>2
  <2>2. /\ pass_type' = IF optimize_coding' THEN "huff_opt" ELSE "output"
        /\ ~is_last_pass' /\ ~call_pass_startup' /\ global_state' = "WRCOEFS"
        /\ step' = "app"
    BY <1>1, <1>4
  <2> QED BY <1>5, <2>1, <2>2 DEF PassesInv
<1>8. PlaceInv'
  BY <1>5 DEF PlaceInv
<1>9. SavedInv'
  BY <1>1, <1>2 DEF SavedInv
<1>10. StreamInv'
  BY <1>1, <1>2, <1>5 DEF StreamInv
<1>11. ToldInv'
  BY <1>5 DEF ToldInv
<1>12. CodesInv'
  BY <1>3, <1>4, <1>5 DEF CodesInv
<1> QED BY <1>3, <1>6, <1>7, <1>8, <1>9, <1>10, <1>11, <1>12 DEF IInv

-----------------------------------------------------------------------------
(* Initially, and in each step.                                            *)

LEMMA InitHolds == Init => IInv
<1> SUFFICES ASSUME Init PROVE IInv
  OBVIOUS
<1>1. /\ global_state = "START" /\ step = "app" /\ img = NoImage /\ images = 0
      /\ optimize_coding = FALSE /\ pass_type = "main" /\ pass_number = 0
      /\ scan_number = 0 /\ total_passes = 0 /\ is_last_pass = FALSE
      /\ call_pass_startup = FALSE /\ restart_interval = 0 /\ gather = FALSE
      /\ iMCU_row_num = 0 /\ mcu_ctr = 0 /\ MCU_vert_offset = 0
      /\ yoffset = 0 /\ MCU_col_num = 0 /\ mcus = 0
      /\ last_restart_interval = 0
      /\ phase = "none" /\ scans = 0 /\ written = 0 /\ marked = FALSE
  BY DEF Init
<1>2. /\ huff = [t \in Slots |-> [for |-> Standard, sent |-> FALSE]]
      /\ told = [tables |-> [t \in Slots |-> << >>], restart_interval |-> 0]
  BY DEF Init
<1>3. ~Compressing /\ ~InPass /\ ~Active /\ ~Writing
  BY <1>1 DEF Compressing, InPass, Active, Writing
<1>4. total_iMCU_rows(NoImage) \in Nat \ {0} /\ num_scans(NoImage) \in Nat \ {0}
  BY NoImageIs, TotalOf, ScanOf
<1>5. TypeOK
  <2>1. 0 \in 0 .. MaxImages
    BY ImagesAssumption
  <2>2. iMCU_row_num \in 0 .. total_iMCU_rows(img) /\ scan_number \in 0 .. num_scans(img)
        /\ pass_number \in 0 .. total_passes
    <3>1. iMCU_row_num = 0 /\ scan_number = 0 /\ pass_number = 0 /\ total_passes = 0
          /\ img = NoImage
      BY <1>1
    <3> QED BY <1>4, <3>1
  <2>3. DOMAIN huff = Slots /\ DOMAIN told.tables = Slots
    BY <1>2
  <2>4. ~InLibrary BY <1>1 DEF InLibrary
  <2>5. {mcu_ctr, MCU_vert_offset, yoffset, MCU_col_num, mcus, written, scans,
         restart_interval, last_restart_interval} \subseteq Nat
    BY <1>1
  <2>6. {optimize_coding, is_last_pass, call_pass_startup, gather, marked} \subseteq BOOLEAN
    BY <1>1
  <2>7. images \in 0 .. MaxImages /\ img \in Images \cup {NoImage}
    BY <1>1, <2>1
  <2>8. /\ global_state = "START" /\ step = "app" /\ pass_type = "main" /\ phase = "none"
    BY <1>1
  <2> QED BY <2>2, <2>3, <2>4, <2>5, <2>6, <2>7, <2>8 DEF TypeOK
<1>6. PassesInv /\ PlaceInv /\ SavedInv /\ StreamInv /\ ToldInv
  BY <1>1, <1>3 DEF PassesInv, PlaceInv, SavedInv, StreamInv, ToldInv
<1>7. TablesInv
  BY <1>1, <1>2 DEF TablesInv
<1>8. CodesInv
  BY <1>1, <1>3 DEF CodesInv
<1> QED BY <1>5, <1>6, <1>7, <1>8 DEF IInv

(* One step for each operation.                                            *)
LEMMA NextKeeps ==
    ASSUME IInv, [Next]_vars
    PROVE  IInv'
<1>1. CASE UNCHANGED vars BY <1>1, StutterKeeps
<1>2. CASE \E i \in Images, all \in BOOLEAN : jpeg_start_compress(i, all)
  BY <1>2, StartCompressKeeps
<1>3. CASE \E i \in Images : jpeg_write_coefficients(i)
  BY <1>3, WriteCoefficientsKeeps
<1>4. CASE jpeg_write_marker BY <1>4, MarkerKeeps
<1>5. CASE pass_startup BY <1>5, StartupKeeps
<1>6. CASE CallCompress BY <1>6, CallKeeps
<1>7. CASE EncodeMCU BY <1>7, EncodeKeeps
<1>8. CASE EndRow BY <1>8, EndRowKeeps
<1>9. CASE SuspendMCU BY <1>9, SuspendKeeps
<1>10. CASE jpeg_finish_compress \/ FinishPass BY <1>10, FinishCompressKeeps
<1>11. CASE jpeg_finish_compress_coefs BY <1>11, FinishCoefsKeeps
<1>12. CASE PrepareOptimization BY <1>12, PrepareOptimizationKeeps
<1>13. CASE PrepareOutput BY <1>13, PrepareOutputKeeps
<1>14. CASE EmitFails BY <1>14, EmitFailsKeeps
<1>15. CASE FinishImage \/ jpeg_abort_compress BY <1>15, FinishImageKeeps
<1> QED BY <1>1, <1>2, <1>3, <1>4, <1>5, <1>6, <1>7, <1>8, <1>9, <1>10, <1>11,
           <1>12, <1>13, <1>14, <1>15 DEF Next

LEMMA Invariance == Spec => []IInv
<1>1. Init => IInv BY InitHolds
<1>2. IInv /\ [Next]_vars => IInv' BY NextKeeps
<1> QED BY <1>1, <1>2, PTL DEF Spec

-----------------------------------------------------------------------------
(* The MCUs.                                                               *)

(* The next MCU is the one of the standard.                                *)
LEMMA FormedNow == IInv => MCUsInOrder
<1> SUFFICES ASSUME IInv, Compressing, MoreMCUs, NEW k \in DOMAIN scan.comps
             PROVE  MCUBlocks(scan.comps[k]) = RefBlocks(scan.comps[k], mcus)
  BY DEF MCUsInOrder
<1> DEFINE c == scan.comps[k]
<1>1. /\ Place /\ Active /\ TypeOK /\ PassesInv /\ InPass
      /\ iMCU_row_num \in Nat /\ iMCU_row_num < total_iMCU_rows(img)
  BY NextMCU DEF IInv
<1>2. c \in DOMAIN img.comps /\ img.comps[c].v \in Nat /\ total_iMCU_rows(img) \in Nat
  BY <1>1, ScanComponents, FactorsOf, TotalOf DEF Place
<1> HIDE DEF c
<1>3. CASE img.transcode \/ total_passes = 1
  <2>1. BlocksMade(c, yoffset, MCU_col_num) = RefBlocks(c, mcus)
    BY <1>1, MadeIsRef DEF c
  <2> QED BY <1>3, <2>1 DEF MCUBlocks, c
<1>4. CASE ~(img.transcode \/ total_passes = 1)
  <2>1. total_passes > 1
    <3>1. num_scans(img) \in Nat \ {0}
      BY <1>1, ImageNow
    <3>2. total_passes = (IF optimize_coding THEN 2 ELSE 1) * num_scans(img)
      BY <1>1 DEF PassesInv
    <3> QED BY <1>4, <3>1, <3>2
  <2>2. \A y \in 0 .. iMCU_rows_saved * img.comps[c].v - 1 :
           whole_image[c][y] = SavedRow(img, c, y)
    BY <1>1, <1>2, <1>4, <2>1 DEF IInv, SavedInv
  <2>3. iMCU_rows_saved \in Nat /\ iMCU_row_num + 1 <= iMCU_rows_saved
    <3>1. pass_type = "main" => step = "compress"
      BY <1>1, <1>4 DEF PassesInv, Compressing
    <3> QED BY <1>1, <1>2, <3>1 DEF iMCU_rows_saved
  <2>4. (iMCU_row_num + 1) * img.comps[c].v <= iMCU_rows_saved * img.comps[c].v
    BY <1>1, <1>2, <2>3, AtMost
  <2>5. /\ (iMCU_row_num + 1) * img.comps[c].v \in Nat
        /\ iMCU_rows_saved * img.comps[c].v \in Nat
    BY <1>1, <1>2, <2>3
  <2>6. 0 .. (iMCU_row_num + 1) * img.comps[c].v - 1
           \subseteq 0 .. iMCU_rows_saved * img.comps[c].v - 1
    BY <2>4, <2>5
  <2>7. \A y \in 0 .. (iMCU_row_num + 1) * img.comps[c].v - 1 :
           whole_image[c][y] = SavedRow(img, c, y)
    BY <2>2, <2>6
  <2>8. BlocksSaved(c, yoffset, MCU_col_num) = RefBlocks(c, mcus)
    BY <1>1, <2>7, SavedIsRef DEF c
  <2> QED BY <1>4, <2>8 DEF MCUBlocks, c
<1> QED BY <1>3, <1>4

(* The counters of passes, scans and iMCU rows keep to their bounds, and   *)
(* every MCU that compress_data, compress_first_pass with compress_output, *)
(* or the transcoder's compress_output forms has the blocks, real and      *)
(* dummy, that the standard puts there, after any suspension.              *)
THEOREM MCUsAreFormed == Spec => []MCUsFormed
<1>1. IInv => MCUsFormed
  BY FormedNow DEF IInv, MCUsFormed
<1> QED BY <1>1, Invariance, PTL

(* The MCUs of a scan are fewer than it has when another one follows.      *)
LEMMA MCUsLeft ==
    ASSUME IInv, Compressing, MoreMCUs
    PROVE  mcus < ScanSize(img, scan)
<1> DEFINE T == MCURowsBefore(img, scan, total_iMCU_rows(img))
           q == MCURowsBefore(img, scan, iMCU_row_num) + yoffset
<1>1. Place
  BY NextMCU
<1>2. q \in Nat /\ per_row \in Nat \ {0}
  BY <1>1, RowsAddUp, PerRow DEF Place, per_row
<1>3. q < T
  BY <1>1, RowsBelow DEF Place
<1>4. T \in Nat /\ ScanSize(img, scan) = T * per_row
  BY <1>1, AllRows DEF Place, per_row
<1>5. mcus = q * per_row + MCU_col_num /\ MCU_col_num \in Nat /\ MCU_col_num < per_row
  BY <1>1 DEF Place
<1> HIDE DEF T, q
<1>6. (q + 1) * per_row <= T * per_row
  BY <1>2, <1>3, <1>4, AtMost
<1>7. (q + 1) * per_row = q * per_row + per_row
  BY <1>2
<1>8. q * per_row \in Nat /\ T * per_row \in Nat
  BY <1>2, <1>4
<1> QED BY <1>2, <1>4, <1>5, <1>6, <1>7, <1>8

-----------------------------------------------------------------------------
(* The tables.                                                             *)

(* The next MCU is coded as the decoder was told.                          *)
LEMMA ToldNow == IInv => EncodedAsTold
<1> SUFFICES ASSUME IInv, Compressing, ~gather
             PROVE  /\ \A t \in CodedWith(img, scan) : told.tables[t] = huff[t].for
                    /\ told.restart_interval = restart_interval
  BY DEF EncodedAsTold
<1>1. Writing /\ InPass /\ TypeOK /\ PassesInv
  BY NextMCU DEF Writing, IInv
<1>2. IsImage(img) /\ IsScan(img, scan)
  BY <1>1, ScanNow
<1>3. \A t \in CodedWith(img, scan) : t \in Slots
  BY <1>2, HeaderBrings
<1> QED BY <1>1, <1>3 DEF IInv, TablesInv, ToldInv

(* Whatever the application does with the tables, every MCU that is put    *)
(* out is coded with tables and a restart interval that the datastream has *)
(* told the decoder before: sent_table of emit_dht is never wrong, over    *)
(* images, passes and suspensions.                                         *)
THEOREM TablesAreTold == Spec => []EncodedAsTold
<1> QED BY ToldNow, Invariance, PTL

(* The next MCU is coded with tables meant for it.                         *)
LEMMA CodesNow == ASSUME FreshTables PROVE IInv => CodesForAll
<1> SUFFICES ASSUME IInv, Compressing, MoreMCUs, ~gather, NEW t \in CodedWith(img, scan)
             PROVE  \/ huff[t].for = Standard
                    \/ /\ huff[t].for.image = images /\ huff[t].for.scan = scan_number
                       /\ mcus < huff[t].for.codes
  BY DEF CodesForAll
<1>1. InPass /\ Active /\ TypeOK /\ PassesInv
  BY NextMCU DEF IInv
<1>2. IsImage(img) /\ IsScan(img, scan)
  BY <1>1, ScanNow
<1>3. t \in Slots
  BY <1>2, HeaderBrings
<1>4. CASE ~optimize_coding
  BY <1>1, <1>3, <1>4 DEF IInv, CodesInv
<1>5. CASE optimize_coding
  <2>1. pass_type = "output"
    BY <1>1, <1>5 DEF PassesInv
  <2>2. huff[t].for = [image |-> images, scan |-> scan_number,
                       codes |-> ScanSize(img, scan)]
    BY <1>1, <1>5, <2>1 DEF IInv, CodesInv
  <2> QED BY <2>2, MCUsLeft
<1> QED BY <1>4, <1>5

(* An application that defines its tables anew before an image that is not *)
(* optimized has each scan coded with the tables that finish_pass_gather   *)
(* made from that very scan, or with those it defined; without the         *)
(* hypothesis the next image is coded with tables that are left over.      *)
THEOREM CodedAsMeant == ASSUME FreshTables PROVE Spec => []CodedAsTold
<1>1. IInv => CodedAsTold
  BY ToldNow, CodesNow DEF CodedAsTold
<1> QED BY <1>1, Invariance, PTL

-----------------------------------------------------------------------------
(* The datastream.                                                         *)

Sizes == [k \in 1 .. (IF images = 0 THEN 0 ELSE num_scans(img)) |->
             ScanSize(img, select_scan_parameters(img, k - 1))]

(* The scans of the datastream are those of the script.                    *)
LEMMA SizesAre ==
    ASSUME IInv, images > 0
    PROVE  /\ Len(Sizes) = num_scans(img)
           /\ \A k \in 1 .. num_scans(img) : Sizes[k] = SizeOfScan(k - 1)
<1> DEFINE n == num_scans(img)
           size(k) == ScanSize(img, select_scan_parameters(img, k - 1))
<1>1. n \in Nat /\ images # 0
  BY ImageNow DEF IInv
<1> HIDE DEF n
<1>2. Sizes = [k \in 1 .. n |-> size(k)]
  BY <1>1 DEF Sizes, n
<1>3. \A k \in 1 .. n : Sizes[k] = size(k)
  <2> HIDE DEF size
  <2> QED BY <1>2
<1>4. Len(Sizes) = n
  <2> HIDE DEF size
  <2> QED BY <1>1, <1>2
<1> QED BY <1>3, <1>4 DEF SizeOfScan, n

LEMMA ScansCounted ==
    ASSUME TypeOK
    PROVE  num_scans(img) \in Nat \ {0} /\ scan_number \in Nat
<1>1. num_scans(img) \in Nat \ {0}
  BY ImageNow
<1>2. scan_number \in 0 .. num_scans(img)
  BY DEF TypeOK
<1> QED BY <1>1, <1>2

(* A step of the compressor that puts out nothing.                         *)
LEMMA PutsNothing ==
    ASSUME UNCHANGED <<params, phase, scans, written, marked>>
    PROVE  UNCHANGED DS!vars
BY DEF params, DS!vars

LEMMA StartBeginsStream ==
    ASSUME IInv, NEW i \in Images, NEW all \in BOOLEAN, StartImage(i, all)
    PROVE  DS!WriteFileHeader
<1>1. /\ global_state = "START" /\ step = "app"
      /\ phase' = "header" /\ scans' = 0 /\ written' = 0 /\ marked' = FALSE
  BY DEF StartImage
<1> QED BY <1>1 DEF IInv, StreamInv, DS!WriteFileHeader

(* Special markers come before the frame header.                           *)
LEMMA MarkerInPlace ==
    ASSUME IInv, jpeg_write_marker
    PROVE  DS!WriteMarker
<1>1. /\ step = "app"
      /\ \/ global_state = "WRCOEFS"
         \/ /\ global_state = "SCANNING" /\ iMCU_row_num = 0
            /\ call_pass_startup \/ (optimize_coding /\ mcus = 0)
      /\ marked' = TRUE
      /\ UNCHANGED <<params, phase, scans, written>>
  BY DEF jpeg_write_marker
<1>2. PassesInv /\ Active
  BY <1>1 DEF IInv, Active
<1>3. ~Writing /\ scan_number = 0
  <2>1. CASE global_state = "WRCOEFS"
    BY <1>1, <1>2, <2>1 DEF Writing, InPass, Compressing, PassesInv
  <2>2. CASE global_state = "SCANNING"
    <3>1. InPass /\ ~img.transcode /\ pass_type = "main"
      BY <1>1, <1>2, <2>2 DEF InPass, PassesInv
    <3> QED BY <1>1, <1>2, <2>2, <3>1 DEF PassesInv, Writing
  <2> QED BY <1>1, <2>1, <2>2
<1>4. phase = "header"
  BY <1>2, <1>3 DEF IInv, StreamInv
<1> QED BY <1>1, <1>4 DEF DS!WriteMarker, params

(* Headers come before the first scan and between complete ones.           *)
LEMMA HeadersInPlace ==
    ASSUME IInv, Active, ~Writing, images > 0, scan_number < num_scans(img),
           NEW tables, NEW i, NEW s, NEW interval,
           WriteHeaders(tables, i, s, interval), UNCHANGED params
    PROVE  DS!WriteScanHeader
<1>1. /\ phase' = "frame" /\ scans' = scans + 1 /\ written' = 0 /\ UNCHANGED marked
  BY DEF WriteHeaders
<1>2. num_scans(img) \in Nat /\ scan_number \in Nat
  BY ScansCounted DEF IInv
<1>3. Len(Sizes) = num_scans(img)
      /\ \A k \in 1 .. num_scans(img) : Sizes[k] = SizeOfScan(k - 1)
  BY SizesAre
<1>4. Sizes' = Sizes
  BY DEF Sizes, params
<1>5. \/ phase = "header" /\ scans = 0
      \/ phase = "frame" /\ scans > 0 /\ (scans > 0 => written = Sizes[scans])
  <2>1. CASE scan_number = 0
    BY <2>1 DEF IInv, StreamInv
  <2>2. CASE scan_number # 0
    <3>1. phase = "frame" /\ scans = scan_number /\ written = SizeOfScan(scans - 1)
      BY <2>2 DEF IInv, StreamInv
    <3>2. scans \in 1 .. num_scans(img) /\ scans > 0
      BY <1>2, <2>2, <3>1
    <3> QED BY <1>3, <3>1, <3>2
  <2> QED BY <2>1, <2>2
<1>6. scans < Len(Sizes)
  <2>1. scans = scan_number
    BY DEF IInv, StreamInv
  <2> QED BY <1>3, <2>1
<1> QED BY <1>1, <1>4, <1>5, <1>6 DEF DS!WriteScanHeader, DS!ScanComplete, Sizes

(* An MCU is put out into its scan, unless the pass gathers statistics.    *)
LEMMA MCUInScan ==
    ASSUME IInv, EncodeMCU
    PROVE  DS!WriteMCU \/ UNCHANGED DS!vars
<1>1. /\ Compressing /\ MoreMCUs
      /\ written' = IF gather THEN written ELSE written + 1
      /\ UNCHANGED <<params, phase, scans, marked>>
  BY DEF EncodeMCU
<1>2. CASE gather
  BY <1>1, <1>2, PutsNothing
<1>3. CASE ~gather
  <2>1. Writing /\ Active /\ InPass /\ PassesInv /\ TypeOK
    BY <1>1, <1>3, NextMCU DEF Writing, IInv
  <2>2. phase = "frame" /\ scans = scan_number + 1 /\ written = mcus
    BY <2>1 DEF IInv, StreamInv
  <2>3. /\ images > 0 /\ scan = select_scan_parameters(img, scan_number)
        /\ scan_number < num_scans(img)
    BY <2>1 DEF PassesInv
  <2>4. num_scans(img) \in Nat /\ scan_number \in Nat
    BY <2>1, ScansCounted
  <2>5. Sizes[scans] = ScanSize(img, scan)
    <3>1. scans \in 1 .. num_scans(img) /\ scans - 1 = scan_number
      BY <2>2, <2>3, <2>4
    <3> QED BY <2>3, <3>1, SizesAre DEF SizeOfScan
  <2>6. written < Sizes[scans]
    BY <1>1, <2>2, <2>5, MCUsLeft
  <2>7. Sizes' = Sizes
    BY <1>1 DEF Sizes, params
  <2> QED BY <1>1, <1>3, <2>2, <2>6, <2>7 DEF DS!WriteMCU, Sizes
<1> QED BY <1>2, <1>3

(* After the last pass there is no scan left.                              *)
LEMMA TrailerInPlace ==
    ASSUME IInv, FinishImage
    PROVE  DS!WriteTrailer
<1>1. /\ step = "next" /\ is_last_pass /\ phase' = "ended"
      /\ UNCHANGED <<params, scans, written, marked>>
  BY DEF FinishImage
<1>2. PassesInv /\ TypeOK /\ Active /\ ~Writing
  BY <1>1 DEF IInv, PassesInv, Active, Writing, InPass, Compressing
<1>3. num_scans(img) \in Nat \ {0} /\ scan_number \in Nat
  BY <1>2, ScansCounted
<1>4. scan_number = num_scans(img)
  <2>1. /\ pass_number = total_passes
        /\ optimize_coding \in BOOLEAN
        /\ total_passes = (IF optimize_coding THEN 2 ELSE 1) * num_scans(img)
        /\ pass_number = IF ~optimize_coding THEN scan_number
                         ELSE IF pass_type = "output" THEN 2 * scan_number + 1
                         ELSE 2 * scan_number
    BY <1>1, <1>2 DEF PassesInv, TypeOK
  <2> QED BY <1>3, <2>1
<1>5. phase = "frame" /\ scans = scan_number /\ written = SizeOfScan(scans - 1)
  BY <1>2, <1>3, <1>4 DEF IInv, StreamInv
<1>6. Len(Sizes) = num_scans(img) /\ Sizes[scans] = SizeOfScan(scans - 1)
  <2>1. images > 0 BY <1>2 DEF PassesInv
  <2>2. scans \in 1 .. num_scans(img) BY <1>3, <1>4, <1>5
  <2> QED BY <2>1, <2>2, SizesAre
<1>7. Sizes' = Sizes
  BY <1>1 DEF Sizes, params
<1> QED BY <1>1, <1>4, <1>5, <1>6, <1>7 DEF DS!WriteTrailer, DS!ScanComplete, Sizes

(* One step of Datastream, or none, for each operation.                    *)
LEMMA StepPutsOut ==
    ASSUME IInv, [Next]_vars
    PROVE  [DS!Next]_(DS!vars)
<1> USE DEF DS!Next
<1>1. CASE UNCHANGED vars
  BY <1>1, PutsNothing DEF vars, stream
<1>2. CASE \E i \in Images, all \in BOOLEAN : jpeg_start_compress(i, all)
  BY <1>2, StartBeginsStream DEF jpeg_start_compress
<1>3. CASE \E i \in Images : jpeg_write_coefficients(i)
  BY <1>3, StartBeginsStream DEF jpeg_write_coefficients
<1>4. CASE jpeg_write_marker BY <1>4, MarkerInPlace
<1>5. CASE pass_startup
  <2>1. /\ step = "app" /\ global_state = "SCANNING" /\ call_pass_startup
        /\ WriteHeaders(huff, img, scan, restart_interval) /\ UNCHANGED params
    BY <1>5 DEF pass_startup
  <2>2. Active /\ ~Writing /\ images > 0 /\ scan_number < num_scans(img)
    BY <2>1 DEF Active, Writing, InPass, IInv, PassesInv
  <2> QED BY <2>1, <2>2, HeadersInPlace
<1>6. CASE PrepareOutput
  <2>1. /\ step = "next" /\ ~is_last_pass /\ UNCHANGED params
        /\ WriteHeaders(huff, img, scan', restart_interval')
    BY <1>6 DEF PrepareOutput
  <2>2. Active /\ ~Writing /\ scan_number < num_scans(img)
    BY <2>1, PassToPrepare
  <2>3. images > 0
    BY <2>2 DEF IInv, PassesInv
  <2> QED BY <2>1, <2>2, <2>3, HeadersInPlace
<1>7. CASE EncodeMCU BY <1>7, MCUInScan
<1>8. CASE FinishImage BY <1>8, TrailerInPlace
<1>9. CASE jpeg_abort_compress
  <2>1. /\ phase' = phase \/ phase' = "none"
        /\ UNCHANGED <<params, scans, written, marked>>
    BY <1>9 DEF jpeg_abort_compress
  <2> QED BY <2>1, PutsNothing DEF DS!Abort
<1>10. CASE CallCompress \/ EndRow \/ SuspendMCU
  BY <1>10, PutsNothing DEF CallCompress, EndRow, SuspendMCU, stream
<1>11. CASE \/ jpeg_finish_compress \/ FinishPass \/ jpeg_finish_compress_coefs
            \/ PrepareOptimization \/ EmitFails
  BY <1>11, PutsNothing
     DEF jpeg_finish_compress, FinishPass, finish_pass_master, jpeg_finish_compress_coefs,
         PrepareOptimization, EmitFails, stream
<1> QED BY <1>1, <1>2, <1>3, <1>4, <1>5, <1>6, <1>7, <1>8, <1>9, <1>10, <1>11 DEF Next

(* The datastream has one frame header, special markers before it only,    *)
(* every scan of the script once, in order and with all its MCUs, however  *)
(* many passes the master control makes and wherever the destination       *)
(* suspends: the compressor implements Datastream.                         *)
THEOREM DatastreamImplemented == Spec => ImplementsDatastream
<1>1. Init => DS!Init
  BY DEF Init, DS!Init
<1>2. IInv /\ [Next]_vars => [DS!Next]_(DS!vars)
  BY StepPutsOut
<1> QED BY <1>1, <1>2, Invariance, PTL DEF Spec, ImplementsDatastream, DS!Spec

=============================================================================
