--------------------------- MODULE CompRowsProofs ---------------------------
(***************************************************************************)
(* The rows on their way into the compressor, proved for every image,      *)
(* every DCTSIZE and every number of lines in a call: the bookkeeping of   *)
(* the suspension hack of jcmainct.c, the ranges of the counters, and that *)
(* every iMCU row is made of the rows it should be, so that the whole      *)
(* implements ScanlineWriter.                                              *)
(***************************************************************************)
EXTENDS CompRows, TLAPS

(* The counters are integers, and between calls no row is in progress.     *)
CountersOK ==
    /\ setup \in Setups
    /\ FlagsOK
    /\ rows_to_go \in Int /\ next_scanline \in Int
    /\ in_row_ctr \in Int /\ in_rows_avail \in Int
    /\ next_buf_row \in Int /\ next_buf_stop \in Int
    /\ ~in_call => in_row_ctr = 0

AccountsInv == CountersOK /\ RowsAccountedFor

counters == <<setup, rows_to_go, next_scanline, in_row_ctr, in_rows_avail,
              next_buf_row, next_buf_stop, suspended, in_call>>

LEMMA MinIsInt == ASSUME NEW a \in Int, NEW b \in Int PROVE Min2(a, b) \in Int
BY DEF Min2

LEMMA SizesAreInt ==
    ASSUME setup \in Setups
    PROVE  /\ max_v_samp_factor \in Nat \ {0} /\ image_height \in Nat \ {0}
           /\ need_context_rows \in BOOLEAN
           /\ buf_height \in Nat \ {0}
<1>1. /\ setup.V \in Nat \ {0} /\ setup.image_height \in Nat \ {0}
      /\ setup.context \in BOOLEAN
  BY RowsAssumption
<1> QED BY <1>1 DEF max_v_samp_factor, image_height, need_context_rows, buf_height

LEMMA InitAccounts == ASSUME Init PROVE AccountsInv
<1>1. setup \in Setups BY DEF Init
<1>2. image_height \in Int /\ max_v_samp_factor \in Int BY <1>1, SizesAreInt
<1>3. /\ rows_to_go = image_height /\ next_scanline = 0 /\ in_row_ctr = 0
      /\ in_rows_avail = 0 /\ next_buf_row = 0 /\ suspended = FALSE
      /\ next_buf_stop = 2 * max_v_samp_factor /\ in_call = FALSE
  BY DEF Init
<1>4. CountersOK
  <2>1. FlagsOK BY <1>3 DEF FlagsOK
  <2> QED BY <1>1, <1>2, <1>3, <2>1 DEF CountersOK
<1>5. RowsAccountedFor BY <1>2, <1>3 DEF RowsAccountedFor
<1> QED BY <1>4, <1>5 DEF AccountsInv

(* What the preprocessor takes from the application's buffer it counts.    *)
LEMMA TakingKeepsAccounts ==
    ASSUME AccountsInv, in_call,
           NEW n \in Int, TakeRows(n),
           UNCHANGED <<api, suspended>>,
           next_buf_row' \in Int, next_buf_stop' \in Int
    PROVE  AccountsInv'
<1>1. /\ in_row_ctr' = in_row_ctr + n /\ rows_to_go' = rows_to_go - n
      /\ setup' = setup /\ next_scanline' = next_scanline
      /\ in_rows_avail' = in_rows_avail /\ suspended' = suspended
      /\ in_call' = in_call
  BY DEF TakeRows, api
<1>2. image_height' = image_height BY <1>1 DEF image_height
<1>3. image_height \in Int BY SizesAreInt DEF AccountsInv, CountersOK
<1>4. CountersOK'
  <2>1. FlagsOK' BY <1>1 DEF AccountsInv, CountersOK, FlagsOK
  <2> QED BY <1>1, <2>1 DEF AccountsInv, CountersOK
<1>5. RowsAccountedFor'
  BY <1>1, <1>2, <1>3 DEF AccountsInv, CountersOK, RowsAccountedFor
<1> QED BY <1>4, <1>5 DEF AccountsInv

LEMMA ReturnKeepsAccounts ==
    ASSUME AccountsInv, in_call,
           NEW rows \in Int, Return(rows),
           \/ rows = in_row_ctr /\ suspended' = suspended
           \/ rows = RowsTakenWhenSuspended /\ suspended' = TRUE
    PROVE  AccountsInv'
<1>1. /\ in_call' = FALSE /\ next_scanline' = next_scanline + rows
      /\ in_row_ctr' = 0 /\ in_rows_avail' = 0
      /\ setup' = setup /\ rows_to_go' = rows_to_go
      /\ next_buf_row' = next_buf_row /\ next_buf_stop' = next_buf_stop
  BY DEF Return, prep
<1>2. image_height' = image_height BY <1>1 DEF image_height
<1>3. image_height \in Int BY SizesAreInt DEF AccountsInv, CountersOK
<1>4. CountersOK'
  <2>1. FlagsOK'
    BY <1>1 DEF AccountsInv, CountersOK, FlagsOK
  <2>2. next_scanline + rows \in Int BY DEF AccountsInv, CountersOK
  <2> QED BY <1>1, <2>1, <2>2 DEF AccountsInv, CountersOK
<1>5. RowsAccountedFor'
  BY <1>1, <1>2, <1>3 DEF AccountsInv, CountersOK, RowsAccountedFor,
                          RowsTakenWhenSuspended
<1> QED BY <1>4, <1>5 DEF AccountsInv

LEMMA NextAccounts == ASSUME AccountsInv, [Next]_vars PROVE AccountsInv'
<1> USE DEF AccountsInv
<1>0. /\ max_v_samp_factor \in Int /\ image_height \in Int
      /\ buf_height \in Nat \ {0}
  BY SizesAreInt DEF CountersOK
<1>1. ASSUME NEW n \in 0 .. MaxLines, jpeg_write_scanlines(n)
      PROVE  AccountsInv'
  <2>1. /\ in_row_ctr' = 0 /\ in_call' = TRUE /\ in_row_ctr = 0
        /\ setup' = setup /\ next_scanline' = next_scanline
        /\ rows_to_go' = rows_to_go /\ suspended' = suspended
        /\ next_buf_row' = next_buf_row /\ next_buf_stop' = next_buf_stop
        /\ in_rows_avail' = Min2(n, image_height - next_scanline)
    BY <1>1 DEF jpeg_write_scanlines, prep, main, CountersOK
  <2>2. in_rows_avail' \in Int
    BY <1>0, <2>1, MinIsInt, RowsAssumption DEF CountersOK
  <2>3. image_height' = image_height BY <2>1 DEF image_height
  <2>4. CountersOK'
    <3>1. FlagsOK' BY <2>1 DEF CountersOK, FlagsOK
    <3> QED BY <2>1, <2>2, <3>1 DEF CountersOK
  <2> QED BY <2>1, <2>3, <2>4 DEF RowsAccountedFor
<1>2. CASE PreProcessRows
  <2> DEFINE n == Wanted(max_v_samp_factor)
  <2>1. n \in Int BY <1>0, MinIsInt DEF Wanted, CountersOK
  <2>2. TakeRows(n) /\ in_call /\ UNCHANGED <<api, suspended, next_buf_stop>>
    BY <1>2 DEF PreProcessRows, Processing
  <2>3. \/ next_buf_row' = 0
        \/ next_buf_row' = next_buf_row + n
    BY <1>2 DEF PreProcessRows
  <2>4. next_buf_row' \in Int /\ next_buf_stop' \in Int
    BY <2>1, <2>2, <2>3 DEF CountersOK
  <2> QED BY <2>1, <2>2, <2>4, TakingKeepsAccounts
<1>3. CASE PreProcessContext
  <2> DEFINE n == IF MoreRows THEN Wanted(next_buf_stop) ELSE 0
  <2>1. n \in Int BY <1>0, MinIsInt DEF Wanted, CountersOK
  <2>2. in_call /\ UNCHANGED <<api, suspended>>
    BY <1>3 DEF PreProcessContext, Processing
  <2>3. TakeRows(n)
    BY <1>3 DEF PreProcessContext, TakeRows, CountersOK
  <2> DEFINE filled == IF MoreRows THEN next_buf_row + n ELSE next_buf_stop
  <2>4. filled \in Int BY <2>1 DEF CountersOK
  <2>5. \/ /\ next_buf_row' = filled % buf_height
           /\ next_buf_stop' = (filled % buf_height) + max_v_samp_factor
        \/ next_buf_row' = filled /\ next_buf_stop' = next_buf_stop
    BY <1>3 DEF PreProcessContext, AdvanceContext, StopAfter
  <2> HIDE DEF filled
  <2>6. next_buf_row' \in Int /\ next_buf_stop' \in Int
    <3>1. filled % buf_height \in Int BY <1>0, <2>4
    <3>2. (filled % buf_height) + max_v_samp_factor \in Int BY <1>0, <3>1
    <3> QED BY <2>4, <2>5, <3>1, <3>2 DEF CountersOK
  <2> QED BY <2>1, <2>2, <2>3, <2>6, TakingKeepsAccounts
<1>4. CASE CompressRow
  <2>1. /\ setup' = setup /\ rows_to_go' = rows_to_go
        /\ next_scanline' = next_scanline /\ in_call' = in_call /\ in_call
        /\ in_rows_avail' = in_rows_avail /\ suspended' = FALSE
        /\ next_buf_row' = next_buf_row /\ next_buf_stop' = next_buf_stop
        /\ in_row_ctr' = RowsTaken
    BY <1>4 DEF CompressRow, prep, api, Processing
  <2>2. image_height' = image_height BY <2>1 DEF image_height
  <2>3. CountersOK'
    <3>1. RowsTaken \in Int BY DEF CountersOK, RowsTaken
    <3>2. FlagsOK' BY <2>1 DEF CountersOK, FlagsOK
    <3> QED BY <2>1, <3>1, <3>2 DEF CountersOK
  <2> QED BY <1>0, <2>1, <2>2, <2>3 DEF RowsAccountedFor, RowsTaken, CountersOK
<1>5. CASE SuspendRow
  <2>1. in_call /\ suspended' = TRUE /\ Return(RowsTakenWhenSuspended)
    BY <1>5 DEF SuspendRow, Processing
  <2>2. RowsTakenWhenSuspended \in Int
    BY DEF RowsTakenWhenSuspended, CountersOK
  <2> QED BY <2>1, <2>2, ReturnKeepsAccounts
<1>6. CASE ReturnForMore
  <2>1. in_call /\ suspended' = suspended /\ Return(in_row_ctr)
    BY <1>6 DEF ReturnForMore
  <2>2. in_row_ctr \in Int BY DEF CountersOK
  <2> QED BY <2>1, <2>2, ReturnKeepsAccounts
<1>7. CASE UNCHANGED vars
  <2>1. UNCHANGED counters
    BY <1>7 DEF vars, prep, main, api, counters
  <2>2. image_height' = image_height BY <2>1 DEF counters, image_height
  <2> QED BY <2>1, <2>2 DEF counters, CountersOK, FlagsOK, RowsAccountedFor
<1> QED BY <1>1, <1>2, <1>3, <1>4, <1>5, <1>6, <1>7 DEF Next

(* However the calls of jpeg_write_scanlines divide the image and wherever *)
(* the data destination suspends, the preprocessor's count of rows and     *)
(* next_scanline differ by the rows of the call in progress and by the one *)
(* row that is held back while suspended (jcmainct.c).                     *)
THEOREM RowsAccounted == Spec => []RowsAccountedFor
<1>1. Init => AccountsInv BY InitAccounts
<1>2. AccountsInv /\ [Next]_vars => AccountsInv' BY NextAccounts
<1>3. AccountsInv => RowsAccountedFor BY DEF AccountsInv
<1> QED BY <1>1, <1>2, <1>3, PTL DEF Spec

-----------------------------------------------------------------------------
(***************************************************************************)
(* All counters stay in their ranges.  What has to be known besides: how   *)
(* far a call may go, that a call which completes an iMCU row has taken a  *)
(* row that it can give back, and where in the wrapped-around buffer the   *)
(* preprocessor stops.                                                     *)
(***************************************************************************)
InCallOK ==
    /\ ~in_call => in_rows_avail = 0
    /\ in_call => in_rows_avail <= image_height - next_scanline

(* When the iMCU row is complete the coefficient controller has yet to     *)
(* take it; a row of this call can be taken back, or has been.             *)
CompletedOK ==
    /\ suspended => rowgroup_ctr = DCTSIZE /\ in_row_ctr = 0
    /\ rowgroup_ctr = DCTSIZE => cur_iMCU_row < total_iMCU_rows
    /\ rowgroup_ctr = DCTSIZE /\ ~suspended => in_call /\ in_row_ctr >= 1

(* At the bottom of the image row groups are completed without new rows;   *)
(* the call that brings the last row does it.                              *)
BottomOK ==
    need_context_rows /\ rows_to_go = 0 /\ cur_iMCU_row < total_iMCU_rows /\ ~suspended
    => in_call /\ in_row_ctr >= 1

(* The preprocessor stops at the end of a row group.                       *)
StopsOK ==
    LET V == max_v_samp_factor
    IN  IF need_context_rows
        THEN next_buf_stop \in {V, 2 * V, 3 * V} /\ this_row_group \in {0, V, 2 * V}
        ELSE next_buf_row < V /\ this_row_group = 0

RangesInv == TypeOK /\ InCallOK /\ CompletedOK /\ BottomOK /\ StopsOK

BufferType == [0 .. buf_height - 1 -> Lines \cup {NoRow}]

LEMMA TotalIsNat == ASSUME setup \in Setups PROVE total_iMCU_rows \in Nat
<1> DEFINE a == image_height
           b == lines_per_iMCU_row
<1>1. a \in Nat \ {0} /\ max_v_samp_factor \in Nat \ {0} BY SizesAreInt
<1>2. b \in Nat \ {0} BY <1>1, RowsAssumption DEF lines_per_iMCU_row
<1>3. a + b - 1 \in Nat BY <1>1, <1>2
<1>4. total_iMCU_rows = (a + b - 1) \div b BY DEF total_iMCU_rows, CeilDiv
<1> HIDE DEF a, b
<1>5. (a + b - 1) \div b \in Nat BY <1>2, <1>3
<1> QED BY <1>4, <1>5

LEMMA SameSizes ==
    ASSUME setup' = setup
    PROVE  /\ max_v_samp_factor' = max_v_samp_factor /\ image_height' = image_height
           /\ need_context_rows' = need_context_rows /\ buf_height' = buf_height
           /\ total_iMCU_rows' = total_iMCU_rows /\ Lines' = Lines
           /\ BufferType' = BufferType
BY DEF max_v_samp_factor, image_height, need_context_rows, buf_height, total_iMCU_rows,
       lines_per_iMCU_row, CeilDiv, Lines, BufferType, NoRow

LEMMA ConvertedTyped ==
    ASSUME setup \in Setups, NEW buf \in BufferType, NEW first \in Int, NEW n \in Int,
           NEW in_row \in Nat, in_row + n <= image_height
    PROVE  color_convert(buf, first, n, in_row) \in BufferType
<1>1. image_height \in Nat \ {0} BY SizesAreInt
<1>2. \A i \in first .. first + n - 1 : in_row + i - first \in Lines
  BY <1>1 DEF Lines
<1> QED BY <1>2 DEF color_convert, BufferType

LEMMA RowOfBuffer ==
    ASSUME setup \in Setups, NEW buf \in BufferType, NEW i \in Int
    PROVE  color_row(buf, i) \in Lines \cup {NoRow}
<1>1. buf_height \in Nat \ {0} BY SizesAreInt
<1>2. i % buf_height \in 0 .. buf_height - 1 BY <1>1
<1> QED BY <1>2 DEF color_row, BufferType

LEMMA ExpandedTyped ==
    ASSUME setup \in Setups, NEW buf \in BufferType, NEW a \in Int, NEW b \in Int
    PROVE  expand_bottom_edge(buf, a, b) \in BufferType
<1>1. color_row(buf, a - 1) \in Lines \cup {NoRow} BY RowOfBuffer
<1> QED BY <1>1 DEF expand_bottom_edge, BufferType

LEMMA PaddedTyped ==
    ASSUME setup \in Setups, NEW buf \in BufferType
    PROVE  pad_top(buf) \in BufferType
<1>1. buf_height \in Nat \ {0} BY SizesAreInt
<1>2. buf[0] \in Lines \cup {NoRow} BY <1>1 DEF BufferType
<1> QED BY <1>2 DEF pad_top, BufferType

LEMMA InitRanges == ASSUME Init PROVE RangesInv
<1>1. setup \in Setups BY DEF Init
<1>2. /\ image_height \in Nat \ {0} /\ max_v_samp_factor \in Nat \ {0}
      /\ buf_height \in Nat \ {0} /\ need_context_rows \in BOOLEAN
      /\ total_iMCU_rows \in Nat
  BY <1>1, SizesAreInt, TotalIsNat
<1>3. DCTSIZE \in Nat \ {0} /\ MaxLines \in Nat \ {0} BY RowsAssumption
<1>4. need_context_rows => buf_height = 3 * max_v_samp_factor BY DEF buf_height
<1>5. TypeOK
  <2>1. color_buf \in BufferType BY DEF Init, BufferType
  <2>2. DOMAIN buffer = 0 .. DCTSIZE - 1 BY DEF Init
  <2>3. FlagsOK BY DEF Init, FlagsOK
  <2> QED BY <1>1, <1>2, <1>3, <1>4, <2>1, <2>2, <2>3 DEF Init, TypeOK, BufferType
<1>6. InCallOK BY DEF Init, InCallOK
<1>7. CompletedOK BY <1>3 DEF Init, CompletedOK
<1>8. BottomOK BY <1>2 DEF Init, BottomOK
<1>9. StopsOK BY <1>2 DEF Init, StopsOK
<1> QED BY <1>5, <1>6, <1>7, <1>8, <1>9 DEF RangesInv

(* What an action may rely on.                                             *)
Ready == RangesInv /\ RowsAccountedFor

LEMMA Sizes ==
    ASSUME RangesInv
    PROVE  /\ setup \in Setups
           /\ image_height \in Nat \ {0} /\ max_v_samp_factor \in Nat \ {0}
           /\ buf_height \in Nat \ {0} /\ need_context_rows \in BOOLEAN
           /\ total_iMCU_rows \in Nat
           /\ DCTSIZE \in Nat \ {0} /\ MaxLines \in Nat \ {0}
           /\ buf_height = IF need_context_rows THEN 3 * max_v_samp_factor
                                                ELSE max_v_samp_factor
<1>1. setup \in Setups BY DEF RangesInv, TypeOK
<1> QED BY <1>1, SizesAreInt, TotalIsNat, RowsAssumption DEF buf_height

(* While rows are wanted, the call still has some, and the image too.      *)
LEMMA WantedRows ==
    ASSUME Ready, Processing, MoreRows, rowgroup_ctr < DCTSIZE,
           NEW stop \in Int, next_buf_row < stop
    PROVE  /\ Wanted(stop) \in Nat \ {0}
           /\ next_buf_row + Wanted(stop) <= stop
           /\ in_row_ctr + Wanted(stop) \in 1 .. MaxLines
           /\ rows_to_go - Wanted(stop) \in 0 .. image_height
           /\ next_scanline + in_row_ctr + Wanted(stop) <= image_height
           /\ suspended = FALSE /\ in_call
<1>1. /\ image_height \in Nat /\ DCTSIZE \in Nat BY Sizes DEF Ready
<1>2. /\ next_buf_row \in Int /\ in_rows_avail \in 0 .. MaxLines
      /\ in_row_ctr \in 0 .. MaxLines /\ rows_to_go \in 0 .. image_height
      /\ next_scanline \in 0 .. image_height /\ suspended \in BOOLEAN
      /\ rowgroup_ctr \in 0 .. DCTSIZE
  <2>1. buf_height \in Nat BY Sizes DEF Ready
  <2> QED BY <2>1 DEF Ready, RangesInv, TypeOK, FlagsOK
<1>3. suspended = FALSE
  BY <1>1, <1>2 DEF Ready, RangesInv, CompletedOK
<1>4. in_call BY DEF Processing
<1>5. in_rows_avail <= image_height - next_scanline
  BY <1>4 DEF Ready, RangesInv, InCallOK
<1>6. image_height - rows_to_go = next_scanline + in_row_ctr
  BY <1>1, <1>2, <1>3 DEF Ready, RowsAccountedFor
<1>7. in_row_ctr < in_rows_avail BY DEF MoreRows
<1>8. MaxLines \in Nat BY Sizes DEF Ready
<1> QED BY <1>1, <1>2, <1>3, <1>4, <1>5, <1>6, <1>7, <1>8 DEF Wanted, Min2

LEMMA CallRanges ==
    ASSUME Ready, NEW n \in 0 .. MaxLines, jpeg_write_scanlines(n)
    PROVE  RangesInv'
<1> DEFINE avail == Min2(n, image_height - next_scanline)
<1>1. /\ ~in_call /\ in_call' = TRUE /\ in_row_ctr' = 0 /\ in_rows_avail' = avail
      /\ setup' = setup /\ next_scanline' = next_scanline
      /\ rows_to_go' = rows_to_go /\ suspended' = suspended
      /\ next_buf_row' = next_buf_row /\ next_buf_stop' = next_buf_stop
      /\ color_buf' = color_buf /\ this_row_group' = this_row_group
      /\ buffer' = buffer /\ rowgroup_ctr' = rowgroup_ctr
      /\ cur_iMCU_row' = cur_iMCU_row
  BY DEF jpeg_write_scanlines, prep, main
<1>2. avail \in 0 .. MaxLines /\ avail <= image_height - next_scanline
  <2>1. image_height \in Nat /\ MaxLines \in Nat BY Sizes DEF Ready
  <2>2. next_scanline \in 0 .. image_height BY DEF Ready, RangesInv, TypeOK
  <2> QED BY <2>1, <2>2 DEF Min2
<1> HIDE DEF avail
<1>3. 0 \in 0 .. MaxLines BY Sizes DEF Ready
<1>4. TypeOK'
  <2>1. FlagsOK' BY <1>1 DEF Ready, RangesInv, TypeOK, FlagsOK
  <2> QED BY <1>1, <1>2, <1>3, <2>1, SameSizes
          DEF Ready, RangesInv, TypeOK, BufferType
<1>5. InCallOK' BY <1>1, <1>2, SameSizes DEF InCallOK
<1>6. CompletedOK' BY <1>1, SameSizes DEF Ready, RangesInv, CompletedOK
<1>7. BottomOK' BY <1>1, SameSizes DEF Ready, RangesInv, BottomOK
<1>8. StopsOK' BY <1>1, SameSizes DEF Ready, RangesInv, StopsOK
<1> QED BY <1>4, <1>5, <1>6, <1>7, <1>8 DEF RangesInv

LEMMA CompressRanges == ASSUME Ready, CompressRow PROVE RangesInv'
<1>1. /\ setup' = setup /\ next_scanline' = next_scanline /\ in_call' = in_call
      /\ rows_to_go' = rows_to_go /\ suspended' = FALSE
      /\ next_buf_row' = next_buf_row /\ next_buf_stop' = next_buf_stop
      /\ color_buf' = color_buf /\ this_row_group' = this_row_group
      /\ buffer' = buffer /\ rowgroup_ctr' = 0
      /\ in_rows_avail' = in_rows_avail
      /\ cur_iMCU_row' = cur_iMCU_row + 1 /\ in_row_ctr' = RowsTaken
      /\ in_call /\ cur_iMCU_row < total_iMCU_rows /\ rowgroup_ctr = DCTSIZE
  BY DEF CompressRow, prep, api, Processing
<1>2. RowsTaken \in 1 .. MaxLines
  <2>1. MaxLines \in Nat \ {0} BY Sizes DEF Ready
  <2>2. in_row_ctr \in 0 .. MaxLines /\ suspended \in BOOLEAN
    BY DEF Ready, RangesInv, TypeOK, FlagsOK
  <2>3. IF suspended THEN in_row_ctr = 0 ELSE in_row_ctr >= 1
    BY <1>1, <2>2 DEF Ready, RangesInv, CompletedOK
  <2> QED BY <2>1, <2>2, <2>3 DEF RowsTaken
<1>3. cur_iMCU_row + 1 \in 0 .. total_iMCU_rows
  <2>1. total_iMCU_rows \in Nat BY Sizes DEF Ready
  <2> QED BY <1>1, <2>1 DEF Ready, RangesInv, TypeOK
<1>4. DCTSIZE \in Nat \ {0} /\ MaxLines \in Nat BY Sizes DEF Ready
<1>5. TypeOK'
  <2>1. FlagsOK' BY <1>1 DEF Ready, RangesInv, TypeOK, FlagsOK
  <2>2. 0 \in 0 .. DCTSIZE /\ RowsTaken \in 0 .. MaxLines BY <1>2, <1>4
  <2> QED BY <1>1, <1>3, <2>1, <2>2, SameSizes
          DEF Ready, RangesInv, TypeOK, BufferType
<1>6. InCallOK' BY <1>1, SameSizes DEF Ready, RangesInv, InCallOK
<1>7. CompletedOK' BY <1>1, <1>4, SameSizes DEF CompletedOK
<1>8. BottomOK' BY <1>1, <1>2, SameSizes DEF BottomOK
<1>9. StopsOK' BY <1>1, SameSizes DEF Ready, RangesInv, StopsOK
<1> QED BY <1>5, <1>6, <1>7, <1>8, <1>9 DEF RangesInv

(* A call ends, with the iMCU row complete only if it is suspended.        *)
LEMMA ReturnRanges ==
    ASSUME Ready, NEW rows \in Int, Return(rows), suspended' \in BOOLEAN,
           next_scanline + rows \in 0 .. image_height,
           rowgroup_ctr = DCTSIZE <=> suspended',
           rowgroup_ctr = DCTSIZE => cur_iMCU_row < total_iMCU_rows,
           need_context_rows /\ rows_to_go = 0 /\ cur_iMCU_row < total_iMCU_rows
              => suspended'
    PROVE  RangesInv'
<1>1. /\ setup' = setup /\ next_scanline' = next_scanline + rows
      /\ in_call' = FALSE /\ in_row_ctr' = 0 /\ in_rows_avail' = 0
      /\ rows_to_go' = rows_to_go
      /\ next_buf_row' = next_buf_row /\ next_buf_stop' = next_buf_stop
      /\ color_buf' = color_buf /\ this_row_group' = this_row_group
      /\ buffer' = buffer /\ rowgroup_ctr' = rowgroup_ctr
      /\ cur_iMCU_row' = cur_iMCU_row
  BY DEF Return, prep
<1>2. 0 \in 0 .. MaxLines BY Sizes DEF Ready
<1>3. TypeOK'
  <2>1. FlagsOK' BY <1>1 DEF FlagsOK
  <2> QED BY <1>1, <1>2, <2>1, SameSizes DEF Ready, RangesInv, TypeOK, BufferType
<1>4. InCallOK' BY <1>1 DEF InCallOK
<1>5. CompletedOK' BY <1>1, SameSizes DEF CompletedOK
<1>6. BottomOK' BY <1>1, SameSizes DEF BottomOK
<1>7. StopsOK' BY <1>1, SameSizes DEF Ready, RangesInv, StopsOK
<1> QED BY <1>3, <1>4, <1>5, <1>6, <1>7 DEF RangesInv

LEMMA SuspendRanges == ASSUME Ready, SuspendRow PROVE RangesInv'
<1>1. /\ suspended' = TRUE /\ Return(RowsTakenWhenSuspended)
      /\ cur_iMCU_row < total_iMCU_rows /\ rowgroup_ctr = DCTSIZE
  BY DEF SuspendRow, Processing
<1>2. /\ image_height \in Nat /\ MaxLines \in Nat BY Sizes DEF Ready
<1>3. /\ in_row_ctr \in 0 .. MaxLines /\ suspended \in BOOLEAN
      /\ rows_to_go \in 0 .. image_height /\ next_scanline \in 0 .. image_height
  BY DEF Ready, RangesInv, TypeOK, FlagsOK
<1>4. ~suspended => in_row_ctr >= 1
  BY <1>1 DEF Ready, RangesInv, CompletedOK
<1>5. image_height - rows_to_go =
        next_scanline + in_row_ctr + (IF suspended THEN 1 ELSE 0)
  BY DEF Ready, RowsAccountedFor
<1>6. /\ RowsTakenWhenSuspended \in Int
      /\ next_scanline + RowsTakenWhenSuspended \in 0 .. image_height
  BY <1>2, <1>3, <1>4, <1>5 DEF RowsTakenWhenSuspended
<1> QED BY <1>1, <1>6, ReturnRanges

LEMMA ReturnForMoreRanges == ASSUME Ready, ReturnForMore PROVE RangesInv'
<1>1. /\ Return(in_row_ctr) /\ suspended' = suspended /\ in_call
      /\ \/ cur_iMCU_row = total_iMCU_rows
         \/ rowgroup_ctr < DCTSIZE /\ ~CanPreProcess
  BY DEF ReturnForMore
<1>2. /\ image_height \in Nat /\ MaxLines \in Nat /\ DCTSIZE \in Nat
      /\ total_iMCU_rows \in Nat
  BY Sizes DEF Ready
<1>3. /\ in_row_ctr \in 0 .. MaxLines /\ suspended \in BOOLEAN
      /\ rows_to_go \in 0 .. image_height /\ next_scanline \in 0 .. image_height
      /\ rowgroup_ctr \in 0 .. DCTSIZE /\ cur_iMCU_row \in 0 .. total_iMCU_rows
  BY DEF Ready, RangesInv, TypeOK, FlagsOK
<1>4. rowgroup_ctr # DCTSIZE
  <2>1. rowgroup_ctr = DCTSIZE => cur_iMCU_row < total_iMCU_rows
    BY DEF Ready, RangesInv, CompletedOK
  <2> QED BY <1>1, <1>2, <1>3, <2>1
<1>5. suspended = FALSE BY <1>3, <1>4 DEF Ready, RangesInv, CompletedOK
<1>6. next_scanline + in_row_ctr \in 0 .. image_height
  BY <1>2, <1>3, <1>5 DEF Ready, RowsAccountedFor
<1>7. ~(need_context_rows /\ rows_to_go = 0 /\ cur_iMCU_row < total_iMCU_rows)
  BY <1>1, <1>2, <1>3 DEF CanPreProcess
<1>8. in_row_ctr \in Int BY <1>2, <1>3
<1> QED BY <1>1, <1>3, <1>4, <1>5, <1>6, <1>7, <1>8, ReturnRanges

LEMMA SimpleRanges == ASSUME Ready, PreProcessRows PROVE RangesInv'
<1> DEFINE V == max_v_samp_factor
           n == Wanted(V)
           filled == next_buf_row + n
           taken == in_row_ctr + n
           left == rows_to_go - n
           rowgroup == IF left = 0 THEN DCTSIZE
                       ELSE IF filled = V THEN rowgroup_ctr + 1 ELSE rowgroup_ctr
           next == IF left = 0 \/ filled = V THEN 0 ELSE filled
           padded == IF left = 0 THEN expand_bottom_edge(Converted(n), filled, V)
                                 ELSE Converted(n)
<1>1. Processing /\ CanPreProcess /\ need_context_rows = FALSE
  BY Sizes DEF PreProcessRows, Ready
<1>2. MoreRows /\ rowgroup_ctr < DCTSIZE BY <1>1 DEF CanPreProcess
<1>3. /\ setup' = setup /\ next_scanline' = next_scanline /\ in_call' = in_call
      /\ in_rows_avail' = in_rows_avail /\ suspended' = suspended
      /\ this_row_group' = this_row_group /\ next_buf_stop' = next_buf_stop
      /\ cur_iMCU_row' = cur_iMCU_row
      /\ in_row_ctr' = taken /\ rows_to_go' = left
      /\ next_buf_row' = next /\ rowgroup_ctr' = rowgroup /\ color_buf' = padded
  BY DEF PreProcessRows, TakeRows, api
<1>4. /\ next_buf_row \in 0 .. V /\ next_buf_row < V /\ this_row_group = 0
      /\ rowgroup_ctr \in 0 .. DCTSIZE /\ cur_iMCU_row \in 0 .. total_iMCU_rows
      /\ in_row_ctr \in 0 .. MaxLines /\ next_scanline \in 0 .. image_height
      /\ rows_to_go \in 0 .. image_height
      /\ cur_iMCU_row < total_iMCU_rows
  <2>1. buf_height = V BY <1>1, Sizes DEF Ready
  <2> QED BY <1>1, <2>1 DEF Processing, Ready, RangesInv, TypeOK, StopsOK
<1>5. /\ V \in Nat \ {0} /\ DCTSIZE \in Nat \ {0} /\ image_height \in Nat \ {0}
      /\ buf_height = V /\ setup \in Setups /\ MaxLines \in Nat
  BY <1>1, Sizes DEF Ready
<1>6. /\ n \in Nat \ {0} /\ filled <= V /\ taken \in 1 .. MaxLines
      /\ left \in 0 .. image_height
      /\ next_scanline + in_row_ctr + n <= image_height
      /\ suspended = FALSE /\ in_call
  <2>1. V \in Int /\ next_buf_row < V BY <1>4, <1>5
  <2> HIDE DEF V
  <2>2. /\ Wanted(V) \in Nat \ {0} /\ next_buf_row + Wanted(V) <= V
        /\ in_row_ctr + Wanted(V) \in 1 .. MaxLines
        /\ rows_to_go - Wanted(V) \in 0 .. image_height
        /\ next_scanline + in_row_ctr + Wanted(V) <= image_height
        /\ suspended = FALSE /\ in_call
    BY <1>1, <1>2, <2>1, WantedRows
  <2> QED BY <2>2
<1> HIDE DEF n
<1>7. /\ rowgroup \in 0 .. DCTSIZE
      /\ next \in 0 .. buf_height /\ next < V
  BY <1>2, <1>4, <1>5, <1>6
<1>8. padded \in BufferType
  <2>1. color_buf \in BufferType BY DEF Ready, RangesInv, TypeOK, BufferType
  <2>2. next_scanline + in_row_ctr \in Nat BY <1>4, <1>5
  <2>3. Converted(n) \in BufferType
    BY <1>4, <1>5, <1>6, <2>1, <2>2, ConvertedTyped DEF Converted
  <2>4. filled \in Int /\ V \in Int BY <1>4, <1>5, <1>6
  <2> QED BY <1>5, <2>3, <2>4, ExpandedTyped
<1>9. DOMAIN buffer' = 0 .. DCTSIZE - 1
  <2>1. DOMAIN buffer = 0 .. DCTSIZE - 1 BY DEF Ready, RangesInv, TypeOK
  <2> QED BY <2>1 DEF PreProcessRows, PadOutput
<1> HIDE DEF V, taken, left, rowgroup, next, padded
<1>10. TypeOK'
  <2>1. FlagsOK' BY <1>3 DEF Ready, RangesInv, TypeOK, FlagsOK
  <2>2. taken \in 0 .. MaxLines BY <1>6
  <2>3. need_context_rows' = FALSE /\ in_rows_avail' \in 0 .. MaxLines
    BY <1>1, <1>3, SameSizes DEF Ready, RangesInv, TypeOK
  <2>4. this_row_group' \in 0 .. buf_height - 1 BY <1>3, <1>4, <1>5
  <2> QED BY <1>3, <1>4, <1>5, <1>6, <1>7, <1>8, <1>9, <2>1, <2>2, <2>3, <2>4,
             SameSizes DEF TypeOK, BufferType
<1>11. InCallOK' BY <1>3, SameSizes DEF Ready, RangesInv, InCallOK
<1>12. CompletedOK'
  <2>1. taken >= 1 BY <1>5, <1>6
  <2> QED BY <1>3, <1>4, <1>6, <2>1, SameSizes DEF CompletedOK
<1>13. BottomOK' BY <1>1, <1>3, SameSizes DEF BottomOK
<1>14. StopsOK' BY <1>1, <1>3, <1>4, <1>7, SameSizes DEF StopsOK, V
<1> QED BY <1>10, <1>11, <1>12, <1>13, <1>14 DEF RangesInv

(* A row group is completed, or the rows do not reach that far.            *)
LEMMA AdvanceStops ==
    ASSUME Ready, need_context_rows = TRUE, rowgroup_ctr < DCTSIZE, setup' = setup,
           NEW buf, NEW filled \in 0 .. next_buf_stop, AdvanceContext(buf, filled)
    PROVE  /\ next_buf_row' \in 0 .. buf_height /\ next_buf_row' < next_buf_stop'
           /\ next_buf_stop' \in 1 .. buf_height
           /\ this_row_group' \in 0 .. buf_height - 1
           /\ DOMAIN buffer' = 0 .. DCTSIZE - 1
           /\ rowgroup_ctr' \in 0 .. DCTSIZE
           /\ StopsOK'
<1> DEFINE V == max_v_samp_factor
<1>1. V \in Nat \ {0} /\ DCTSIZE \in Nat \ {0} /\ buf_height = 3 * V
  BY Sizes DEF Ready
<1>2. /\ next_buf_stop \in {V, 2 * V, 3 * V} /\ this_row_group \in {0, V, 2 * V}
      /\ rowgroup_ctr \in 0 .. DCTSIZE /\ DOMAIN buffer = 0 .. DCTSIZE - 1
  BY <1>1 DEF Ready, RangesInv, TypeOK, StopsOK
<1> DEFINE full == filled = next_buf_stop
           row == IF full THEN filled % buf_height ELSE filled
           stop == IF full THEN (filled % buf_height) + V ELSE next_buf_stop
           group == IF full THEN (this_row_group + V) % buf_height
                            ELSE this_row_group
           ctr == IF full THEN rowgroup_ctr + 1 ELSE rowgroup_ctr
<1>3. /\ next_buf_row' = row /\ next_buf_stop' = stop /\ this_row_group' = group
      /\ rowgroup_ctr' = ctr /\ DOMAIN buffer' = DOMAIN buffer
  BY DEF AdvanceContext, StopAfter
<1> HIDE DEF V
<1>4. /\ V % (3 * V) = V /\ (2 * V) % (3 * V) = 2 * V /\ (3 * V) % (3 * V) = 0
      /\ (0 + V) % (3 * V) = V /\ (V + V) % (3 * V) = 2 * V
      /\ (2 * V + V) % (3 * V) = 0
  <2> DEFINE W == 3 * V
  <2>1. W \in Nat \ {0} /\ 0 < V /\ V < W /\ 0 < 2 * V /\ 2 * V < W BY <1>1
  <2>2. \A a \in 0 .. W - 1 : a % W = a BY <2>1
  <2>3. W % W = 0 BY <2>1
  <2>4. V \in 0 .. W - 1 /\ 2 * V \in 0 .. W - 1 BY <1>1, <2>1
  <2>5. 0 + V = V /\ V + V = 2 * V /\ 2 * V + V = W BY <1>1
  <2> HIDE DEF W
  <2>6. V % W = V /\ (2 * V) % W = 2 * V BY <2>2, <2>4
  <2>7. (0 + V) % W = V /\ (V + V) % W = 2 * V /\ (2 * V + V) % W = 0
    BY <2>3, <2>5, <2>6
  <2> QED BY <2>3, <2>6, <2>7 DEF W
<1>5. CASE full
  <2>1. row \in {0, V, 2 * V} /\ stop = row + V BY <1>1, <1>2, <1>4, <1>5
  <2>2. group \in {0, V, 2 * V} BY <1>1, <1>2, <1>4, <1>5
  <2>3. ctr \in 0 .. DCTSIZE BY <1>1, <1>2, <1>5
  <2> HIDE DEF row, stop, group, ctr, full
  <2>4. /\ row \in 0 .. 3 * V /\ row < stop /\ stop \in 1 .. 3 * V
        /\ group \in 0 .. 3 * V - 1 /\ stop \in {V, 2 * V, 3 * V}
    BY <1>1, <2>1, <2>2
  <2>5. StopsOK' BY <1>3, <2>2, <2>4, SameSizes DEF StopsOK, V
  <2> QED BY <1>1, <1>2, <1>3, <2>3, <2>4, <2>5
<1>6. CASE ~full
  <2>1. row = filled /\ stop = next_buf_stop /\ group = this_row_group
        /\ ctr = rowgroup_ctr
    BY <1>6
  <2>2. filled < next_buf_stop BY <1>1, <1>2, <1>6
  <2> HIDE DEF row, stop, group, ctr, full
  <2>3. /\ row \in 0 .. 3 * V /\ row < stop /\ stop \in 1 .. 3 * V
        /\ group \in 0 .. 3 * V - 1
    BY <1>1, <1>2, <2>1, <2>2
  <2>4. StopsOK' BY <1>2, <1>3, <2>1, SameSizes DEF StopsOK, V
  <2> QED BY <1>1, <1>2, <1>3, <2>1, <2>3, <2>4
<1> QED BY <1>5, <1>6

LEMMA ContextRanges == ASSUME Ready, PreProcessContext PROVE RangesInv'
<1> DEFINE n == Wanted(next_buf_stop)
           converted == IF rows_to_go = image_height THEN pad_top(Converted(n))
                                                     ELSE Converted(n)
           expanded == expand_bottom_edge(color_buf, next_buf_row, next_buf_stop)
           taken == IF MoreRows THEN in_row_ctr + n ELSE in_row_ctr
           left == IF MoreRows THEN rows_to_go - n ELSE rows_to_go
           filled == IF MoreRows THEN next_buf_row + n ELSE next_buf_stop
<1>1. Processing /\ CanPreProcess /\ need_context_rows = TRUE
  BY Sizes DEF PreProcessContext, Ready
<1>2. rowgroup_ctr < DCTSIZE /\ (~MoreRows => rows_to_go = 0)
  BY <1>1 DEF CanPreProcess
<1>3. /\ setup' = setup /\ next_scanline' = next_scanline /\ in_call' = in_call
      /\ in_rows_avail' = in_rows_avail /\ suspended' = suspended
      /\ cur_iMCU_row' = cur_iMCU_row
      /\ in_row_ctr' = taken /\ rows_to_go' = left
      /\ color_buf' = IF MoreRows THEN converted ELSE expanded
  BY DEF PreProcessContext, TakeRows, api
<1>4. \E buf : AdvanceContext(buf, filled) BY DEF PreProcessContext
<1>5. /\ DCTSIZE \in Nat \ {0} /\ image_height \in Nat \ {0}
      /\ buf_height \in Nat \ {0} /\ setup \in Setups /\ MaxLines \in Nat
  BY Sizes DEF Ready
<1>6. /\ next_buf_row \in 0 .. buf_height /\ next_buf_row < next_buf_stop
      /\ next_buf_stop \in 1 .. buf_height
      /\ rowgroup_ctr \in 0 .. DCTSIZE /\ cur_iMCU_row \in 0 .. total_iMCU_rows
      /\ in_row_ctr \in 0 .. MaxLines /\ next_scanline \in 0 .. image_height
      /\ rows_to_go \in 0 .. image_height
      /\ cur_iMCU_row < total_iMCU_rows
  BY <1>1 DEF Processing, Ready, RangesInv, TypeOK
<1>7. color_buf \in BufferType BY DEF Ready, RangesInv, TypeOK, BufferType
<1>8. /\ taken \in 1 .. MaxLines /\ left \in 0 .. image_height
      /\ filled \in 0 .. next_buf_stop /\ suspended = FALSE /\ in_call
      /\ color_buf' \in BufferType
  <2>1. next_buf_stop \in Int /\ next_buf_row \in Int BY <1>5, <1>6
  <2>2. CASE MoreRows
    <3>1. /\ n \in Nat \ {0} /\ next_buf_row + n <= next_buf_stop
          /\ in_row_ctr + n \in 1 .. MaxLines
          /\ rows_to_go - n \in 0 .. image_height
          /\ next_scanline + in_row_ctr + n <= image_height
          /\ suspended = FALSE /\ in_call
      BY <1>1, <1>2, <1>6, <2>1, <2>2, WantedRows
    <3> HIDE DEF n
    <3>2. next_scanline + in_row_ctr \in Nat BY <1>5, <1>6
    <3>3. Converted(n) \in BufferType
      BY <1>5, <1>7, <2>1, <3>1, <3>2, ConvertedTyped DEF Converted
    <3>4. converted \in BufferType BY <1>5, <3>3, PaddedTyped
    <3>5. next_buf_row + n \in 0 .. next_buf_stop BY <1>5, <1>6, <3>1
    <3> QED BY <1>3, <2>2, <3>1, <3>4, <3>5
  <2>3. CASE ~MoreRows
    <3>1. suspended \in BOOLEAN BY DEF Ready, RangesInv, TypeOK, FlagsOK
    <3>2. suspended = FALSE BY <1>2, <1>5, <1>6, <3>1 DEF Ready, RangesInv, CompletedOK
    <3>3. in_call /\ in_row_ctr >= 1
      BY <1>1, <1>2, <1>6, <2>3, <3>2 DEF Ready, RangesInv, BottomOK
    <3>4. expanded \in BufferType BY <1>5, <1>7, <2>1, ExpandedTyped
    <3>5. next_buf_stop \in 0 .. next_buf_stop /\ in_row_ctr \in 1 .. MaxLines
      BY <1>5, <1>6, <3>3
    <3> QED BY <1>3, <1>6, <2>3, <3>2, <3>3, <3>4, <3>5
  <2> QED BY <2>2, <2>3
<1> HIDE DEF n, converted, expanded, taken, left, filled
<1>9. /\ next_buf_row' \in 0 .. buf_height /\ next_buf_row' < next_buf_stop'
      /\ next_buf_stop' \in 1 .. buf_height
      /\ this_row_group' \in 0 .. buf_height - 1
      /\ DOMAIN buffer' = 0 .. DCTSIZE - 1
      /\ rowgroup_ctr' \in 0 .. DCTSIZE
      /\ StopsOK'
  <2>1. PICK buf : AdvanceContext(buf, filled) BY <1>4
  <2> QED BY <1>1, <1>2, <1>3, <1>8, <2>1, AdvanceStops
<1>10. TypeOK'
  <2>1. FlagsOK' BY <1>3 DEF Ready, RangesInv, TypeOK, FlagsOK
  <2>2. taken \in 0 .. MaxLines BY <1>8
  <2>3. in_rows_avail' \in 0 .. MaxLines BY <1>3 DEF Ready, RangesInv, TypeOK
  <2> QED BY <1>3, <1>5, <1>6, <1>8, <1>9, <2>1, <2>2, <2>3, SameSizes
          DEF TypeOK, BufferType
<1>11. InCallOK' BY <1>3, SameSizes DEF Ready, RangesInv, InCallOK
<1>12. taken >= 1 BY <1>5, <1>8
<1>13. CompletedOK' BY <1>3, <1>6, <1>8, <1>12, SameSizes DEF CompletedOK
<1>14. BottomOK' BY <1>3, <1>8, <1>12, SameSizes DEF BottomOK
<1> QED BY <1>9, <1>10, <1>11, <1>13, <1>14 DEF RangesInv

LEMMA NextRanges == ASSUME Ready, [Next]_vars PROVE RangesInv'
<1>1. ASSUME NEW n \in 0 .. MaxLines, jpeg_write_scanlines(n) PROVE RangesInv'
  BY <1>1, CallRanges
<1>2. CASE UNCHANGED vars
  <2>1. /\ UNCHANGED <<setup, color_buf, rows_to_go, next_buf_row, this_row_group,
                       next_buf_stop, buffer, rowgroup_ctr, cur_iMCU_row, suspended,
                       next_scanline, in_call, in_row_ctr, in_rows_avail>>
    BY <1>2 DEF vars, prep, main, api
  <2>2. TypeOK'
    <3>1. FlagsOK' BY <2>1 DEF Ready, RangesInv, TypeOK, FlagsOK
    <3> QED BY <2>1, <3>1, SameSizes DEF Ready, RangesInv, TypeOK, BufferType
  <2>3. InCallOK' BY <2>1, SameSizes DEF Ready, RangesInv, InCallOK
  <2>4. CompletedOK' BY <2>1, SameSizes DEF Ready, RangesInv, CompletedOK
  <2>5. BottomOK' BY <2>1, SameSizes DEF Ready, RangesInv, BottomOK
  <2>6. StopsOK' BY <2>1, SameSizes DEF Ready, RangesInv, StopsOK
  <2> QED BY <2>2, <2>3, <2>4, <2>5, <2>6 DEF RangesInv
<1> QED BY <1>1, <1>2, SimpleRanges, ContextRanges, CompressRanges,
           SuspendRanges, ReturnForMoreRanges DEF Next

(* However the calls divide the image and wherever the destination         *)
(* suspends, no counter leaves its range -- row indexes stay inside the    *)
(* wrapped-around conversion buffer and the iMCU row, the row taken back   *)
(* was one of this call's, and next_scanline does not pass the image's     *)
(* height -- and they agree on the rows taken (jcprepct.c, jcmainct.c).    *)
THEOREM CountersInAccord == Spec => []CountersAgree
<1> DEFINE Inv == AccountsInv /\ RangesInv
<1>1. Init => Inv BY InitAccounts, InitRanges
<1>2. Inv /\ [Next]_vars => Inv'
  <2> SUFFICES ASSUME Inv, [Next]_vars PROVE Inv' OBVIOUS
  <2>1. Ready BY DEF Ready, AccountsInv
  <2>2. AccountsInv' BY NextAccounts
  <2>3. RangesInv' BY <2>1, NextRanges
  <2> QED BY <2>2, <2>3
<1>3. Inv => CountersAgree
  BY DEF AccountsInv, RangesInv, CountersAgree
<1> HIDE DEF Inv
<1> QED BY <1>1, <1>2, <1>3, PTL DEF Spec

-----------------------------------------------------------------------------
(***************************************************************************)
(* The rows that are compressed are the image's.  The arithmetic first.    *)
(***************************************************************************)
LEMMA ProductsOrdered ==
    ASSUME NEW x \in Int, NEW y \in Int, NEW b \in Nat, x <= y
    PROVE  x * b <= y * b
<1> DEFINE d == y - x
<1>1. d \in Nat /\ y = x + d OBVIOUS
<1>2. d * b \in Nat BY <1>1
<1>3. y * b = x * b + d * b BY <1>1
<1> QED BY <1>2, <1>3

LEMMA FactorsOrdered ==
    ASSUME NEW x \in Nat, NEW y \in Nat, NEW b \in Nat \ {0}
    PROVE  x * b < y * b <=> x < y
<1>1. x * b \in Nat /\ y * b \in Nat OBVIOUS
<1>2. CASE x < y
  <2>1. (x + 1) * b <= y * b BY <1>2, ProductsOrdered
  <2>2. (x + 1) * b = x * b + b OBVIOUS
  <2> QED BY <1>1, <1>2, <2>1, <2>2
<1>3. CASE ~(x < y)
  <2>1. y * b <= x * b BY <1>3, ProductsOrdered
  <2> QED BY <1>1, <1>3, <2>1
<1> QED BY <1>2, <1>3

LEMMA QuotientIs ==
    ASSUME NEW a \in Nat, NEW b \in Nat \ {0}
    PROVE  /\ a \div b \in Nat /\ (a \div b) * b <= a /\ a < (a \div b) * b + b
           /\ a % b = 0 => (a \div b) * b = a
OBVIOUS

LEMMA RemainderIs ==
    ASSUME NEW W \in Nat \ {0}, NEW a \in 0 .. W - 1
    PROVE  a % W = a /\ (a + W) % W = a /\ (a - W) % W = a
OBVIOUS

LEMMA BelowCeil ==
    ASSUME NEW a \in Nat \ {0}, NEW b \in Nat \ {0}, NEW k \in Nat
    PROVE  k < CeilDiv(a, b) <=> k * b < a
<1> DEFINE q == (a + b - 1) \div b
<1>1. q \in Nat /\ q * b <= a + b - 1 /\ a + b - 1 < q * b + b BY QuotientIs
<1>2. CeilDiv(a, b) = q BY DEF CeilDiv
<1> HIDE DEF q
<1>3. q * b \in Nat /\ k * b \in Nat BY <1>1
<1>4. CASE k < q
  <2>1. (k + 1) * b <= q * b BY <1>1, <1>4, ProductsOrdered
  <2>2. (k + 1) * b = k * b + b OBVIOUS
  <2> QED BY <1>1, <1>2, <1>3, <1>4, <2>1, <2>2
<1>5. CASE ~(k < q)
  <2>1. q * b <= k * b BY <1>1, <1>5, ProductsOrdered
  <2> QED BY <1>1, <1>2, <1>3, <1>5, <2>1
<1> QED BY <1>4, <1>5

(* The input rows that a sample row of c covers.                           *)
rows_of(c) == max_v_samp_factor \div rgroup(c)

LEMMA RowGroups ==
    ASSUME setup \in Setups, NEW c \in Components
    PROVE  /\ rgroup(c) \in Nat \ {0} /\ rows_of(c) \in Nat \ {0}
           /\ rgroup(c) * rows_of(c) = max_v_samp_factor
<1> DEFINE V == max_v_samp_factor  r == rgroup(c)
<1>1. /\ V \in Nat \ {0} /\ setup.rgroup \in 1 .. V /\ V % setup.rgroup = 0
  BY RowsAssumption DEF max_v_samp_factor
<1>2. V % V = 0 BY <1>1
<1>3. r \in Nat \ {0} /\ V % r = 0
  BY <1>1, <1>2 DEF rgroup
<1>4. rows_of(c) = V \div r BY DEF rows_of
<1> HIDE DEF V, r
<1>5. (V \div r) \in Nat /\ (V \div r) * r = V BY <1>1, <1>3, QuotientIs
<1>6. V \div r # 0 BY <1>1, <1>3, <1>5
<1> QED BY <1>3, <1>4, <1>5, <1>6 DEF V, r

(* A sample row lies inside the image if its first input row does.         *)
LEMMA RowInside ==
    ASSUME setup \in Setups, NEW c \in Components, NEW k \in Nat
    PROVE  k < sample_rows(c) <=> k * rows_of(c) < image_height
<1> DEFINE V == max_v_samp_factor  H == image_height  r == rgroup(c)  h == rows_of(c)
<1>1. V \in Nat \ {0} /\ H \in Nat \ {0} /\ r \in Nat \ {0} /\ h \in Nat \ {0} /\ r * h = V
  BY SizesAreInt, RowGroups
<1>2. sample_rows(c) = CeilDiv(H * r, V) BY DEF sample_rows
<1> HIDE DEF V, H, r, h
<1>3. H * r \in Nat \ {0} /\ k * h \in Nat BY <1>1
<1>4. k < sample_rows(c) <=> k * V < H * r BY <1>1, <1>2, <1>3, BelowCeil
<1>5. k * V = (k * h) * r BY <1>1
<1>6. (k * h) * r < H * r <=> k * h < H BY <1>1, <1>3, FactorsOrdered
<1> QED BY <1>4, <1>5, <1>6 DEF H, h

LEMMA RowOfGroup ==
    ASSUME setup \in Setups, NEW c \in Components, NEW G \in Nat, NEW j \in 0 .. rgroup(c) - 1
    PROVE  /\ G * rgroup(c) + j \in Nat
           /\ (G * rgroup(c) + j) * rows_of(c) = G * max_v_samp_factor + j * rows_of(c)
           /\ j * rows_of(c) \in Nat
           /\ j * rows_of(c) + rows_of(c) <= max_v_samp_factor
<1> DEFINE V == max_v_samp_factor  r == rgroup(c)  h == rows_of(c)
<1>1. r \in Nat \ {0} /\ h \in Nat \ {0} /\ r * h = V BY RowGroups
<1>2. j \in Nat /\ j + 1 <= r BY <1>1
<1> HIDE DEF V, r, h
<1>3. G * r + j \in Nat /\ j * h \in Nat BY <1>1, <1>2
<1>4. (G * r + j) * h = (G * r) * h + j * h /\ (G * r) * h = G * (r * h)
  <2>1. G * r \in Nat BY <1>1
  <2> QED BY <1>1, <1>2, <2>1
<1>5. (j + 1) * h <= r * h BY <1>1, <1>2, ProductsOrdered
<1>6. (j + 1) * h = j * h + h BY <1>1, <1>2
<1> QED BY <1>1, <1>3, <1>4, <1>5, <1>6 DEF V, r, h

(* An iMCU row is one of the image if its first line is.                   *)
LEMMA IMCURowInside ==
    ASSUME setup \in Setups, NEW r \in Nat
    PROVE  /\ r < total_iMCU_rows <=> (r * DCTSIZE) * max_v_samp_factor < image_height
           /\ (r * DCTSIZE) * max_v_samp_factor = r * lines_per_iMCU_row
           /\ lines_per_iMCU_row \in Nat \ {0}
<1> DEFINE V == max_v_samp_factor  H == image_height  L == lines_per_iMCU_row
<1>1. V \in Nat \ {0} /\ H \in Nat \ {0} /\ DCTSIZE \in Nat \ {0}
  BY SizesAreInt, RowsAssumption
<1>2. L = DCTSIZE * V /\ total_iMCU_rows = CeilDiv(H, L)
  BY DEF lines_per_iMCU_row, total_iMCU_rows
<1> HIDE DEF V, H, L
<1>3. L \in Nat \ {0} BY <1>1, <1>2
<1>4. r < total_iMCU_rows <=> r * L < H BY <1>1, <1>2, <1>3, BelowCeil
<1>5. (r * DCTSIZE) * V = r * L BY <1>1, <1>2
<1> QED BY <1>3, <1>4, <1>5 DEF V, H, L

-----------------------------------------------------------------------------
(* What is in the buffers.  Row group G of the image, as it should be:     *)
GroupIs(rows, G) ==
    \A c \in Components : \A j \in 0 .. rgroup(c) - 1 :
        LET k == G * rgroup(c) + j
        IN  k < sample_rows(c) => rows[c][j] = ImageRow(c, k)

(* The row group that is collected, counted from the top of the image.     *)
group == cur_iMCU_row * DCTSIZE + rowgroup_ctr
rows_read == image_height - rows_to_go

(* The main controller's row groups, and the iMCU row that went before.    *)
Collected ==
    /\ cur_iMCU_row < total_iMCU_rows =>
           \A g \in 0 .. rowgroup_ctr - 1 :
               GroupIs(buffer[g], cur_iMCU_row * DCTSIZE + g)
    /\ cur_iMCU_row > 0 => IsIMCURow(last, cur_iMCU_row - 1)

(* Without context rows: the conversion buffer has the rows of the row     *)
(* group so far, and the row that ends the image ends the last iMCU row.   *)
SimpleOK ==
    ~need_context_rows =>
        /\ rows_to_go > 0 =>
               /\ rows_read = group * max_v_samp_factor + next_buf_row
               /\ \A i \in 0 .. next_buf_row - 1 :
                      color_buf[i] = group * max_v_samp_factor + i
        /\ rows_to_go = 0 /\ cur_iMCU_row < total_iMCU_rows =>
               rowgroup_ctr = DCTSIZE /\ cur_iMCU_row + 1 = total_iMCU_rows

(* With context rows it has, wrapped around, the row above the row group   *)
(* and all that were read since, repeated at the edges of the image.       *)
Window(buf, base, G, rows) ==
    \A x \in -1 .. rows - 1 :
        color_row(buf, base + x) = Clamp(G * max_v_samp_factor + x)

ahead == 2 * max_v_samp_factor - (next_buf_stop - next_buf_row)
ContextOK ==
    need_context_rows =>
        /\ next_buf_stop = IF this_row_group = 2 * max_v_samp_factor
                           THEN max_v_samp_factor
                           ELSE this_row_group + 2 * max_v_samp_factor
        /\ IF group = 0 THEN this_row_group = 0 ELSE ahead >= max_v_samp_factor
        /\ IF rows_to_go > 0 THEN rows_read = group * max_v_samp_factor + ahead
                             ELSE group * max_v_samp_factor + ahead >= image_height
        /\ rows_to_go < image_height =>
               Window(color_buf, this_row_group, group, ahead)

DataInv == Collected /\ SimpleOK /\ ContextOK

LEMMA RowIs == ASSUME NEW rows, NEW r PROVE
    IsIMCURow(rows, r) <=> \A g \in 0 .. DCTSIZE - 1 : GroupIs(rows[g], r * DCTSIZE + g)
BY DEF IsIMCURow, GroupIs

(* The downsampler makes a row group from the rows it covers ...           *)
LEMMA SimpleGroup ==
    ASSUME setup \in Setups, ~need_context_rows, NEW buf, NEW G \in Nat,
           \A i \in 0 .. max_v_samp_factor - 1 : buf[i] = Clamp(G * max_v_samp_factor + i)
    PROVE  GroupIs(downsample(buf, 0), G)
<1> DEFINE V == max_v_samp_factor
<1>1. V \in Nat \ {0} BY SizesAreInt
<1>2. SUFFICES ASSUME NEW c \in Components, NEW j \in 0 .. rgroup(c) - 1
               PROVE  downsample(buf, 0)[c][j] = ImageRow(c, G * rgroup(c) + j)
  BY DEF GroupIs
<1> DEFINE h == rows_of(c)  k == G * rgroup(c) + j
<1>3. /\ h \in Nat \ {0} /\ k * h = G * V + j * h /\ j * h \in Nat /\ j * h + h <= V
      /\ k \in Nat
  BY RowGroups, RowOfGroup
<1>4. downsample(buf, 0)[c][j] = [i \in 1 .. h |-> color_row(buf, 0 + j * h + i - 1)]
  BY DEF downsample, SampleRow, rows_of
<1>5. ImageRow(c, k) = [i \in 1 .. h |-> Clamp(k * h + i - 1)]
  BY DEF ImageRow, rows_of
<1>6. ASSUME NEW i \in 1 .. h
      PROVE  color_row(buf, 0 + j * h + i - 1) = Clamp(k * h + i - 1)
  <2> HIDE DEF V, h, k
  <2>0. G * V \in Nat BY <1>1
  <2> DEFINE x == j * h + i - 1
  <2>1. x \in 0 .. V - 1 /\ 0 + j * h + i - 1 = x /\ k * h + i - 1 = G * V + x
    BY <1>1, <1>3, <2>0
  <2> HIDE DEF x
  <2>2. buf_height = V BY DEF buf_height, V
  <2>3. color_row(buf, x) = buf[x] BY <1>1, <2>1, <2>2, RemainderIs DEF color_row
  <2> QED BY <2>1, <2>3 DEF V
<1> HIDE DEF V, h, k
<1>7. ImageRow(c, k) = downsample(buf, 0)[c][j] BY <1>4, <1>5, <1>6
<1> QED BY <1>7 DEF k

(* ... and, with context rows, from one above and one below them as well.  *)
LEMMA ContextGroup ==
    ASSUME setup \in Setups, need_context_rows, NEW buf, NEW G \in Nat, NEW base \in Nat,
           \A x \in -1 .. max_v_samp_factor :
               color_row(buf, base + x) = Clamp(G * max_v_samp_factor + x)
    PROVE  GroupIs(downsample(buf, base), G)
<1> DEFINE V == max_v_samp_factor
<1>1. V \in Nat \ {0} BY SizesAreInt
<1>2. SUFFICES ASSUME NEW c \in Components, NEW j \in 0 .. rgroup(c) - 1
               PROVE  downsample(buf, base)[c][j] = ImageRow(c, G * rgroup(c) + j)
  BY DEF GroupIs
<1> DEFINE h == rows_of(c)  k == G * rgroup(c) + j
<1>3. /\ h \in Nat \ {0} /\ k * h = G * V + j * h /\ j * h \in Nat /\ j * h + h <= V
      /\ k \in Nat /\ G * V \in Nat
  BY <1>1, RowGroups, RowOfGroup
<1>4. downsample(buf, base)[c][j] =
          [i \in 1 .. h + 2 |-> color_row(buf, base + j * h + i - 2)]
  BY DEF downsample, SampleRow, rows_of
<1>5. ImageRow(c, k) = [i \in 1 .. h + 2 |-> Clamp(k * h + i - 2)]
  BY DEF ImageRow, rows_of
<1>6. ASSUME NEW i \in 1 .. h + 2
      PROVE  color_row(buf, base + j * h + i - 2) = Clamp(k * h + i - 2)
  <2> HIDE DEF h, k
  <2> DEFINE x == j * h + i - 2
  <2>1. x \in -1 .. V /\ base + j * h + i - 2 = base + x /\ k * h + i - 2 = G * V + x
    BY <1>1, <1>3
  <2> HIDE DEF x
  <2> QED BY <2>1
<1> HIDE DEF V, h, k
<1>7. ImageRow(c, k) = downsample(buf, base)[c][j] BY <1>4, <1>5, <1>6
<1> QED BY <1>7 DEF k

(* No two iMCU rows of the image are the same.                             *)
LEMMA RowsDiffer ==
    ASSUME setup \in Setups, NEW rows, NEW r \in 0 .. total_iMCU_rows - 1, IsIMCURow(rows, r)
    PROVE  IMCURowOf(rows) = r
<1> DEFINE V == max_v_samp_factor  i == IF need_context_rows THEN 2 ELSE 1
<1>1. /\ V \in Nat \ {0} /\ DCTSIZE \in Nat \ {0} /\ total_iMCU_rows \in Nat
      /\ image_height \in Nat \ {0}
  BY SizesAreInt, TotalIsNat, RowsAssumption
<1>2. rgroup("luma") = V /\ rows_of("luma") = 1 /\ "luma" \in Components
  <2>1. rgroup("luma") = V /\ "luma" \in Components BY DEF rgroup, Components
  <2>2. rows_of("luma") \in Nat /\ V * rows_of("luma") = V BY <2>1, RowGroups
  <2> HIDE DEF V
  <2> QED BY <1>1, <2>1, <2>2
<1>3. ASSUME NEW s \in 0 .. total_iMCU_rows - 1, IsIMCURow(rows, s)
      PROVE  rows[0]["luma"][0][i] = s * lines_per_iMCU_row
  <2> DEFINE k == (s * DCTSIZE) * V
  <2>1. s \in Nat /\ s < total_iMCU_rows BY <1>1
  <2>2. k < image_height /\ k = s * lines_per_iMCU_row BY <2>1, IMCURowInside
  <2>3. k \in Nat /\ (s * DCTSIZE + 0) * rgroup("luma") + 0 = k
    BY <1>1, <1>2, <2>1
  <2>4. 0 \in 0 .. DCTSIZE - 1 /\ 0 \in 0 .. rgroup("luma") - 1 BY <1>1, <1>2
  <2>5. k < sample_rows("luma")
    <3>1. k * rows_of("luma") = k BY <1>2, <2>3
    <3> HIDE DEF k
    <3> QED BY <1>2, <2>2, <2>3, <3>1, RowInside
  <2>6. rows[0]["luma"][0] = ImageRow("luma", k)
    <3> HIDE DEF k
    <3> QED BY <1>2, <1>3, <2>3, <2>4, <2>5 DEF IsIMCURow
  <2>7. ImageRow("luma", k)[i] = Clamp(k)
    <3> HIDE DEF k
    <3>1. k * rows_of("luma") + i - i = k BY <1>2, <2>3
    <3>2. i \in 1 .. rows_of("luma") + (IF need_context_rows THEN 2 ELSE 0) BY <1>2
    <3> QED BY <1>2, <2>3, <3>1, <3>2 DEF ImageRow, rows_of
  <2>8. Clamp(k) = k
    <3> HIDE DEF k
    <3> QED BY <1>1, <2>2, <2>3 DEF Clamp, Min2
  <2> QED BY <2>2, <2>6, <2>7, <2>8
<1>4. ASSUME NEW s \in 0 .. total_iMCU_rows - 1, IsIMCURow(rows, s) PROVE s = r
  <2> DEFINE L == lines_per_iMCU_row
  <2>1. s * L = r * L BY <1>3, <1>4
  <2>2. s \in Nat /\ r \in Nat /\ L \in Nat \ {0} BY <1>1, IMCURowInside
  <2> HIDE DEF L
  <2>3. ~(s * L < r * L) /\ ~(r * L < s * L) BY <2>1, <2>2
  <2>4. ~(s < r) /\ ~(r < s) BY <2>2, <2>3, FactorsOrdered
  <2> QED BY <2>2, <2>4
<1> QED BY <1>4 DEF IMCURowOf


-----------------------------------------------------------------------------
LEMMA GroupIsNat ==
    ASSUME RangesInv
    PROVE  /\ cur_iMCU_row \in Nat /\ rowgroup_ctr \in Nat /\ rowgroup_ctr <= DCTSIZE
           /\ cur_iMCU_row * DCTSIZE \in Nat
           /\ group \in Nat /\ group * max_v_samp_factor \in Nat
           /\ group = cur_iMCU_row * DCTSIZE + rowgroup_ctr
<1>1. /\ DCTSIZE \in Nat /\ total_iMCU_rows \in Nat /\ max_v_samp_factor \in Nat BY Sizes
<1>2. cur_iMCU_row \in Nat /\ rowgroup_ctr \in Nat /\ rowgroup_ctr <= DCTSIZE
  BY <1>1 DEF RangesInv, TypeOK
<1>3. cur_iMCU_row * DCTSIZE \in Nat BY <1>1, <1>2
<1>4. group \in Nat BY <1>2, <1>3 DEF group
<1>5. group * max_v_samp_factor \in Nat BY <1>1, <1>4
<1> QED BY <1>2, <1>3, <1>4, <1>5 DEF group

(* What to show of the state after a step, in terms of the same image.     *)
LEMMA CollectedThen ==
    ASSUME setup' = setup,
           cur_iMCU_row' < total_iMCU_rows =>
               \A g \in 0 .. rowgroup_ctr' - 1 :
                   GroupIs(buffer'[g], cur_iMCU_row' * DCTSIZE + g),
           cur_iMCU_row' > 0 => IsIMCURow(last', cur_iMCU_row' - 1)
    PROVE  Collected'
<1>1. /\ max_v_samp_factor' = max_v_samp_factor /\ image_height' = image_height
      /\ need_context_rows' = need_context_rows
      /\ total_iMCU_rows' = total_iMCU_rows
  BY SameSizes
<1>2. ASSUME NEW c PROVE rgroup(c)' = rgroup(c) BY <1>1 DEF rgroup
<1>3. ASSUME NEW c PROVE sample_rows(c)' = sample_rows(c)
  BY <1>1, <1>2 DEF sample_rows, CeilDiv
<1>4. ASSUME NEW y PROVE Clamp(y)' = Clamp(y) BY <1>1 DEF Clamp, Min2
<1>5. ASSUME NEW c, NEW k PROVE ImageRow(c, k)' = ImageRow(c, k)
  BY <1>1, <1>2, <1>4 DEF ImageRow
<1>6. ASSUME NEW rows, NEW G PROVE GroupIs(rows, G)' <=> GroupIs(rows, G)
  BY <1>2, <1>3, <1>5 DEF GroupIs
<1>7. ASSUME NEW rows, NEW r PROVE IsIMCURow(rows, r)' <=> IsIMCURow(rows, r)
  BY <1>2, <1>3, <1>5 DEF IsIMCURow
<1> QED BY <1>1, <1>6, <1>7 DEF Collected

LEMMA SimpleThen ==
    ASSUME setup' = setup, NEW G, G = group',
           ~need_context_rows,
           rows_to_go' > 0 =>
               /\ image_height - rows_to_go' = G * max_v_samp_factor + next_buf_row'
               /\ \A i \in 0 .. next_buf_row' - 1 :
                      color_buf'[i] = G * max_v_samp_factor + i,
           rows_to_go' = 0 /\ cur_iMCU_row' < total_iMCU_rows =>
               rowgroup_ctr' = DCTSIZE /\ cur_iMCU_row' + 1 = total_iMCU_rows
    PROVE  SimpleOK' /\ ContextOK'
<1>1. /\ max_v_samp_factor' = max_v_samp_factor /\ image_height' = image_height
      /\ need_context_rows' = need_context_rows
      /\ total_iMCU_rows' = total_iMCU_rows
  BY SameSizes
<1>2. SimpleOK' BY <1>1 DEF SimpleOK, rows_read
<1>3. ContextOK' BY <1>1 DEF ContextOK
<1> QED BY <1>2, <1>3

LEMMA ContextThen ==
    ASSUME setup' = setup, NEW G, G = group', NEW rows,
           rows = 2 * max_v_samp_factor - (next_buf_stop' - next_buf_row'),
           need_context_rows,
           next_buf_stop' = IF this_row_group' = 2 * max_v_samp_factor
                            THEN max_v_samp_factor
                            ELSE this_row_group' + 2 * max_v_samp_factor,
           IF G = 0 THEN this_row_group' = 0 ELSE rows >= max_v_samp_factor,
           IF rows_to_go' > 0
             THEN image_height - rows_to_go' = G * max_v_samp_factor + rows
             ELSE G * max_v_samp_factor + rows >= image_height,
           rows_to_go' < image_height => Window(color_buf', this_row_group', G, rows)
    PROVE  SimpleOK' /\ ContextOK'
<1>1. /\ max_v_samp_factor' = max_v_samp_factor /\ image_height' = image_height
      /\ need_context_rows' = need_context_rows /\ buf_height' = buf_height
      /\ total_iMCU_rows' = total_iMCU_rows
  BY SameSizes
<1>2. SimpleOK' BY <1>1 DEF SimpleOK
<1>3. rows = ahead' BY <1>1 DEF ahead
<1>4. ContextOK'
  BY <1>1, <1>3 DEF ContextOK, rows_read, Window, color_row, Clamp, Min2
<1> QED BY <1>2, <1>4

LEMMA InitData == ASSUME Init PROVE DataInv
<1>1. setup \in Setups BY DEF Init
<1>2. /\ image_height \in Nat \ {0} /\ max_v_samp_factor \in Nat \ {0} /\ DCTSIZE \in Nat
  BY <1>1, SizesAreInt, RowsAssumption
<1>3. /\ rows_to_go = image_height /\ next_buf_row = 0 /\ this_row_group = 0
      /\ next_buf_stop = 2 * max_v_samp_factor /\ rowgroup_ctr = 0 /\ cur_iMCU_row = 0
  BY DEF Init
<1>4. group = 0 /\ ahead = 0 /\ rows_read = 0 /\ group * max_v_samp_factor = 0
  BY <1>2, <1>3 DEF group, ahead, rows_read
<1>5. Collected BY <1>3 DEF Collected
<1>6. SimpleOK BY <1>2, <1>3, <1>4 DEF SimpleOK
<1>7. ContextOK BY <1>2, <1>3, <1>4 DEF ContextOK
<1> QED BY <1>5, <1>6, <1>7 DEF DataInv

(* A call, its return and a suspension leave the rows as they are.         *)
rows_vars == <<setup, color_buf, rows_to_go, next_buf_row, this_row_group, next_buf_stop,
               buffer, rowgroup_ctr, cur_iMCU_row, last>>

LEMMA DataKept == ASSUME DataInv, UNCHANGED rows_vars PROVE DataInv'
<1>1. /\ setup' = setup /\ color_buf' = color_buf /\ rows_to_go' = rows_to_go
      /\ next_buf_row' = next_buf_row /\ this_row_group' = this_row_group
      /\ next_buf_stop' = next_buf_stop /\ buffer' = buffer
      /\ rowgroup_ctr' = rowgroup_ctr /\ cur_iMCU_row' = cur_iMCU_row /\ last' = last
  BY DEF rows_vars
<1>2. Collected' BY <1>1, CollectedThen DEF DataInv, Collected
<1>3. group' = group BY <1>1 DEF group
<1>4. CASE need_context_rows
  <2>1. ContextOK BY DEF DataInv
  <2>2. ahead = 2 * max_v_samp_factor - (next_buf_stop' - next_buf_row')
    BY <1>1 DEF ahead
  <2>3. /\ next_buf_stop' = IF this_row_group' = 2 * max_v_samp_factor
                            THEN max_v_samp_factor
                            ELSE this_row_group' + 2 * max_v_samp_factor
        /\ IF group = 0 THEN this_row_group' = 0 ELSE ahead >= max_v_samp_factor
        /\ IF rows_to_go' > 0
             THEN image_height - rows_to_go' = group * max_v_samp_factor + ahead
             ELSE group * max_v_samp_factor + ahead >= image_height
        /\ rows_to_go' < image_height => Window(color_buf', this_row_group', group, ahead)
    BY <1>1, <1>4, <2>1 DEF ContextOK, rows_read
  <2>4. SimpleOK' /\ ContextOK' BY <1>1, <1>3, <1>4, <2>2, <2>3, ContextThen
  <2> QED BY <1>2, <2>4 DEF DataInv
<1>5. CASE ~need_context_rows
  <2>1. SimpleOK BY DEF DataInv
  <2>2. /\ rows_to_go' > 0 =>
               /\ image_height - rows_to_go' = group * max_v_samp_factor + next_buf_row'
               /\ \A i \in 0 .. next_buf_row' - 1 :
                      color_buf'[i] = group * max_v_samp_factor + i
        /\ rows_to_go' = 0 /\ cur_iMCU_row' < total_iMCU_rows =>
               rowgroup_ctr' = DCTSIZE /\ cur_iMCU_row' + 1 = total_iMCU_rows
    BY <1>1, <1>5, <2>1 DEF SimpleOK, rows_read
  <2>3. SimpleOK' /\ ContextOK' BY <1>1, <1>3, <1>5, <2>2, SimpleThen
  <2> QED BY <1>2, <2>3 DEF DataInv
<1> QED BY <1>4, <1>5


LEMMA CompressData == ASSUME Ready, DataInv, CompressRow PROVE DataInv'
<1> DEFINE V == max_v_samp_factor
<1>1. /\ setup' = setup /\ color_buf' = color_buf /\ rows_to_go' = rows_to_go
      /\ next_buf_row' = next_buf_row /\ this_row_group' = this_row_group
      /\ next_buf_stop' = next_buf_stop
      /\ last' = buffer /\ rowgroup_ctr = DCTSIZE /\ rowgroup_ctr' = 0
      /\ cur_iMCU_row' = cur_iMCU_row + 1 /\ cur_iMCU_row < total_iMCU_rows
  BY DEF CompressRow, Processing, prep, api
<1>2. /\ DCTSIZE \in Nat \ {0} /\ V \in Nat \ {0} /\ image_height \in Nat \ {0}
      /\ total_iMCU_rows \in Nat /\ setup \in Setups
  BY Sizes DEF Ready
<1>3. /\ cur_iMCU_row \in Nat /\ cur_iMCU_row * DCTSIZE \in Nat
      /\ group = cur_iMCU_row * DCTSIZE + rowgroup_ctr
  BY GroupIsNat DEF Ready
<1>4. group' = group
  <2>1. group' = (cur_iMCU_row + 1) * DCTSIZE + 0 BY <1>1 DEF group
  <2>2. (cur_iMCU_row + 1) * DCTSIZE = cur_iMCU_row * DCTSIZE + DCTSIZE BY <1>2, <1>3
  <2> QED BY <1>1, <1>2, <1>3, <2>1, <2>2
<1>5. Collected'
  <2>1. \A g \in 0 .. DCTSIZE - 1 : GroupIs(buffer[g], cur_iMCU_row * DCTSIZE + g)
    BY <1>1 DEF DataInv, Collected
  <2>2. IsIMCURow(buffer, cur_iMCU_row) BY <2>1, RowIs
  <2>3. cur_iMCU_row' - 1 = cur_iMCU_row BY <1>1, <1>3
  <2>4. IsIMCURow(last', cur_iMCU_row' - 1) BY <1>1, <2>2, <2>3
  <2>5. 0 .. rowgroup_ctr' - 1 = {} BY <1>1
  <2> QED BY <1>1, <2>4, <2>5, CollectedThen
<1>6. CASE need_context_rows
  <2>1. ContextOK BY DEF DataInv
  <2>2. ahead = 2 * V - (next_buf_stop' - next_buf_row') BY <1>1 DEF ahead
  <2>3. /\ next_buf_stop' = IF this_row_group' = 2 * V THEN V ELSE this_row_group' + 2 * V
        /\ IF group = 0 THEN this_row_group' = 0 ELSE ahead >= V
        /\ IF rows_to_go' > 0 THEN image_height - rows_to_go' = group * V + ahead
                              ELSE group * V + ahead >= image_height
        /\ rows_to_go' < image_height => Window(color_buf', this_row_group', group, ahead)
    BY <1>1, <1>6, <2>1 DEF ContextOK, rows_read
  <2>4. SimpleOK' /\ ContextOK' BY <1>1, <1>4, <1>6, <2>2, <2>3, ContextThen
  <2> QED BY <1>5, <2>4 DEF DataInv
<1>7. CASE ~need_context_rows
  <2>1. SimpleOK BY DEF DataInv
  <2>2. rows_to_go' > 0 =>
            /\ image_height - rows_to_go' = group * V + next_buf_row'
            /\ \A i \in 0 .. next_buf_row' - 1 : color_buf'[i] = group * V + i
    BY <1>1, <1>7, <2>1 DEF SimpleOK, rows_read
  <2>3. ~(rows_to_go' = 0 /\ cur_iMCU_row' < total_iMCU_rows)
    <3>1. rows_to_go = 0 => cur_iMCU_row + 1 = total_iMCU_rows
      BY <1>1, <1>7, <2>1 DEF SimpleOK
    <3> QED BY <1>1, <1>2, <3>1
  <2>4. SimpleOK' /\ ContextOK' BY <1>1, <1>4, <1>7, <2>2, <2>3, SimpleThen
  <2> QED BY <1>5, <2>4 DEF DataInv
<1> QED BY <1>6, <1>7

(* Below the image anything will do.                                       *)
LEMMA GroupBelow ==
    ASSUME setup \in Setups, NEW rows, NEW G \in Nat, G * max_v_samp_factor >= image_height
    PROVE  GroupIs(rows, G)
<1>1. max_v_samp_factor \in Nat /\ image_height \in Nat BY SizesAreInt
<1>2. SUFFICES ASSUME NEW c \in Components, NEW j \in 0 .. rgroup(c) - 1
               PROVE  ~(G * rgroup(c) + j < sample_rows(c))
  BY DEF GroupIs
<1> DEFINE k == G * rgroup(c) + j
<1>3. /\ k \in Nat /\ k * rows_of(c) = G * max_v_samp_factor + j * rows_of(c)
      /\ j * rows_of(c) \in Nat
  BY RowOfGroup
<1>4. G * max_v_samp_factor \in Nat BY <1>1
<1> HIDE DEF k
<1>5. ~(k * rows_of(c) < image_height) BY <1>1, <1>3, <1>4
<1>6. ~(k < sample_rows(c)) BY <1>3, <1>5, RowInside
<1> QED BY <1>6 DEF k

LEMMA SimpleData == ASSUME Ready, DataInv, PreProcessRows PROVE DataInv'
<1> DEFINE V == max_v_samp_factor
           H == image_height
           n == Wanted(V)
           filled == next_buf_row + n
           left == rows_to_go - n
           conv == Converted(n)
           padded == IF left = 0 THEN expand_bottom_edge(conv, filled, V) ELSE conv
           emptied == [buffer EXCEPT ![rowgroup_ctr] = downsample(padded, 0)]
<1>1. /\ Processing /\ CanPreProcess /\ ~need_context_rows /\ need_context_rows = FALSE
  BY Sizes DEF PreProcessRows, Ready
<1>2. MoreRows /\ rowgroup_ctr < DCTSIZE /\ cur_iMCU_row < total_iMCU_rows
  BY <1>1 DEF CanPreProcess, Processing
<1>3. /\ setup' = setup /\ cur_iMCU_row' = cur_iMCU_row /\ last' = last
      /\ rows_to_go' = left /\ color_buf' = padded
      /\ next_buf_row' = IF left = 0 \/ filled = V THEN 0 ELSE filled
      /\ buffer' = IF left = 0 THEN PadOutput(emptied, rowgroup_ctr + 1)
                   ELSE IF filled = V THEN emptied ELSE buffer
      /\ rowgroup_ctr' = IF left = 0 THEN DCTSIZE
                         ELSE IF filled = V THEN rowgroup_ctr + 1 ELSE rowgroup_ctr
  BY DEF PreProcessRows, TakeRows, api
<1>4. /\ next_buf_row \in Nat /\ next_buf_row < V
      /\ rows_to_go \in 0 .. H /\ next_scanline \in Nat /\ in_row_ctr \in Nat
      /\ DOMAIN buffer = 0 .. DCTSIZE - 1
      /\ DOMAIN color_buf = 0 .. V - 1
  <2>1. buf_height = V /\ H \in Nat BY <1>1, Sizes DEF Ready
  <2> QED BY <1>1, <2>1 DEF Ready, RangesInv, TypeOK, StopsOK
<1>5. /\ V \in Nat \ {0} /\ DCTSIZE \in Nat \ {0} /\ H \in Nat \ {0}
      /\ buf_height = V /\ setup \in Setups /\ total_iMCU_rows \in Nat
  BY <1>1, Sizes DEF Ready
<1>6. n \in Nat \ {0} /\ filled <= V /\ left \in 0 .. H /\ suspended = FALSE
  <2>1. V \in Int /\ next_buf_row < V BY <1>4, <1>5
  <2> HIDE DEF V
  <2> QED BY <1>1, <1>2, <2>1, WantedRows
<1>7. /\ cur_iMCU_row \in Nat /\ rowgroup_ctr \in Nat /\ group \in Nat
      /\ group * V \in Nat /\ cur_iMCU_row * DCTSIZE \in Nat
      /\ group = cur_iMCU_row * DCTSIZE + rowgroup_ctr
  BY GroupIsNat DEF Ready
<1> HIDE DEF n
<1>8. /\ H - rows_to_go = group * V + next_buf_row
      /\ \A i \in 0 .. next_buf_row - 1 : color_buf[i] = group * V + i
      /\ next_scanline + in_row_ctr = H - rows_to_go
  <2>1. rows_to_go > 0 BY <1>4, <1>5, <1>6
  <2>2. H - rows_to_go = next_scanline + in_row_ctr + 0
    BY <1>6 DEF Ready, RowsAccountedFor
  <2> QED BY <1>1, <1>4, <2>1, <2>2 DEF DataInv, SimpleOK, rows_read
<1>9. /\ group * V + filled = H - left
      /\ \A i \in 0 .. filled - 1 : conv[i] = group * V + i
  <2>1. group * V + filled = H - left BY <1>4, <1>5, <1>6, <1>7, <1>8
  <2>2. ASSUME NEW i \in 0 .. filled - 1 PROVE conv[i] = group * V + i
    <3>1. i \in DOMAIN color_buf BY <1>4, <1>5, <1>6
    <3>2. conv[i] = IF i \in next_buf_row .. next_buf_row + n - 1
                    THEN next_scanline + in_row_ctr + i - next_buf_row ELSE color_buf[i]
      BY <3>1 DEF Converted, color_convert
    <3>3. i \in Nat /\ next_buf_row \in Nat /\ H - rows_to_go \in Int /\ group * V \in Nat
      BY <1>4, <1>5, <1>6, <1>7
    <3> HIDE DEF V, H, conv
    <3>4. CASE i < next_buf_row
      <4>1. conv[i] = color_buf[i] /\ i \in 0 .. next_buf_row - 1 BY <1>6, <3>2, <3>3, <3>4
      <4> QED BY <1>8, <4>1
    <3>5. CASE ~(i < next_buf_row)
      <4>1. conv[i] = next_scanline + in_row_ctr + i - next_buf_row
        BY <1>6, <3>2, <3>3, <3>5
      <4> QED BY <1>4, <1>8, <3>3, <4>1
    <3> QED BY <3>4, <3>5
  <2> QED BY <2>1, <2>2
<1>10. ASSUME left = 0 \/ filled = V
       PROVE  GroupIs(downsample(padded, 0), group)
  <2>1. ASSUME NEW i \in 0 .. V - 1 PROVE padded[i] = Clamp(group * V + i)
    <3>1. CASE i < filled
      <4>1. i \in 0 .. filled - 1 /\ ~(i \in filled .. V - 1) BY <1>4, <1>5, <1>6, <3>1
      <4>2. padded[i] = conv[i]
        BY <1>4, <4>1 DEF expand_bottom_edge, Converted, color_convert
      <4>3. Clamp(group * V + i) = group * V + i
        <5> HIDE DEF V
        <5> QED BY <1>4, <1>5, <1>6, <1>7, <1>9, <4>1 DEF Clamp, Min2
      <4> QED BY <1>9, <4>1, <4>2, <4>3
    <3>2. CASE ~(i < filled)
      <4>1. i \in filled .. V - 1 /\ left = 0 BY <1>4, <1>5, <1>6, <1>10, <3>2
      <4>2. padded[i] = color_row(conv, filled - 1)
        BY <1>4, <4>1 DEF expand_bottom_edge, Converted, color_convert
      <4>3. filled - 1 \in 0 .. filled - 1 /\ filled - 1 \in 0 .. V - 1
        BY <1>4, <1>5, <1>6
      <4>4. color_row(conv, filled - 1) = conv[filled - 1]
        <5> HIDE DEF V, filled, conv
        <5> QED BY <1>5, <4>3, RemainderIs DEF color_row
      <4>5. conv[filled - 1] = H - 1
        <5>1. conv[filled - 1] = group * V + (filled - 1) BY <1>9, <4>3
        <5> HIDE DEF V, conv
        <5> QED BY <1>4, <1>5, <1>6, <1>7, <1>9, <4>1, <5>1
      <4>6. Clamp(group * V + i) = H - 1
        <5> HIDE DEF V
        <5> QED BY <1>4, <1>5, <1>6, <1>7, <1>9, <4>1, <3>2 DEF Clamp, Min2
      <4> QED BY <4>2, <4>4, <4>5, <4>6
    <3> QED BY <3>1, <3>2
  <2> HIDE DEF padded
  <2> QED BY <1>1, <1>5, <1>7, <2>1, SimpleGroup
<1>11. \A g \in 0 .. rowgroup_ctr - 1 : GroupIs(buffer[g], cur_iMCU_row * DCTSIZE + g)
  BY <1>2 DEF DataInv, Collected
<1>12. cur_iMCU_row > 0 => IsIMCURow(last, cur_iMCU_row - 1) BY DEF DataInv, Collected
<1>13. ASSUME left = 0 \/ filled = V, NEW g \in 0 .. rowgroup_ctr
       PROVE  GroupIs(emptied[g], cur_iMCU_row * DCTSIZE + g)
  <2>1. g \in DOMAIN buffer BY <1>2, <1>4, <1>5, <1>7
  <2>2. CASE g = rowgroup_ctr
    BY <1>7, <1>10, <1>13, <2>1, <2>2
  <2>3. CASE g # rowgroup_ctr
    <3>1. g \in 0 .. rowgroup_ctr - 1 BY <1>7, <2>3
    <3>2. emptied[g] = buffer[g] BY <2>1, <2>3
    <3> QED BY <1>11, <3>1, <3>2
  <2> QED BY <2>2, <2>3
<1> HIDE DEF padded, emptied, conv
<1>14. CASE left = 0
  <2>1. H <= group * V + V
    <3> HIDE DEF V
    <3> QED BY <1>4, <1>5, <1>6, <1>7, <1>9, <1>14
  <2>2. \A g \in 0 .. DCTSIZE - 1 :
            GroupIs(PadOutput(emptied, rowgroup_ctr + 1)[g], cur_iMCU_row * DCTSIZE + g)
    <3>1. SUFFICES ASSUME NEW g \in 0 .. DCTSIZE - 1
                   PROVE  GroupIs(PadOutput(emptied, rowgroup_ctr + 1)[g],
                                  cur_iMCU_row * DCTSIZE + g)
      OBVIOUS
    <3>2. CASE g < rowgroup_ctr + 1
      <4>1. PadOutput(emptied, rowgroup_ctr + 1)[g] = emptied[g]
        BY <3>2 DEF PadOutput
      <4>2. g \in 0 .. rowgroup_ctr BY <1>5, <1>7, <3>2
      <4> QED BY <1>13, <1>14, <4>1, <4>2
    <3>3. CASE ~(g < rowgroup_ctr + 1)
      <4> DEFINE G == cur_iMCU_row * DCTSIZE + g
      <4>1. G \in Nat /\ group + 1 <= G /\ group + 1 \in Int BY <1>5, <1>7, <3>3
      <4> HIDE DEF G, V
      <4>2. (group + 1) * V <= G * V BY <1>5, <4>1, ProductsOrdered
      <4>3. (group + 1) * V = group * V + V BY <1>5, <1>7
      <4>4. G * V \in Nat BY <1>5, <4>1
      <4>5. G * V >= H BY <1>5, <1>7, <2>1, <4>2, <4>3, <4>4
      <4> QED BY <1>5, <4>1, <4>5, GroupBelow DEF G, V
    <3> QED BY <3>2, <3>3
  <2>3. rowgroup_ctr' = DCTSIZE /\ buffer' = PadOutput(emptied, rowgroup_ctr + 1)
    BY <1>3, <1>14
  <2>4. Collected' BY <1>3, <1>12, <2>2, <2>3, CollectedThen
  <2>5. cur_iMCU_row + 1 = total_iMCU_rows
    <3> DEFINE r == cur_iMCU_row + 1
    <3>1. r \in Nat /\ r * DCTSIZE = cur_iMCU_row * DCTSIZE + DCTSIZE BY <1>5, <1>7
    <3>2. group + 1 <= r * DCTSIZE /\ group + 1 \in Int /\ r * DCTSIZE \in Nat
      BY <1>2, <1>5, <1>7, <3>1
    <3> HIDE DEF r, V
    <3>3. (group + 1) * V <= (r * DCTSIZE) * V BY <1>5, <3>2, ProductsOrdered
    <3>4. (group + 1) * V = group * V + V BY <1>5, <1>7
    <3>5. (r * DCTSIZE) * V \in Nat BY <1>5, <3>2
    <3>6. ~((r * DCTSIZE) * V < H) BY <1>5, <1>7, <2>1, <3>3, <3>4, <3>5
    <3>7. ~(r < total_iMCU_rows) BY <1>5, <3>1, <3>6, IMCURowInside DEF V
    <3> QED BY <1>2, <1>5, <1>7, <3>7 DEF r
  <2>6. rows_to_go' = 0 /\ cur_iMCU_row' + 1 = total_iMCU_rows BY <1>3, <1>14, <2>5
  <2>7. SimpleOK' /\ ContextOK' BY <1>1, <1>3, <2>3, <2>6, SimpleThen
  <2> QED BY <2>4, <2>7 DEF DataInv
<1>15. CASE left # 0 /\ filled = V
  <2>1. /\ buffer' = emptied /\ rowgroup_ctr' = rowgroup_ctr + 1 /\ next_buf_row' = 0
    BY <1>3, <1>15
  <2>2. 0 .. rowgroup_ctr' - 1 = 0 .. rowgroup_ctr BY <1>7, <2>1
  <2>3. Collected' BY <1>3, <1>12, <1>13, <1>15, <2>1, <2>2, CollectedThen
  <2>4. group' = group + 1 BY <1>3, <1>7, <2>1 DEF group
  <2>5. H - rows_to_go' = (group + 1) * V + next_buf_row'
    <3> HIDE DEF V
    <3>1. (group + 1) * V = group * V + V BY <1>5, <1>7
    <3> QED BY <1>3, <1>5, <1>6, <1>7, <1>9, <1>15, <2>1, <3>1
  <2>6. 0 .. next_buf_row' - 1 = {} /\ rows_to_go' # 0 BY <1>3, <1>15, <2>1
  <2>7. SimpleOK' /\ ContextOK' BY <1>1, <1>3, <2>4, <2>5, <2>6, SimpleThen
  <2> QED BY <2>3, <2>7 DEF DataInv
<1>16. CASE left # 0 /\ filled # V
  <2>1. /\ buffer' = buffer /\ rowgroup_ctr' = rowgroup_ctr /\ next_buf_row' = filled
        /\ rows_to_go' = left /\ rows_to_go' # 0 /\ color_buf' = conv
    BY <1>3, <1>16 DEF padded
  <2>2. Collected' BY <1>3, <1>11, <1>12, <2>1, CollectedThen
  <2>3. group' = group BY <1>3, <2>1 DEF group
  <2>4. H - rows_to_go' = group * V + next_buf_row' BY <1>4, <1>5, <1>6, <1>7, <1>9, <2>1
  <2>5. SimpleOK' /\ ContextOK' BY <1>1, <1>3, <1>9, <2>1, <2>3, <2>4, SimpleThen
  <2> QED BY <2>2, <2>5 DEF DataInv
<1> QED BY <1>14, <1>15, <1>16


(* Where the rows of the window are in the wrapped-around buffer.          *)
LEMMA PlaceIs ==
    ASSUME NEW V \in Nat \ {0}, NEW base \in {0, V, 2 * V}, NEW x \in -1 .. 2 * V - 1
    PROVE  /\ (base + x) % (3 * V) = IF base + x < 0 THEN base + x + 3 * V
                                     ELSE IF base + x >= 3 * V THEN base + x - 3 * V
                                     ELSE base + x
           /\ (base + x) % (3 * V) \in 0 .. 3 * V - 1
<1> DEFINE W == 3 * V  y == base + x
<1>1. W \in Nat \ {0} /\ y \in Int /\ -1 <= y /\ y < 2 * W /\ W > 1 OBVIOUS
<1> HIDE DEF W, y
<1>2. CASE y < 0
  <2>1. y + W \in 0 .. W - 1 BY <1>1, <1>2
  <2>2. ((y + W) - W) % W = y + W
    <3> DEFINE z == y + W
    <3>1. z \in 0 .. W - 1 BY <2>1
    <3> HIDE DEF z
    <3>2. (z - W) % W = z BY <1>1, <3>1, RemainderIs
    <3> QED BY <3>2 DEF z
  <2>3. (y + W) - W = y BY <1>1
  <2>4. y % W = y + W BY <2>2, <2>3
  <2> QED BY <1>2, <2>1, <2>4 DEF W, y
<1>3. CASE y >= W
  <2>1. y - W \in 0 .. W - 1 BY <1>1, <1>3
  <2>2. (y - W + W) % W = y - W
    <3> DEFINE z == y - W
    <3> HIDE DEF z
    <3>1. (z + W) % W = z BY <1>1, <2>1, RemainderIs DEF z
    <3> QED BY <3>1 DEF z
  <2>3. y - W + W = y BY <1>1
  <2>4. y % W = y - W BY <2>2, <2>3
  <2>5. ~(y < 0) BY <1>1, <1>3
  <2> QED BY <1>3, <2>1, <2>4, <2>5 DEF W, y
<1>4. CASE y >= 0 /\ y < W
  <2>1. y \in 0 .. W - 1 BY <1>1, <1>4
  <2>2. y % W = y BY <1>1, <2>1, RemainderIs
  <2>3. ~(y < 0) /\ ~(y >= W) BY <1>1, <1>4
  <2> QED BY <2>1, <2>2, <2>3 DEF W, y
<1> QED BY <1>1, <1>2, <1>3, <1>4

(* A window of a rows from base on, and the next row at P.                 *)
Placed(V, base, stop, P, a) ==
    /\ V \in Nat \ {0} /\ base \in {0, V, 2 * V}
    /\ stop = IF base = 2 * V THEN V ELSE base + 2 * V
    /\ P \in Nat /\ P < stop
    /\ a \in Nat /\ a = 2 * V - (stop - P)

(* The rows that come next do not overwrite those of the window.           *)
LEMMA NewPlaces ==
    ASSUME NEW V, NEW base, NEW stop, NEW P, NEW a, Placed(V, base, stop, P, a),
           NEW m \in 0 .. stop - P, NEW x \in -1 .. a + m - 1
    PROVE  /\ x \in -1 .. 2 * V - 1
           /\ x >= a => /\ (base + x) % (3 * V) \in P .. P + m - 1
                        /\ (base + x) % (3 * V) = P + x - a
           /\ x < a => ~((base + x) % (3 * V) \in P .. P + m - 1)
           /\ (base + x) % (3 * V) \in 0 .. 3 * V - 1
<1> USE DEF Placed
<1>1. base \in Nat /\ stop \in Nat /\ m \in Nat /\ x \in Int /\ -1 <= x OBVIOUS
<1>2. x \in -1 .. 2 * V - 1 BY <1>1
<1> DEFINE p == (base + x) % (3 * V)
<1>3. /\ p = IF base + x < 0 THEN base + x + 3 * V
             ELSE IF base + x >= 3 * V THEN base + x - 3 * V ELSE base + x
      /\ p \in 0 .. 3 * V - 1
  BY <1>2, PlaceIs
<1> HIDE DEF p
<1>4. p \in Nat BY <1>3
<1>5. CASE base = 2 * V
  <2>1. stop = V /\ a = V + P /\ P < V BY <1>1, <1>5
  <2>2. x >= a => p = P + x - a /\ p \in P .. P + m - 1
    BY <1>1, <1>3, <1>4, <1>5, <2>1
  <2>3. x < a => ~(p \in P .. P + m - 1)
    BY <1>1, <1>3, <1>4, <1>5, <2>1
  <2> QED BY <1>2, <1>3, <2>2, <2>3 DEF p
<1>6. CASE base = V
  <2>1. stop = 3 * V /\ P = V + a BY <1>1, <1>6
  <2>2. x >= a => p = P + x - a /\ p \in P .. P + m - 1
    BY <1>1, <1>3, <1>4, <1>6, <2>1
  <2>3. x < a => ~(p \in P .. P + m - 1)
    BY <1>1, <1>3, <1>4, <1>6, <2>1
  <2> QED BY <1>2, <1>3, <2>2, <2>3 DEF p
<1>7. CASE base = 0
  <2>1. stop = 2 * V /\ P = a BY <1>1, <1>7
  <2>2. x >= a => p = P + x - a /\ p \in P .. P + m - 1
    BY <1>1, <1>3, <1>4, <1>7, <2>1
  <2>3. x < a => ~(p \in P .. P + m - 1)
    BY <1>1, <1>3, <1>4, <1>7, <2>1
  <2> QED BY <1>2, <1>3, <2>2, <2>3 DEF p
<1> QED BY <1>5, <1>6, <1>7

(* The row before the next one is the last of the window.                  *)
LEMMA LastPlace ==
    ASSUME NEW V, NEW base, NEW stop, NEW P, NEW a, Placed(V, base, stop, P, a)
    PROVE  /\ a - 1 \in -1 .. 2 * V - 1
           /\ (P - 1) % (3 * V) = (base + (a - 1)) % (3 * V)
<1> USE DEF Placed
<1>1. a - 1 \in -1 .. 2 * V - 1 /\ P - 1 \in Int OBVIOUS
<1>2. P - 1 \in -1 .. 2 * V - 1 \/ P - 1 \in 2 * V .. 3 * V - 1 OBVIOUS
<1>3. CASE base = 2 * V
  <2>1. a = V + P /\ P < V BY <1>3
  <2>2. P - 1 \in -1 .. 2 * V - 1 BY <2>1
  <2>3. (0 + (P - 1)) % (3 * V) = IF P - 1 < 0 THEN P - 1 + 3 * V ELSE P - 1
    BY <2>1, <2>2, PlaceIs
  <2>4. (base + (a - 1)) % (3 * V) = IF P - 1 < 0 THEN P - 1 + 3 * V ELSE P - 1
    <3>1. (base + (a - 1)) % (3 * V) =
              IF base + (a - 1) < 0 THEN base + (a - 1) + 3 * V
              ELSE IF base + (a - 1) >= 3 * V THEN base + (a - 1) - 3 * V
              ELSE base + (a - 1)
      BY <1>1, PlaceIs
    <3>2. base + (a - 1) = P - 1 + 3 * V BY <1>3, <2>1
    <3> QED BY <3>1, <3>2
  <2>5. 0 + (P - 1) = P - 1 OBVIOUS
  <2> QED BY <1>1, <2>3, <2>4, <2>5
<1>4. CASE base # 2 * V
  <2>1. base + (a - 1) = P - 1 BY <1>4
  <2> QED BY <1>1, <2>1
<1> QED BY <1>3, <1>4


(* What the invariant says when context rows are wanted.                   *)
LEMMA ContextFacts ==
    ASSUME Ready, DataInv, need_context_rows
    PROVE  /\ buf_height = 3 * max_v_samp_factor
           /\ this_row_group \in {0, max_v_samp_factor, 2 * max_v_samp_factor}
           /\ next_buf_row \in Nat /\ next_buf_row < next_buf_stop
           /\ next_buf_stop = IF this_row_group = 2 * max_v_samp_factor
                              THEN max_v_samp_factor
                              ELSE this_row_group + 2 * max_v_samp_factor
           /\ next_buf_stop \in Nat
           /\ ahead = 2 * max_v_samp_factor - (next_buf_stop - next_buf_row)
           /\ ahead \in Nat
           /\ IF group = 0 THEN this_row_group = 0 ELSE ahead >= max_v_samp_factor
           /\ IF rows_to_go > 0
                THEN image_height - rows_to_go = group * max_v_samp_factor + ahead
                ELSE group * max_v_samp_factor + ahead >= image_height
           /\ rows_to_go < image_height => Window(color_buf, this_row_group, group, ahead)
<1> DEFINE V == max_v_samp_factor
<1>1. V \in Nat \ {0} /\ buf_height = 3 * V BY Sizes DEF Ready
<1>2. /\ this_row_group \in {0, V, 2 * V} /\ next_buf_row \in Nat
      /\ next_buf_row < next_buf_stop
  BY <1>1 DEF Ready, RangesInv, TypeOK, StopsOK
<1>3. ContextOK BY DEF DataInv
<1>4. next_buf_stop = IF this_row_group = 2 * V THEN V ELSE this_row_group + 2 * V
  BY <1>3 DEF ContextOK
<1>5. next_buf_stop \in Nat BY <1>1, <1>2, <1>4
<1>6. ahead = 2 * V - (next_buf_stop - next_buf_row) BY DEF ahead
<1>7. IF group = 0 THEN this_row_group = 0 ELSE ahead >= V BY <1>3 DEF ContextOK
<1>8. ahead \in Nat
  <2>1. CASE this_row_group = 0
    <3>1. next_buf_stop = 2 * V BY <1>1, <1>4, <2>1
    <3> QED BY <1>1, <1>2, <1>6, <3>1
  <2>2. CASE this_row_group # 0 BY <1>1, <1>2, <1>5, <1>6, <1>7, <2>2
  <2> QED BY <2>1, <2>2
<1> QED BY <1>1, <1>2, <1>3, <1>4, <1>5, <1>6, <1>7, <1>8 DEF ContextOK, rows_read

LEMMA ContextAdvance ==
    ASSUME Ready, DataInv, need_context_rows, rowgroup_ctr < DCTSIZE,
           setup' = setup, cur_iMCU_row' = cur_iMCU_row, last' = last,
           NEW buf, color_buf' = buf,
           NEW m \in 0 .. next_buf_stop - next_buf_row,
           AdvanceContext(buf, next_buf_row + m),
           Window(buf, this_row_group, group, ahead + m),
           rows_to_go' \in Nat,
           IF rows_to_go' > 0
             THEN image_height - rows_to_go' = group * max_v_samp_factor + (ahead + m)
             ELSE group * max_v_samp_factor + (ahead + m) >= image_height
    PROVE  DataInv'
<1> DEFINE V == max_v_samp_factor
           base == this_row_group
           stop == next_buf_stop
           filled == next_buf_row + m
           W == 3 * V
<1>1. /\ buf_height = W
      /\ base \in {0, V, 2 * V}
      /\ next_buf_row \in Nat /\ next_buf_row < stop
      /\ stop = IF base = 2 * V THEN V ELSE base + 2 * V
      /\ stop \in Nat
      /\ ahead = 2 * V - (stop - next_buf_row)
      /\ ahead \in Nat
      /\ IF group = 0 THEN base = 0 ELSE ahead >= V
  BY ContextFacts
<1>2. /\ V \in Nat \ {0} /\ DCTSIZE \in Nat \ {0} /\ image_height \in Nat \ {0}
      /\ setup \in Setups
  BY Sizes DEF Ready
<1>3. /\ cur_iMCU_row \in Nat /\ rowgroup_ctr \in Nat /\ group \in Nat
      /\ group * V \in Nat /\ cur_iMCU_row * DCTSIZE \in Nat
      /\ group = cur_iMCU_row * DCTSIZE + rowgroup_ctr
  BY GroupIsNat DEF Ready
<1>4. /\ cur_iMCU_row < total_iMCU_rows => \A g \in 0 .. rowgroup_ctr - 1 :
             GroupIs(buffer[g], cur_iMCU_row * DCTSIZE + g)
      /\ cur_iMCU_row > 0 => IsIMCURow(last, cur_iMCU_row - 1)
  BY DEF DataInv, Collected
<1>5. DOMAIN buffer = 0 .. DCTSIZE - 1 BY DEF Ready, RangesInv, TypeOK
<1>6. filled \in Nat /\ filled <= stop /\ m \in Nat BY <1>1
<1>7. \A b \in {0, V, 2 * V}, x \in -1 .. 2 * V - 1 :
         (b + x) % W = IF b + x < 0 THEN b + x + W
                       ELSE IF b + x >= W THEN b + x - W ELSE b + x
  <2> SUFFICES ASSUME NEW b \in {0, V, 2 * V}, NEW x \in -1 .. 2 * V - 1
               PROVE  (b + x) % W = IF b + x < 0 THEN b + x + W
                                    ELSE IF b + x >= W THEN b + x - W ELSE b + x
    OBVIOUS
  <2> HIDE DEF V
  <2> QED BY <1>2, PlaceIs
<1>8. CASE filled = stop
  <2>1. /\ buffer' = [buffer EXCEPT ![rowgroup_ctr] = downsample(buf, base)]
        /\ rowgroup_ctr' = rowgroup_ctr + 1
        /\ this_row_group' = (base + V) % W
        /\ next_buf_row' = stop % W
        /\ next_buf_stop' = (stop % W) + V
    BY <1>1, <1>8 DEF AdvanceContext, StopAfter
  <2>2. ahead + m = 2 * V BY <1>1, <1>2, <1>6, <1>8
  <2>3. GroupIs(downsample(buf, base), group)
    <3>1. \A x \in -1 .. V : color_row(buf, base + x) = Clamp(group * V + x)
      <4> HIDE DEF V
      <4>1. \A x \in -1 .. V : x \in -1 .. (ahead + m) - 1 BY <1>2, <2>2
      <4> QED BY <4>1 DEF Window, V
    <3>2. base \in Nat BY <1>1, <1>2
    <3> HIDE DEF base
    <3> QED BY <1>2, <1>3, <3>1, <3>2, ContextGroup
  <2>4. ASSUME cur_iMCU_row < total_iMCU_rows, NEW g \in 0 .. rowgroup_ctr' - 1
        PROVE  GroupIs(buffer'[g], cur_iMCU_row * DCTSIZE + g)
    <3>1. g \in 0 .. rowgroup_ctr BY <1>3, <2>1, <2>4
    <3>2. g \in DOMAIN buffer BY <1>2, <1>3, <1>5, <3>1
    <3>3. CASE g = rowgroup_ctr BY <1>3, <2>1, <2>3, <3>2, <3>3
    <3>4. CASE g # rowgroup_ctr
      <4>1. g \in 0 .. rowgroup_ctr - 1 /\ buffer'[g] = buffer[g]
        BY <1>3, <2>1, <3>1, <3>2, <3>4
      <4> QED BY <1>4, <2>4, <4>1
    <3> QED BY <3>3, <3>4
  <2>5. Collected' BY <1>4, <2>4, CollectedThen
  <2>6. /\ this_row_group' \in {0, V, 2 * V}
        /\ this_row_group' = IF base = 2 * V THEN 0 ELSE base + V
        /\ next_buf_stop' = IF this_row_group' = 2 * V THEN V ELSE this_row_group' + 2 * V
        /\ next_buf_stop' - next_buf_row' = V
    <3>1. V \in -1 .. 2 * V - 1 /\ V \in 0 .. W - 1 /\ 2 * V \in 0 .. W - 1 /\ 0 \in 0 .. W - 1
      BY <1>2
    <3>2. (base + V) % W = IF base + V < 0 THEN base + V + W
                           ELSE IF base + V >= W THEN base + V - W ELSE base + V
      BY <1>1, <1>7, <3>1
    <3> HIDE DEF W
    <3>3. V % W = V /\ (2 * V) % W = 2 * V /\ (0 + W) % W = 0
      <4>1. W \in Nat \ {0} BY <1>2 DEF W
      <4> QED BY <3>1, <4>1, RemainderIs
    <3>4. W = 3 * V /\ 0 + W = W BY <1>2 DEF W
    <3>5. (base + V) % W = IF base = 2 * V THEN 0 ELSE base + V
      BY <1>1, <1>2, <3>2, <3>4
    <3>6. stop % W = IF base = V THEN 0 ELSE stop BY <1>1, <1>2, <3>3, <3>4
    <3> HIDE DEF V, base, stop
    <3>7. /\ this_row_group' = IF base = 2 * V THEN 0 ELSE base + V
          /\ next_buf_row' = IF base = V THEN 0 ELSE stop
          /\ next_buf_stop' = (IF base = V THEN 0 ELSE stop) + V
      BY <2>1, <3>5, <3>6
    <3>8. CASE base = 2 * V BY <1>1, <1>2, <3>7, <3>8
    <3>9. CASE base = V BY <1>1, <1>2, <3>7, <3>9
    <3>10. CASE base = 0 BY <1>1, <1>2, <3>7, <3>10
    <3> QED BY <1>1, <3>8, <3>9, <3>10
  <2>7. group' = group + 1 BY <1>3, <2>1 DEF group
  <2>8. (group + 1) * V = group * V + V BY <1>2, <1>3
  <2>9. V = 2 * V - (next_buf_stop' - next_buf_row') BY <1>2, <2>6
  <2>10. Window(buf, this_row_group', group + 1, V)
    <3> SUFFICES ASSUME NEW x \in -1 .. V - 1
                 PROVE  color_row(buf, this_row_group' + x) = Clamp((group + 1) * V + x)
      BY DEF Window
    <3>1. V + x \in -1 .. (ahead + m) - 1 /\ V + x \in -1 .. 2 * V - 1
      BY <1>2, <2>2
    <3>2. color_row(buf, base + (V + x)) = Clamp(group * V + (V + x))
      BY <3>1 DEF Window
    <3>3. group * V + (V + x) = (group + 1) * V + x
      <4> HIDE DEF V
      <4>1. x \in Int BY <1>2
      <4> QED BY <1>2, <1>3, <2>8, <4>1
    <3>4. (base + (V + x)) % W = (this_row_group' + x) % W
      <4>1. x \in -1 .. 2 * V - 1 BY <1>2
      <4>2. (base + (V + x)) % W =
                IF base + (V + x) < 0 THEN base + (V + x) + W
                ELSE IF base + (V + x) >= W THEN base + (V + x) - W ELSE base + (V + x)
        BY <1>1, <1>7, <3>1
      <4>3. (this_row_group' + x) % W =
                IF this_row_group' + x < 0 THEN this_row_group' + x + W
                ELSE IF this_row_group' + x >= W THEN this_row_group' + x - W
                ELSE this_row_group' + x
        BY <1>7, <2>6, <4>1
      <4> DEFINE p == (base + (V + x)) % W  q == (this_row_group' + x) % W
      <4>4. p = q
        <5> HIDE DEF p, q
        <5>1. x \in Int /\ -1 <= x /\ x < V BY <1>2
        <5>2. CASE base = 2 * V
          <6>1. this_row_group' = 0 BY <2>6, <5>2
          <6> QED BY <1>2, <4>2, <4>3, <5>1, <5>2, <6>1 DEF p, q
        <5>3. CASE base = V
          <6>1. this_row_group' = 2 * V BY <1>2, <2>6, <5>3
          <6> QED BY <1>2, <4>2, <4>3, <5>1, <5>3, <6>1 DEF p, q
        <5>4. CASE base = 0
          <6>1. this_row_group' = V BY <1>2, <2>6, <5>4
          <6> QED BY <1>2, <4>2, <4>3, <5>1, <5>4, <6>1 DEF p, q
        <5> QED BY <1>1, <5>2, <5>3, <5>4
      <4> QED BY <4>4
    <3> HIDE DEF V, W, base
    <3>5. color_row(buf, this_row_group' + x) = color_row(buf, base + (V + x))
      BY <1>1, <3>4 DEF color_row
    <3> QED BY <3>2, <3>3, <3>5
  <2>11. IF rows_to_go' > 0 THEN image_height - rows_to_go' = (group + 1) * V + V
                            ELSE (group + 1) * V + V >= image_height
    <3> HIDE DEF V
    <3>1. group * V + (ahead + m) = (group + 1) * V + V BY <1>2, <1>3, <2>2, <2>8
    <3> QED BY <3>1 DEF V
  <2>12. group + 1 # 0 /\ V >= V BY <1>2, <1>3
  <2>13. SimpleOK' /\ ContextOK'
    BY <2>6, <2>7, <2>9, <2>10, <2>11, <2>12, ContextThen
  <2> QED BY <2>5, <2>13 DEF DataInv
<1>9. CASE filled # stop
  <2>1. /\ buffer' = buffer /\ rowgroup_ctr' = rowgroup_ctr
        /\ this_row_group' = base /\ next_buf_row' = filled /\ next_buf_stop' = stop
    BY <1>9 DEF AdvanceContext
  <2>2. Collected' BY <1>4, <2>1, CollectedThen
  <2>3. group' = group BY <2>1 DEF group
  <2>4. ahead + m = 2 * V - (next_buf_stop' - next_buf_row') BY <1>1, <1>2, <1>6, <2>1
  <2>5. IF group = 0 THEN this_row_group' = 0 ELSE ahead + m >= V
    BY <1>1, <1>2, <1>6, <2>1
  <2>6. SimpleOK' /\ ContextOK'
    BY <1>1, <2>1, <2>3, <2>4, <2>5, ContextThen
  <2> QED BY <2>2, <2>6 DEF DataInv
<1> QED BY <1>8, <1>9


(* New rows extend the window.                                             *)
LEMMA TakenRows ==
    ASSUME Ready, DataInv, need_context_rows, rowgroup_ctr < DCTSIZE, Processing, MoreRows,
           NEW n, n = Wanted(next_buf_stop), NEW buf,
           buf = IF rows_to_go = image_height THEN pad_top(Converted(n)) ELSE Converted(n)
    PROVE  /\ n \in 0 .. next_buf_stop - next_buf_row
           /\ rows_to_go - n \in Nat
           /\ image_height - (rows_to_go - n) = group * max_v_samp_factor + (ahead + n)
           /\ Window(buf, this_row_group, group, ahead + n)
<1> DEFINE V == max_v_samp_factor
           H == image_height
           base == this_row_group
           stop == next_buf_stop
           P == next_buf_row
           W == 3 * V
           GV == group * V
           conv == Converted(n)
<1>1. /\ buf_height = W
      /\ base \in {0, V, 2 * V}
      /\ P \in Nat /\ P < stop
      /\ stop = IF base = 2 * V THEN V ELSE base + 2 * V
      /\ stop \in Nat
      /\ ahead = 2 * V - (stop - P)
      /\ ahead \in Nat
      /\ IF group = 0 THEN base = 0 ELSE ahead >= V
      /\ rows_to_go > 0 => H - rows_to_go = GV + ahead
      /\ rows_to_go < H => Window(color_buf, base, group, ahead)
  BY ContextFacts
<1>2. V \in Nat \ {0} /\ H \in Nat \ {0} /\ setup \in Setups BY Sizes DEF Ready
<1>3. /\ n \in Nat \ {0} /\ P + n <= stop /\ suspended = FALSE
      /\ rows_to_go - n \in 0 .. H
  <2>1. next_buf_stop \in Int /\ next_buf_row < next_buf_stop BY <1>1
  <2>2. /\ Wanted(next_buf_stop) \in Nat \ {0}
        /\ next_buf_row + Wanted(next_buf_stop) <= next_buf_stop
        /\ rows_to_go - Wanted(next_buf_stop) \in 0 .. image_height
        /\ suspended = FALSE
    BY <2>1, WantedRows
  <2> QED BY <2>2
<1>4. group \in Nat /\ GV \in Nat BY GroupIsNat DEF Ready
<1>5. /\ rows_to_go \in 0 .. H /\ next_scanline \in Nat /\ in_row_ctr \in Nat
      /\ DOMAIN color_buf = 0 .. W - 1
  BY <1>1, <1>2 DEF Ready, RangesInv, TypeOK
<1> HIDE DEF V, H, GV
<1>6. rows_to_go > 0 /\ H - rows_to_go = GV + ahead BY <1>1, <1>2, <1>3, <1>5
<1>7. next_scanline + in_row_ctr = GV + ahead
  <2>1. H - rows_to_go = next_scanline + in_row_ctr + 0
    BY <1>3 DEF Ready, RowsAccountedFor, H
  <2> QED BY <1>5, <1>6, <2>1
<1>8. GV + (ahead + n) <= H BY <1>1, <1>2, <1>3, <1>4, <1>5, <1>6
<1>9. \A p \in 0 .. W - 1 : conv[p] = IF p \in P .. P + n - 1 THEN GV + ahead + p - P
                                       ELSE color_buf[p]
  BY <1>5, <1>7 DEF Converted, color_convert
<1>10. ASSUME NEW y \in Nat, y < H PROVE Clamp(y) = y
  BY <1>2, <1>10 DEF Clamp, Min2, H
<1>11. n \in 0 .. stop - P BY <1>1, <1>3
<1> HIDE DEF conv, base, stop, P
<1>12. ASSUME NEW x \in -1 .. (ahead + n) - 1
       PROVE  color_row(buf, base + x) = Clamp(GV + x)
  <2> DEFINE p == (base + x) % W
  <2>1. /\ x \in -1 .. 2 * V - 1
        /\ x >= ahead => p \in P .. P + n - 1 /\ p = P + x - ahead
        /\ x < ahead => ~(p \in P .. P + n - 1)
        /\ p \in 0 .. W - 1
    <3>1. Placed(V, base, stop, P, ahead) BY <1>1, <1>2 DEF Placed
    <3>2. x \in -1 .. ahead + n - 1 BY <1>1, <1>3, <1>12
    <3> QED BY <1>11, <3>1, <3>2, NewPlaces
  <2>2. color_row(buf, base + x) = buf[p] BY <1>1 DEF color_row
  <2>3. /\ (base + x) % W = IF base + x < 0 THEN base + x + W
                            ELSE IF base + x >= W THEN base + x - W ELSE base + x
    BY <1>1, <1>2, <2>1, PlaceIs
  <2>4. p \in Nat /\ x \in Int BY <2>1
  <2> HIDE DEF p
  <2>5. CASE rows_to_go = H
    <3>1. GV + ahead = 0 BY <1>2, <1>6, <2>5
    <3>2. GV = 0 /\ ahead = 0 BY <1>1, <1>4, <3>1
    <3>3. group = 0 BY <1>1, <1>2, <3>2
    <3>4. base = 0 /\ stop = 2 * V /\ P = 0 BY <1>1, <1>2, <3>2, <3>3
    <3>5. conv[0] = 0 BY <1>1, <1>2, <1>3, <1>4, <1>9, <3>2, <3>4
    <3>6. \A q \in 0 .. W - 1 : buf[q] = IF q \in 2 * V .. W - 1 THEN conv[0] ELSE conv[q]
      BY <1>1, <1>5, <2>5 DEF pad_top, conv, Converted, color_convert, V, H
    <3>7. CASE x = -1
      <4>1. p = W - 1 BY <1>2, <2>3, <3>4, <3>7 DEF p
      <4>2. p \in 2 * V .. W - 1 BY <1>2, <4>1
      <4>3. buf[p] = 0 BY <2>1, <3>5, <3>6, <4>2
      <4>4. Clamp(GV + x) = 0 BY <3>2, <3>7 DEF Clamp
      <4> QED BY <2>2, <4>3, <4>4
    <3>8. CASE x # -1
      <4>1. x >= ahead BY <2>4, <3>2, <3>8, <1>12
      <4>2. p = x /\ p \in P .. P + n - 1 BY <2>1, <2>4, <3>2, <3>4, <4>1
      <4>3. ~(p \in 2 * V .. W - 1) BY <1>2, <2>1, <4>2
      <4>4. buf[p] = conv[p] BY <2>1, <3>6, <4>3
      <4>5. conv[p] = x BY <1>9, <2>1, <2>4, <3>2, <3>4, <4>2
      <4>6. GV + x = x /\ x \in Nat /\ x < H BY <1>2, <1>3, <1>8, <2>4, <3>2, <3>8, <1>12
      <4>7. Clamp(GV + x) = x BY <1>10, <4>6
      <4> QED BY <2>2, <4>4, <4>5, <4>7
    <3> QED BY <3>7, <3>8
  <2>6. CASE rows_to_go # H
    <3>1. rows_to_go < H /\ buf = conv BY <1>2, <1>5, <2>6 DEF H, conv
    <3>2. CASE x < ahead
      <4>1. buf[p] = color_buf[p] BY <1>9, <2>1, <3>1, <3>2
      <4>2. x \in -1 .. ahead - 1 BY <1>1, <2>1, <2>4, <3>2
      <4>3. color_row(color_buf, base + x) = Clamp(GV + x)
        BY <1>1, <3>1, <4>2 DEF Window, V, GV, H
      <4>4. color_row(color_buf, base + x) = color_buf[p] BY <1>1 DEF color_row, p
      <4> QED BY <2>2, <4>1, <4>3, <4>4
    <3>3. CASE ~(x < ahead)
      <4>1. x >= ahead BY <1>1, <2>4, <3>3
      <4>2. p \in P .. P + n - 1 /\ p = P + x - ahead BY <2>1, <4>1
      <4>3. conv[p] = GV + ahead + p - P BY <1>9, <2>1, <4>2
      <4>4. buf[p] = GV + x BY <1>1, <1>4, <2>4, <3>1, <4>2, <4>3
      <4>5. GV + x \in Nat /\ GV + x < H
        BY <1>1, <1>2, <1>3, <1>4, <1>8, <2>4, <4>1, <1>12
      <4>6. Clamp(GV + x) = GV + x BY <1>10, <4>5
      <4> QED BY <2>2, <4>4, <4>6
    <3> QED BY <3>2, <3>3
  <2> QED BY <2>5, <2>6
<1>13. Window(buf, this_row_group, group, ahead + n)
  BY <1>12 DEF Window, V, GV, base
<1>14. H - (rows_to_go - n) = GV + (ahead + n) /\ rows_to_go - n \in Nat
  <2>1. ahead \in Nat /\ n \in Nat /\ H \in Nat /\ GV \in Nat /\ rows_to_go \in Nat
    BY <1>1, <1>2, <1>3, <1>4, <1>5
  <2>2. rows_to_go - n \in Nat BY <1>2, <1>3, <2>1
  <2> QED BY <1>6, <2>1, <2>2
<1> QED BY <1>11, <1>13, <1>14 DEF H, GV, V, stop, P

(* So do copies of the last one, once all are read.                        *)
LEMMA CopiedRows ==
    ASSUME Ready, DataInv, need_context_rows, rows_to_go = 0,
           NEW n, n = next_buf_stop - next_buf_row, NEW buf,
           buf = expand_bottom_edge(color_buf, next_buf_row, next_buf_stop)
    PROVE  /\ group * max_v_samp_factor + (ahead + n) >= image_height
           /\ Window(buf, this_row_group, group, ahead + n)
<1> DEFINE V == max_v_samp_factor
           H == image_height
           base == this_row_group
           stop == next_buf_stop
           P == next_buf_row
           W == 3 * V
           GV == group * V
<1>1. /\ buf_height = W
      /\ base \in {0, V, 2 * V}
      /\ P \in Nat /\ P < stop
      /\ stop = IF base = 2 * V THEN V ELSE base + 2 * V
      /\ stop \in Nat
      /\ ahead = 2 * V - (stop - P)
      /\ ahead \in Nat
      /\ ~(rows_to_go > 0) => GV + ahead >= H
      /\ rows_to_go < H => Window(color_buf, base, group, ahead)
  BY ContextFacts
<1>2. V \in Nat \ {0} /\ H \in Nat \ {0} /\ setup \in Setups BY Sizes DEF Ready
<1>3. group \in Nat /\ GV \in Nat BY GroupIsNat DEF Ready
<1>4. DOMAIN color_buf = 0 .. W - 1 BY <1>1, <1>2 DEF Ready, RangesInv, TypeOK
<1> HIDE DEF V, H, GV, base, stop, P
<1>5. GV + ahead >= H /\ rows_to_go < H BY <1>1, <1>2
<1>6. n \in Nat /\ n = stop - P BY <1>1 DEF stop, P
<1>7. GV + (ahead + n) >= H BY <1>1, <1>2, <1>3, <1>5, <1>6
<1>8. ASSUME NEW x \in -1 .. ahead - 1
      PROVE  color_buf[(base + x) % W] = Clamp(GV + x)
  BY <1>1, <1>5, <1>8 DEF Window, V, GV, color_row
<1>9. color_row(color_buf, P - 1) = H - 1
  <2>1. (P - 1) % W = (base + (ahead - 1)) % W
    <3>1. Placed(V, base, stop, P, ahead) BY <1>1, <1>2 DEF Placed
    <3> QED BY <3>1, LastPlace
  <2>2. ahead - 1 \in -1 .. ahead - 1 BY <1>1
  <2>3. color_row(color_buf, P - 1) = Clamp(GV + (ahead - 1))
    BY <1>1, <1>8, <2>1, <2>2 DEF color_row
  <2>4. GV + (ahead - 1) >= H - 1 /\ GV + (ahead - 1) \in Int BY <1>1, <1>2, <1>3, <1>5
  <2>5. Clamp(GV + (ahead - 1)) = H - 1 BY <1>2, <2>4 DEF Clamp, Min2, H
  <2> QED BY <2>3, <2>5
<1>10. \A p \in 0 .. W - 1 : buf[p] = IF p \in P .. P + n - 1 THEN H - 1 ELSE color_buf[p]
  <2>1. P .. P + n - 1 = P .. stop - 1 BY <1>1, <1>6
  <2> QED BY <1>4, <1>9, <2>1 DEF expand_bottom_edge, P, stop
<1>11. n \in 0 .. stop - P BY <1>1, <1>6
<1>12. ASSUME NEW x \in -1 .. (ahead + n) - 1
       PROVE  color_row(buf, base + x) = Clamp(GV + x)
  <2> DEFINE p == (base + x) % W
  <2>1. /\ x \in -1 .. 2 * V - 1
        /\ x >= ahead => p \in P .. P + n - 1
        /\ x < ahead => ~(p \in P .. P + n - 1)
        /\ p \in 0 .. W - 1
    <3>1. Placed(V, base, stop, P, ahead) BY <1>1, <1>2 DEF Placed
    <3>2. x \in -1 .. ahead + n - 1 BY <1>1, <1>6, <1>12
    <3> QED BY <1>11, <3>1, <3>2, NewPlaces
  <2>2. color_row(buf, base + x) = buf[p] BY <1>1 DEF color_row
  <2>3. x \in Int /\ -1 <= x BY <2>1
  <2>4. CASE x < ahead
    <3>1. x \in -1 .. ahead - 1 BY <1>1, <2>3, <2>4
    <3>2. color_buf[p] = Clamp(GV + x) BY <1>8, <3>1
    <3> HIDE DEF p
    <3> QED BY <1>10, <2>1, <2>2, <2>4, <3>2
  <2>5. CASE ~(x < ahead)
    <3>1. x >= ahead BY <1>1, <2>3, <2>5
    <3> HIDE DEF p
    <3>2. buf[p] = H - 1 BY <1>10, <2>1, <3>1
    <3>3. GV + x >= H - 1 /\ GV + x \in Nat BY <1>1, <1>2, <1>3, <1>5, <2>3, <3>1
    <3>4. Clamp(GV + x) = H - 1 BY <1>2, <3>3 DEF Clamp, Min2, H
    <3> QED BY <2>2, <3>2, <3>4
  <2> QED BY <2>4, <2>5
<1>13. Window(buf, this_row_group, group, ahead + n)
  BY <1>12 DEF Window, V, GV, base
<1> QED BY <1>7, <1>13 DEF H, GV, V

LEMMA ContextData == ASSUME Ready, DataInv, PreProcessContext PROVE DataInv'
<1>1. Processing /\ CanPreProcess /\ need_context_rows
  BY DEF PreProcessContext
<1>2. rowgroup_ctr < DCTSIZE /\ (~MoreRows => rows_to_go = 0)
  BY <1>1, Sizes DEF CanPreProcess, Ready
<1>3. setup' = setup /\ cur_iMCU_row' = cur_iMCU_row /\ last' = last
  BY DEF PreProcessContext, api
<1>4. /\ next_buf_row \in Nat /\ next_buf_stop \in Nat /\ next_buf_row < next_buf_stop
  BY <1>1, ContextFacts
<1>5. CASE MoreRows
  <2> DEFINE n == Wanted(next_buf_stop)
             buf == IF rows_to_go = image_height THEN pad_top(Converted(n))
                                                 ELSE Converted(n)
  <2>1. /\ color_buf' = buf /\ rows_to_go' = rows_to_go - n
        /\ AdvanceContext(buf, next_buf_row + n)
    BY <1>5 DEF PreProcessContext, TakeRows
  <2>2. /\ n \in 0 .. next_buf_stop - next_buf_row
        /\ rows_to_go - n \in Nat
        /\ image_height - (rows_to_go - n) = group * max_v_samp_factor + (ahead + n)
        /\ Window(buf, this_row_group, group, ahead + n)
    BY <1>1, <1>2, <1>5, TakenRows
  <2> HIDE DEF buf, n
  <2>3. IF rows_to_go' > 0
          THEN image_height - rows_to_go' = group * max_v_samp_factor + (ahead + n)
          ELSE group * max_v_samp_factor + (ahead + n) >= image_height
    <3>1. image_height \in Nat BY Sizes DEF Ready
    <3>2. rows_to_go' \in Nat BY <2>1, <2>2
    <3> DEFINE sum == group * max_v_samp_factor + (ahead + n)
    <3>3. image_height - rows_to_go' = sum BY <2>1, <2>2
    <3> HIDE DEF sum
    <3>4. rows_to_go' > 0 \/ sum >= image_height BY <3>1, <3>2, <3>3
    <3> QED BY <3>3, <3>4 DEF sum
  <2> QED BY <1>1, <1>2, <1>3, <2>1, <2>2, <2>3, ContextAdvance
<1>6. CASE ~MoreRows
  <2> DEFINE n == next_buf_stop - next_buf_row
             buf == expand_bottom_edge(color_buf, next_buf_row, next_buf_stop)
  <2>1. color_buf' = buf /\ rows_to_go' = rows_to_go /\ AdvanceContext(buf, next_buf_stop)
    BY <1>6 DEF PreProcessContext
  <2>2. /\ group * max_v_samp_factor + (ahead + n) >= image_height
        /\ Window(buf, this_row_group, group, ahead + n)
    BY <1>1, <1>2, <1>6, CopiedRows
  <2>3. n \in 0 .. next_buf_stop - next_buf_row /\ next_buf_row + n = next_buf_stop
    BY <1>4
  <2>4. rows_to_go' = 0 BY <1>2, <1>6, <2>1
  <2> HIDE DEF buf, n
  <2>5. AdvanceContext(buf, next_buf_row + n) BY <2>1, <2>3
  <2>6. IF rows_to_go' > 0
          THEN image_height - rows_to_go' = group * max_v_samp_factor + (ahead + n)
          ELSE group * max_v_samp_factor + (ahead + n) >= image_height
    BY <2>2, <2>4
  <2> QED BY <1>1, <1>2, <1>3, <2>1, <2>2, <2>3, <2>4, <2>5, <2>6, ContextAdvance
<1> QED BY <1>5, <1>6


LEMMA NextData == ASSUME Ready, DataInv, [Next]_vars PROVE DataInv'
<1>1. ASSUME NEW k \in 0 .. MaxLines, jpeg_write_scanlines(k) PROVE DataInv'
  <2>1. UNCHANGED rows_vars BY <1>1 DEF jpeg_write_scanlines, prep, main, rows_vars
  <2> QED BY <2>1, DataKept
<1>2. CASE SuspendRow \/ ReturnForMore
  <2>1. UNCHANGED rows_vars
    BY <1>2 DEF SuspendRow, ReturnForMore, Return, prep, rows_vars
  <2> QED BY <2>1, DataKept
<1>3. CASE UNCHANGED vars
  <2>1. UNCHANGED rows_vars BY <1>3 DEF vars, prep, main, api, rows_vars
  <2> QED BY <2>1, DataKept
<1> QED BY <1>1, <1>2, <1>3, SimpleData, ContextData, CompressData DEF Next

-----------------------------------------------------------------------------
(* Step by step: the rows go to a compressor as ScanlineWriter has it.     *)
out == IF cur_iMCU_row = 0 THEN -1 ELSE IMCURowOf(last)

LEMMA RowNumberKept ==
    ASSUME setup' = setup, NEW rows PROVE IMCURowOf(rows)' = IMCURowOf(rows)
<1>1. /\ max_v_samp_factor' = max_v_samp_factor /\ image_height' = image_height
      /\ need_context_rows' = need_context_rows
      /\ total_iMCU_rows' = total_iMCU_rows
  BY SameSizes
<1>2. ASSUME NEW c PROVE rgroup(c)' = rgroup(c) BY <1>1 DEF rgroup
<1>3. ASSUME NEW c PROVE sample_rows(c)' = sample_rows(c)
  BY <1>1, <1>2 DEF sample_rows, CeilDiv
<1>4. ASSUME NEW y PROVE Clamp(y)' = Clamp(y) BY <1>1 DEF Clamp, Min2
<1>5. ASSUME NEW c, NEW k PROVE ImageRow(c, k)' = ImageRow(c, k)
  BY <1>1, <1>2, <1>4 DEF ImageRow
<1>6. ASSUME NEW r PROVE IsIMCURow(rows, r)' <=> IsIMCURow(rows, r)
  BY <1>2, <1>3, <1>5 DEF IsIMCURow
<1> QED BY <1>1, <1>6 DEF IMCURowOf

LEMMA SameImage ==
    ASSUME setup' = setup
    PROVE  /\ UNCHANGED <<image_height, lines_per_iMCU_row>>
           /\ total_iMCU_rows = SW!iMCU_rows
           /\ UNCHANGED <<cur_iMCU_row, last>> => out' = out
<1>1. image_height' = image_height /\ lines_per_iMCU_row' = lines_per_iMCU_row
  BY SameSizes DEF lines_per_iMCU_row
<1>2. total_iMCU_rows = SW!iMCU_rows BY DEF total_iMCU_rows, CeilDiv, SW!iMCU_rows
<1>3. ASSUME UNCHANGED <<cur_iMCU_row, last>> PROVE out' = out
  <2>1. IMCURowOf(last)' = IMCURowOf(last) BY <1>3, RowNumberKept
  <2> QED BY <1>3, <2>1 DEF out
<1> QED BY <1>1, <1>2, <1>3

LEMMA InitWrites == ASSUME Init PROVE SW!Init
<1>1. image_height \in Nat BY SizesAreInt DEF Init
<1> QED BY <1>1 DEF Init, SW!Init

SWvars == <<SW!fixed, image_height - rows_to_go, next_scanline, cur_iMCU_row, out>>

LEMMA StutterWrites ==
    ASSUME UNCHANGED <<setup, rows_to_go, next_scanline, cur_iMCU_row, last>>
    PROVE  UNCHANGED SWvars
<1>1. UNCHANGED <<image_height, lines_per_iMCU_row>> /\ out' = out BY SameImage
<1> QED BY <1>1 DEF SWvars, SW!fixed

(* Both preprocessors take rows.                                           *)
LEMMA PreProcessTakes ==
    ASSUME Ready, DataInv, PreProcessRows \/ PreProcessContext
    PROVE  UNCHANGED <<api, cur_iMCU_row, last>> /\ rows_to_go' <= rows_to_go
<1>1. CASE PreProcessRows
  <2> DEFINE V == max_v_samp_factor
  <2>1. /\ UNCHANGED <<api, cur_iMCU_row, last>> /\ rows_to_go' = rows_to_go - Wanted(V)
        /\ Processing /\ CanPreProcess /\ need_context_rows = FALSE
    BY <1>1, Sizes DEF PreProcessRows, TakeRows, Ready
  <2>2. MoreRows /\ rowgroup_ctr < DCTSIZE BY <2>1 DEF CanPreProcess
  <2>3. V \in Int /\ next_buf_row < V
    BY <2>1, Sizes DEF Ready, RangesInv, StopsOK
  <2> HIDE DEF V
  <2>4. Wanted(V) \in Nat BY <2>1, <2>2, <2>3, WantedRows
  <2>5. rows_to_go \in Nat BY Sizes DEF Ready, RangesInv, TypeOK
  <2>6. rows_to_go' <= rows_to_go BY <2>1, <2>4, <2>5
  <2> QED BY <2>1, <2>6
<1>2. CASE PreProcessContext
  <2>1. /\ UNCHANGED <<api, cur_iMCU_row, last>>
        /\ Processing /\ CanPreProcess /\ need_context_rows
        /\ IF MoreRows THEN rows_to_go' = rows_to_go - Wanted(next_buf_stop)
                       ELSE rows_to_go' = rows_to_go
    BY <1>2 DEF PreProcessContext, TakeRows
  <2>2. rowgroup_ctr < DCTSIZE BY <2>1 DEF CanPreProcess
  <2>3. next_buf_stop \in Int /\ next_buf_row < next_buf_stop BY <2>1, ContextFacts
  <2>4. MoreRows => Wanted(next_buf_stop) \in Nat BY <2>1, <2>2, <2>3, WantedRows
  <2>5. rows_to_go \in Nat BY Sizes DEF Ready, RangesInv, TypeOK
  <2>6. rows_to_go' <= rows_to_go BY <2>1, <2>4, <2>5
  <2> QED BY <2>1, <2>6
<1> QED BY <1>1, <1>2

LEMMA TakingWrites ==
    ASSUME Ready, Ready', UNCHANGED <<api, cur_iMCU_row, last>>,
           rows_to_go' <= rows_to_go
    PROVE  SW!Supply
<1>1. UNCHANGED <<image_height, lines_per_iMCU_row>> /\ out' = out
  BY SameImage DEF api
<1>2. rows_to_go \in 0 .. image_height BY DEF Ready, RangesInv, TypeOK
<1>3. rows_to_go' \in 0 .. image_height BY <1>1 DEF Ready, RangesInv, TypeOK
<1>4. image_height \in Nat BY Sizes DEF Ready
<1>5. (image_height - rows_to_go)' \in image_height - rows_to_go .. image_height
  <2> DEFINE H == image_height
  <2>1. H' = H BY <1>1
  <2>2. rows_to_go \in 0 .. H /\ rows_to_go' \in 0 .. H /\ H \in Nat BY <1>2, <1>3, <1>4
  <2> HIDE DEF H
  <2> DEFINE a == rows_to_go  b == rows_to_go'
  <2>3. a \in Nat /\ b \in Nat /\ b <= a BY <2>2
  <2> HIDE DEF a, b
  <2>4. H - b \in H - a .. H BY <2>2, <2>3
  <2>5. (H - rows_to_go)' = H - rows_to_go' BY <2>1
  <2> QED BY <2>4, <2>5 DEF H, a, b
<1> QED BY <1>1, <1>5 DEF SW!Supply, SW!fixed, out, api

LEMMA CompressWrites == ASSUME Ready, DataInv, DataInv', CompressRow PROVE SW!Compress
<1> DEFINE V == max_v_samp_factor  L == lines_per_iMCU_row  H == image_height
           r == cur_iMCU_row + 1
<1>1. /\ setup' = setup /\ rows_to_go' = rows_to_go /\ next_scanline' = next_scanline
      /\ rowgroup_ctr = DCTSIZE /\ cur_iMCU_row' = r
      /\ cur_iMCU_row < total_iMCU_rows /\ last' = buffer
  BY DEF CompressRow, Processing, prep, api
<1>2. /\ cur_iMCU_row \in Nat /\ cur_iMCU_row * DCTSIZE \in Nat /\ group \in Nat
      /\ group * V \in Nat /\ group = cur_iMCU_row * DCTSIZE + rowgroup_ctr
  BY GroupIsNat DEF Ready
<1>3. /\ DCTSIZE \in Nat \ {0} /\ H \in Nat \ {0} /\ V \in Nat \ {0} /\ setup \in Setups
      /\ total_iMCU_rows \in Nat /\ need_context_rows \in BOOLEAN
  BY Sizes DEF Ready
<1>4. rows_to_go \in 0 .. H /\ next_buf_row \in Nat
  BY <1>3, Sizes DEF Ready, RangesInv, TypeOK
<1>5. UNCHANGED <<image_height, lines_per_iMCU_row>> /\ total_iMCU_rows = SW!iMCU_rows
  BY <1>1, SameImage
<1>6. group * V = r * L
  <2>1. r * DCTSIZE = group /\ r \in Nat BY <1>1, <1>2, <1>3
  <2> QED BY <1>3, <2>1, IMCURowInside
<1>7. H - rows_to_go >= r * L \/ H - rows_to_go = H
  <2>1. CASE rows_to_go = 0 BY <1>3, <2>1
  <2>2. CASE rows_to_go > 0 /\ need_context_rows
    <3>1. H - rows_to_go = group * V + ahead /\ ahead \in Nat BY <2>2, ContextFacts
    <3> HIDE DEF V, L, r
    <3> QED BY <1>2, <1>6, <3>1
  <2>3. CASE rows_to_go > 0 /\ ~need_context_rows
    <3>1. H - rows_to_go = group * V + next_buf_row
      BY <2>3 DEF DataInv, SimpleOK, rows_read
    <3> HIDE DEF V, L, r
    <3> QED BY <1>2, <1>4, <1>6, <3>1
  <2> QED BY <1>3, <1>4, <2>1, <2>2, <2>3
<1>8. out' = cur_iMCU_row
  <2>1. \A g \in 0 .. DCTSIZE - 1 : GroupIs(buffer[g], cur_iMCU_row * DCTSIZE + g)
    BY <1>1 DEF DataInv, Collected
  <2>2. IsIMCURow(buffer, cur_iMCU_row) BY <2>1, RowIs
  <2>3. cur_iMCU_row \in 0 .. total_iMCU_rows - 1 BY <1>1, <1>2, <1>3
  <2>4. IMCURowOf(last') = cur_iMCU_row BY <1>1, <1>3, <2>2, <2>3, RowsDiffer
  <2>5. IMCURowOf(last)' = IMCURowOf(last') BY <1>1, RowNumberKept
  <2>6. cur_iMCU_row' # 0 BY <1>1, <1>2
  <2> QED BY <2>4, <2>5, <2>6 DEF out
<1> QED BY <1>1, <1>5, <1>7, <1>8 DEF SW!Compress, SW!fixed, out

(* When it is told that all lines are taken, all iMCU rows are compressed. *)
LEMMA ReturnWrites ==
    ASSUME Ready, Ready', DataInv, SuspendRow \/ ReturnForMore PROVE SW!Return
<1>1. /\ setup' = setup /\ rows_to_go' = rows_to_go /\ cur_iMCU_row' = cur_iMCU_row
      /\ last' = last
  BY DEF SuspendRow, ReturnForMore, Return, prep
<1>2. /\ UNCHANGED <<image_height, lines_per_iMCU_row>> /\ out' = out
      /\ total_iMCU_rows = SW!iMCU_rows
  BY <1>1, SameImage
<1>3. /\ image_height \in Nat \ {0} /\ DCTSIZE \in Nat \ {0} /\ total_iMCU_rows \in Nat
      /\ need_context_rows \in BOOLEAN
  BY Sizes DEF Ready
<1>4. /\ rows_to_go \in 0 .. image_height /\ next_scanline \in Nat /\ in_row_ctr \in Nat
      /\ suspended \in BOOLEAN /\ rowgroup_ctr \in 0 .. DCTSIZE
      /\ cur_iMCU_row \in 0 .. total_iMCU_rows
  BY DEF Ready, RangesInv, TypeOK, FlagsOK
<1>5. image_height - rows_to_go = next_scanline + in_row_ctr + (IF suspended THEN 1 ELSE 0)
  BY DEF Ready, RowsAccountedFor
<1>6. CASE SuspendRow
  <2>1. next_scanline' = next_scanline + RowsTakenWhenSuspended
    BY <1>6 DEF SuspendRow, Return
  <2>2. ~suspended => in_row_ctr >= 1
    BY <1>6 DEF SuspendRow, Ready, RangesInv, CompletedOK
  <2>3. /\ next_scanline' \in next_scanline .. image_height - rows_to_go
        /\ next_scanline' # image_height
    BY <1>3, <1>4, <1>5, <2>1, <2>2 DEF RowsTakenWhenSuspended
  <2> QED BY <1>1, <1>2, <2>3 DEF SW!Return, SW!fixed, out
<1>7. CASE ReturnForMore
  <2>1. /\ next_scanline' = next_scanline + in_row_ctr
        /\ \/ cur_iMCU_row = total_iMCU_rows
           \/ rowgroup_ctr < DCTSIZE /\ ~CanPreProcess
    BY <1>7 DEF ReturnForMore, Return
  <2>2. next_scanline' \in next_scanline .. image_height - rows_to_go
    BY <1>3, <1>4, <1>5, <2>1
  <2>3. ASSUME next_scanline' = image_height PROVE cur_iMCU_row = total_iMCU_rows
    <3>1. rows_to_go = 0 BY <1>3, <1>4, <1>5, <2>1, <2>3
    <3>2. SUFFICES ASSUME cur_iMCU_row < total_iMCU_rows PROVE FALSE
      BY <1>3, <1>4
    <3>3. rowgroup_ctr < DCTSIZE /\ ~CanPreProcess BY <1>3, <1>4, <2>1, <3>2
    <3>4. ~need_context_rows BY <3>1, <3>3 DEF CanPreProcess
    <3>5. rowgroup_ctr = DCTSIZE BY <3>1, <3>2, <3>4 DEF DataInv, SimpleOK
    <3> QED BY <1>3, <3>3, <3>5
  <2> QED BY <1>1, <1>2, <2>2, <2>3 DEF SW!Return, SW!fixed, out
<1> QED BY <1>6, <1>7

LEMMA NextWrites ==
    ASSUME Ready, Ready', DataInv, DataInv', [Next]_vars
    PROVE  SW!Next \/ UNCHANGED SWvars
<1>1. ASSUME NEW k \in 0 .. MaxLines, jpeg_write_scanlines(k) PROVE UNCHANGED SWvars
  <2>1. UNCHANGED <<setup, rows_to_go, next_scanline, cur_iMCU_row, last>>
    BY <1>1 DEF jpeg_write_scanlines, prep, main
  <2> QED BY <2>1, StutterWrites
<1>2. CASE UNCHANGED vars
  <2>1. UNCHANGED <<setup, rows_to_go, next_scanline, cur_iMCU_row, last>>
    BY <1>2 DEF vars, prep, main, api
  <2> QED BY <2>1, StutterWrites
<1>3. CASE PreProcessRows \/ PreProcessContext
  BY <1>3, PreProcessTakes, TakingWrites DEF SW!Next
<1> QED BY <1>1, <1>2, <1>3, CompressWrites, ReturnWrites DEF Next, SW!Next

(* However the calls divide the image and wherever the destination         *)
(* suspends, the compressor is given every iMCU row once, in order, made   *)
(* of the right input rows -- with smoothing also of their neighbours, at  *)
(* the edges of the image of the nearest row inside -- and has had all of  *)
(* them when the application is told that its last line was taken          *)
(* (jcapistd.c, jcmainct.c, jcprepct.c).                                   *)
THEOREM WriterImplemented == Spec => ImplementsWriter
<1> DEFINE Inv == AccountsInv /\ RangesInv /\ DataInv
<1>1. Init => Inv BY InitAccounts, InitRanges, InitData
<1>2. Inv /\ [Next]_vars => Inv'
  <2> SUFFICES ASSUME Inv, [Next]_vars PROVE Inv' OBVIOUS
  <2>1. Ready BY DEF Ready, AccountsInv
  <2>2. AccountsInv' BY NextAccounts
  <2>3. RangesInv' BY <2>1, NextRanges
  <2>4. DataInv' BY <2>1, NextData
  <2> QED BY <2>2, <2>3, <2>4
<1>3. Init => SW!Init BY InitWrites
<1>4. Inv /\ Inv' /\ [Next]_vars =>
          [SW!Next]_<<SW!fixed, image_height - rows_to_go, next_scanline, cur_iMCU_row, out>>
  <2> SUFFICES ASSUME Inv, Inv', [Next]_vars PROVE SW!Next \/ UNCHANGED SWvars
    BY DEF SWvars
  <2>1. Ready /\ Ready' BY DEF Ready, AccountsInv
  <2> QED BY <2>1, NextWrites
<1> HIDE DEF Inv
<1> QED BY <1>1, <1>2, <1>3, <1>4, PTL DEF Spec, ImplementsWriter, SW!Spec, out

-----------------------------------------------------------------------------
(* After the last iMCU row no rows are left, so a call that comes then has *)
(* taken all that there were.                                              *)
NothingLeft == cur_iMCU_row = total_iMCU_rows => rows_to_go = 0

LEMMA NextLeavesNothing ==
    ASSUME Ready, Ready', DataInv, DataInv', NothingLeft, [Next]_vars
    PROVE  NothingLeft'
<1>1. /\ image_height \in Nat \ {0} /\ total_iMCU_rows \in Nat /\ setup \in Setups
      /\ rows_to_go \in 0 .. image_height /\ cur_iMCU_row \in Nat
  BY Sizes, GroupIsNat DEF Ready, RangesInv, TypeOK
<1>2. CASE CompressRow
  <2> DEFINE L == lines_per_iMCU_row  r == cur_iMCU_row + 1
  <2>1. image_height - rows_to_go >= r * L \/ image_height - rows_to_go = image_height
    BY <1>2, CompressWrites DEF SW!Compress
  <2>2. setup' = setup /\ rows_to_go' = rows_to_go /\ cur_iMCU_row' = r
    BY <1>2 DEF CompressRow, prep, api
  <2>3. ASSUME r = total_iMCU_rows PROVE rows_to_go = 0
    <3>1. r \in Nat /\ ~(r < total_iMCU_rows) BY <1>1, <2>3
    <3>2. ~(r * L < image_height) /\ L \in Nat BY <1>1, <3>1, IMCURowInside
    <3> HIDE DEF L, r
    <3>3. r * L \in Nat BY <3>1, <3>2
    <3> QED BY <1>1, <2>1, <3>2, <3>3
  <2>4. total_iMCU_rows' = total_iMCU_rows BY <2>2, SameSizes
  <2> QED BY <2>2, <2>3, <2>4 DEF NothingLeft
<1>3. ASSUME setup' = setup, cur_iMCU_row' = cur_iMCU_row, rows_to_go' <= rows_to_go
      PROVE  NothingLeft'
  <2>1. total_iMCU_rows' = total_iMCU_rows /\ image_height' = image_height
    BY <1>3, SameSizes
  <2>2. rows_to_go' \in 0 .. image_height BY <2>1 DEF Ready, RangesInv, TypeOK
  <2> DEFINE a == rows_to_go  b == rows_to_go'
  <2>3. a \in Nat /\ b \in Nat /\ b <= a BY <1>1, <1>3, <2>2
  <2> HIDE DEF a, b
  <2>4. a = 0 => b = 0 BY <2>3
  <2> QED BY <1>3, <2>1, <2>4 DEF NothingLeft, a, b
<1>4. CASE PreProcessRows \/ PreProcessContext
  BY <1>3, <1>4, PreProcessTakes DEF api
<1>5. ASSUME UNCHANGED <<setup, cur_iMCU_row, rows_to_go>> PROVE NothingLeft'
  <2>1. rows_to_go' <= rows_to_go BY <1>1, <1>5
  <2> QED BY <1>3, <1>5, <2>1
<1>6. CASE SuspendRow \/ ReturnForMore
  BY <1>5, <1>6 DEF SuspendRow, ReturnForMore, Return, prep
<1>7. ASSUME NEW k \in 0 .. MaxLines, jpeg_write_scanlines(k) PROVE NothingLeft'
  BY <1>5, <1>7 DEF jpeg_write_scanlines, prep, main
<1>8. CASE UNCHANGED vars BY <1>5, <1>8 DEF vars, prep, main, api
<1> QED BY <1>2, <1>4, <1>6, <1>7, <1>8 DEF Next

LEMMA ReturnTakesAll ==
    ASSUME Ready, NothingLeft, ReturnForMore
    PROVE  next_scanline' >= next_scanline + in_rows_avail
<1>1. /\ next_scanline' = next_scanline + in_row_ctr /\ in_call
      /\ \/ cur_iMCU_row = total_iMCU_rows
         \/ rowgroup_ctr < DCTSIZE /\ ~CanPreProcess
  BY DEF ReturnForMore, Return
<1>2. /\ image_height \in Nat /\ DCTSIZE \in Nat /\ total_iMCU_rows \in Nat
      /\ MaxLines \in Nat
  BY Sizes DEF Ready
<1>3. /\ next_scanline \in Nat /\ in_row_ctr \in Nat /\ in_rows_avail \in Nat
      /\ suspended \in BOOLEAN /\ rowgroup_ctr \in 0 .. DCTSIZE
      /\ cur_iMCU_row \in 0 .. total_iMCU_rows
  BY <1>2 DEF Ready, RangesInv, TypeOK, FlagsOK
<1>4. CASE cur_iMCU_row = total_iMCU_rows
  <2>1. rows_to_go = 0 BY <1>4 DEF NothingLeft
  <2>2. suspended = FALSE BY <1>2, <1>3, <1>4 DEF Ready, RangesInv, CompletedOK
  <2>3. image_height - 0 = next_scanline + in_row_ctr + 0
    BY <2>1, <2>2 DEF Ready, RowsAccountedFor
  <2>4. in_rows_avail <= image_height - next_scanline
    BY <1>1 DEF Ready, RangesInv, InCallOK
  <2> QED BY <1>1, <1>2, <1>3, <2>3, <2>4
<1>5. CASE cur_iMCU_row # total_iMCU_rows
  <2>1. ~(in_row_ctr < in_rows_avail) BY <1>1, <1>5 DEF CanPreProcess, MoreRows
  <2> QED BY <1>1, <1>3, <2>1
<1> QED BY <1>4, <1>5

(* A call returns fewer lines than it was given only because the data      *)
(* destination suspended, or because the image has no more (jcapistd.c).   *)
THEOREM CallsTakeAll == Spec => TakesAllUnlessSuspended
<1> DEFINE Inv == AccountsInv /\ RangesInv /\ DataInv /\ NothingLeft
<1>1. Init => Inv
  <2> SUFFICES ASSUME Init PROVE Inv OBVIOUS
  <2>1. /\ setup \in Setups /\ rows_to_go = image_height /\ cur_iMCU_row = 0 BY DEF Init
  <2>2. image_height \in Nat \ {0} /\ total_iMCU_rows \in Nat BY <2>1, SizesAreInt, TotalIsNat
  <2>3. 0 < total_iMCU_rows
    <3>1. (0 * DCTSIZE) * max_v_samp_factor = 0 BY <2>1, SizesAreInt, RowsAssumption
    <3> QED BY <2>1, <2>2, <3>1, IMCURowInside
  <2>4. NothingLeft BY <2>1, <2>2, <2>3 DEF NothingLeft
  <2> QED BY <2>4, InitAccounts, InitRanges, InitData
<1>2. Inv /\ [Next]_vars => Inv'
  <2> SUFFICES ASSUME Inv, [Next]_vars PROVE Inv' OBVIOUS
  <2>1. Ready BY DEF Ready, AccountsInv
  <2>2. AccountsInv' BY NextAccounts
  <2>3. RangesInv' BY <2>1, NextRanges
  <2>4. DataInv' BY <2>1, NextData
  <2>5. Ready' BY <2>2, <2>3 DEF Ready, AccountsInv
  <2>6. NothingLeft' BY <2>1, <2>4, <2>5, NextLeavesNothing
  <2> QED BY <2>2, <2>3, <2>4, <2>6
<1>3. Inv /\ [Next]_vars =>
          [ReturnForMore => next_scanline' >= next_scanline + in_rows_avail]_vars
  <2> SUFFICES ASSUME Inv, ReturnForMore
               PROVE  next_scanline' >= next_scanline + in_rows_avail
    OBVIOUS
  <2>1. Ready BY DEF Ready, AccountsInv
  <2> QED BY <2>1, ReturnTakesAll
<1> HIDE DEF Inv
<1> QED BY <1>1, <1>2, <1>3, PTL DEF Spec, TakesAllUnlessSuspended
=============================================================================
