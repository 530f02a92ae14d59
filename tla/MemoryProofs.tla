---------------------------- MODULE MemoryProofs ----------------------------
(***************************************************************************)
(* Proofs about the memory manager.  Objects of its pools (MemPools) are   *)
(* in their places, and it knows what it holds, for every size of objects  *)
(* and arrays, whatever malloc() returns.  Of a virtual array (VirtArray)  *)
(* the window invariants hold, and it implements PlainArray, for every     *)
(* height of the array, every strip height and every window that the       *)
(* manager may choose.                                                     *)
(***************************************************************************)
EXTENDS VirtArray, MemPools, SequenceTheorems, TLAPS

ObjectType == [start : Int, size : Nat]
BlockType == [base : Misalignments, size : Int, bytes_used : Nat, bytes_left : Nat,
              objects : Seq(ObjectType)]

(* Space that is used ends where the next object is to begin, and what is  *)
(* left with it makes up the block.                                        *)
ObjectOK(block, o) ==
    /\ o.start % ALIGN_SIZE = 0
    /\ DataStart(block) <= o.start
    /\ o.start + o.size <= DataStart(block) + block.bytes_used

Apart(o, p) == o.start + o.size <= p.start \/ p.start + p.size <= o.start

BlockOK(block) ==
    /\ block \in BlockType
    /\ block.bytes_used % ALIGN_SIZE = 0
    /\ FreedSpace(block) = block.size
    /\ \A i \in DOMAIN block.objects :
           /\ ObjectOK(block, block.objects[i])
           /\ \A j \in DOMAIN block.objects \ {i} : Apart(block.objects[i], block.objects[j])

ListsOK(list) ==
    /\ list \in [Pools -> Seq(BlockType)]
    /\ \A pool \in Pools : \A i \in DOMAIN list[pool] : BlockOK(list[pool][i])

(* Rows that are yet to be allocated are of a length that is aligned.      *)
RowsCall ==
    [at : {"rows"}, pool : Pools, length : Nat, numrows : Nat, rowsperchunk : Nat,
     chunks : Seq(Nat), number : Nat, max_minheights : Nat]

DoingOK ==
    /\ doing.at = "rows" => doing \in RowsCall /\ doing.length % ALIGN_SIZE = 0
    /\ doing.at = "measure" =>
           doing \in [at : {"measure"}, next : Nat, space_per_minheight : Nat,
                      maximum_space : Nat]
    /\ doing.at = "realize" => doing \in [at : {"realize"}, max_minheights : Nat]
    /\ doing.at = "freeing" => doing \in [at : {"freeing"}, pools : Seq(Pools)]

VirtualType ==
    [array : VirtualArrays, mem_buffer : Seq(Nat), rows_in_mem : Nat, rowsperchunk : Nat,
     b_s_open : BOOLEAN]

Numbers ==
    /\ virt_list \in Seq(VirtualType)
    /\ total_space_allocated \in Int /\ max_memory_to_use \in Nat
    /\ last_rowsperchunk \in Nat

PlacesInv == ListsOK(small_list) /\ ListsOK(large_list) /\ DoingOK /\ Numbers

-----------------------------------------------------------------------------
(* Rounding up, for each alignment that there is. *)
LEMMA RoundedUp ==
    ASSUME NEW n \in Nat
    PROVE  /\ round_up_pow2(n, ALIGN_SIZE) \in Nat
           /\ round_up_pow2(n, ALIGN_SIZE) % ALIGN_SIZE = 0
           /\ n <= round_up_pow2(n, ALIGN_SIZE)
<1>1. ALIGN_SIZE \in {2, 4, 8, 16, 32} BY PoolsAssumption
<1>2. CASE ALIGN_SIZE = 2 BY <1>2 DEF round_up_pow2
<1>3. CASE ALIGN_SIZE = 4 BY <1>3 DEF round_up_pow2
<1>4. CASE ALIGN_SIZE = 8 BY <1>4 DEF round_up_pow2
<1>5. CASE ALIGN_SIZE = 16 BY <1>5 DEF round_up_pow2
<1>6. CASE ALIGN_SIZE = 32 BY <1>6 DEF round_up_pow2
<1> QED BY <1>1, <1>2, <1>3, <1>4, <1>5, <1>6

LEMMA RoundedUpTwice ==
    ASSUME NEW n \in Nat
    PROVE  /\ round_up_pow2(n, 2 * ALIGN_SIZE) \in Nat
           /\ round_up_pow2(n, 2 * ALIGN_SIZE) % ALIGN_SIZE = 0
           /\ n <= round_up_pow2(n, 2 * ALIGN_SIZE)
<1>1. ALIGN_SIZE \in {2, 4, 8, 16, 32} BY PoolsAssumption
<1>2. CASE ALIGN_SIZE = 2 BY <1>2 DEF round_up_pow2
<1>3. CASE ALIGN_SIZE = 4 BY <1>3 DEF round_up_pow2
<1>4. CASE ALIGN_SIZE = 8 BY <1>4 DEF round_up_pow2
<1>5. CASE ALIGN_SIZE = 16 BY <1>5 DEF round_up_pow2
<1>6. CASE ALIGN_SIZE = 32 BY <1>6 DEF round_up_pow2
<1> QED BY <1>1, <1>2, <1>3, <1>4, <1>5, <1>6

(* Sums of multiples are multiples. *)
LEMMA AlignedSum ==
    ASSUME NEW a \in Nat, NEW b \in Nat, a % ALIGN_SIZE = 0, b % ALIGN_SIZE = 0
    PROVE  (a + b) % ALIGN_SIZE = 0
<1>1. ALIGN_SIZE \in {2, 4, 8, 16, 32} BY PoolsAssumption
<1>2. CASE ALIGN_SIZE = 2 BY <1>2
<1>3. CASE ALIGN_SIZE = 4 BY <1>3
<1>4. CASE ALIGN_SIZE = 8 BY <1>4
<1>5. CASE ALIGN_SIZE = 16 BY <1>5
<1>6. CASE ALIGN_SIZE = 32 BY <1>6
<1> QED BY <1>1, <1>2, <1>3, <1>4, <1>5, <1>6

(* A multiple as a product. *)
LEMMA Divided ==
    ASSUME NEW a \in Nat, a % ALIGN_SIZE = 0
    PROVE  \E q \in Nat : a = ALIGN_SIZE * q
<1>1. ALIGN_SIZE \in {2, 4, 8, 16, 32} BY PoolsAssumption
<1>2. a \div ALIGN_SIZE \in Nat /\ a = ALIGN_SIZE * (a \div ALIGN_SIZE)
  <2>2. CASE ALIGN_SIZE = 2 BY <2>2
  <2>3. CASE ALIGN_SIZE = 4 BY <2>3
  <2>4. CASE ALIGN_SIZE = 8 BY <2>4
  <2>5. CASE ALIGN_SIZE = 16 BY <2>5
  <2>6. CASE ALIGN_SIZE = 32 BY <2>6
  <2> QED BY <1>1, <2>2, <2>3, <2>4, <2>5, <2>6
<1> QED BY <1>2

LEMMA ProductAligned ==
    ASSUME NEW q \in Nat
    PROVE  (ALIGN_SIZE * q) % ALIGN_SIZE = 0
<1>1. ALIGN_SIZE \in {2, 4, 8, 16, 32} BY PoolsAssumption
<1>2. CASE ALIGN_SIZE = 2 BY <1>2
<1>3. CASE ALIGN_SIZE = 4 BY <1>3
<1>4. CASE ALIGN_SIZE = 8 BY <1>4
<1>5. CASE ALIGN_SIZE = 16 BY <1>5
<1>6. CASE ALIGN_SIZE = 32 BY <1>6
<1> QED BY <1>1, <1>2, <1>3, <1>4, <1>5, <1>6

LEMMA AlignedRows ==
    ASSUME NEW length \in Nat, NEW k \in Nat, length % ALIGN_SIZE = 0
    PROVE  k * length \in Nat /\ (k * length) % ALIGN_SIZE = 0
<1>1. PICK q \in Nat : length = ALIGN_SIZE * q BY Divided
<1>2. ALIGN_SIZE \in Nat BY PoolsAssumption
<1>3. k * length = ALIGN_SIZE * (k * q) BY <1>1, <1>2
<1>4. k * q \in Nat /\ k * length \in Nat OBVIOUS
<1> QED BY <1>3, <1>4, ProductAligned

(* Row j ends where row j + 1 begins, or before a later one. *)
LEMMA RowsApart ==
    ASSUME NEW length \in Nat, NEW j \in Nat, NEW k \in Nat, j < k
    PROVE  j * length + length <= k * length
<1>1. PICK d \in Nat : k = j + 1 + d
  <2>1. k - j - 1 \in Nat /\ k = j + 1 + (k - j - 1) OBVIOUS
  <2> QED BY <2>1
<1>2. k * length = j * length + length + d * length BY <1>1
<1>3. d * length \in Nat OBVIOUS
<1>4. j * length \in Nat OBVIOUS
<1> QED BY <1>2, <1>3, <1>4

(* The first aligned byte behind the header. *)
LEMMA DataStarts ==
    ASSUME NEW block, block.base \in Misalignments
    PROVE  /\ DataStart(block) \in Nat
           /\ DataStart(block) % ALIGN_SIZE = 0
           /\ block.base + HeaderSize <= DataStart(block)
           /\ DataStart(block) <= block.base + Overhead
<1>1. ALIGN_SIZE \in {2, 4, 8, 16, 32} /\ HeaderSize \in Nat BY PoolsAssumption
<1>2. block.base \in Nat
  <2>1. Misalignments \subseteq 0 .. ALIGN_SIZE - 1 BY PoolsAssumption
  <2>2. ALIGN_SIZE \in Nat BY <1>1
  <2>3. block.base \in 0 .. ALIGN_SIZE - 1 BY <2>1
  <2> QED BY <2>2, <2>3
<1>3. PICK p \in Nat : p = block.base + HeaderSize BY <1>1, <1>2
<1>4. DataStart(block) = IF p % ALIGN_SIZE # 0 THEN p + ALIGN_SIZE - (p % ALIGN_SIZE) ELSE p
  BY <1>3 DEF DataStart
<1>5. /\ DataStart(block) \in Nat /\ DataStart(block) % ALIGN_SIZE = 0
      /\ p <= DataStart(block) /\ DataStart(block) <= p + ALIGN_SIZE - 1
  <2>2. CASE ALIGN_SIZE = 2 BY <1>4, <2>2
  <2>3. CASE ALIGN_SIZE = 4 BY <1>4, <2>3
  <2>4. CASE ALIGN_SIZE = 8 BY <1>4, <2>4
  <2>5. CASE ALIGN_SIZE = 16 BY <1>4, <2>5
  <2>6. CASE ALIGN_SIZE = 32 BY <1>4, <2>6
  <2> QED BY <1>1, <2>2, <2>3, <2>4, <2>5, <2>6
<1>6. ALIGN_SIZE \in Nat BY <1>1
<1> QED BY <1>1, <1>2, <1>3, <1>5, <1>6 DEF Overhead

-----------------------------------------------------------------------------
(* Blocks *)

LEMMA Parameters ==
    /\ ALIGN_SIZE \in Nat /\ HeaderSize \in Nat /\ Overhead \in Nat
    /\ PointerSize \in Nat /\ BlockSize \in Nat \ {0} /\ BlockSize % ALIGN_SIZE = 0
    /\ ArrayControl \in Nat /\ ControlSize \in Nat /\ MAX_ALLOC_CHUNK \in Nat
<1>1. ALIGN_SIZE \in Nat /\ ALIGN_SIZE >= 2
  <2>1. ALIGN_SIZE \in {2, 4, 8, 16, 32} BY PoolsAssumption
  <2> QED BY <2>1
<1> QED BY <1>1, PoolsAssumption DEF Overhead

LEMMA NewBlockOK ==
    ASSUME NEW base \in Misalignments, NEW left \in Nat
    PROVE  BlockOK(Block(base, Overhead + left, left))
<1> DEFINE b == Block(base, Overhead + left, left)
<1>1. b \in BlockType BY Parameters DEF Block, BlockType
<1>2. b.bytes_used % ALIGN_SIZE = 0
  <2>1. b.bytes_used = 0 BY DEF Block
  <2>2. (ALIGN_SIZE * 0) % ALIGN_SIZE = 0 BY ProductAligned
  <2>3. ALIGN_SIZE * 0 = 0 BY Parameters
  <2> QED BY <2>1, <2>2, <2>3
<1>3. FreedSpace(b) = b.size BY Parameters DEF Block, FreedSpace
<1>4. DOMAIN b.objects = {} BY DEF Block
<1> QED BY <1>1, <1>2, <1>3, <1>4 DEF BlockOK

LEMMA WithObjectOK ==
    ASSUME NEW b, BlockOK(b), NEW n \in Nat, n % ALIGN_SIZE = 0, n <= b.bytes_left
    PROVE  BlockOK(WithObject(b, n))
<1> DEFINE c == WithObject(b, n)
           o == [start |-> DataStart(b) + b.bytes_used, size |-> n]
<1>1. /\ b \in BlockType /\ b.bytes_used \in Nat /\ b.bytes_left \in Nat /\ b.size \in Int
      /\ b.base \in Misalignments /\ b.objects \in Seq(ObjectType)
      /\ b.bytes_used % ALIGN_SIZE = 0
  BY DEF BlockOK, BlockType
<1>2. DataStart(b) \in Nat /\ DataStart(b) % ALIGN_SIZE = 0 BY <1>1, DataStarts
<1>3. /\ c.base = b.base /\ c.size = b.size /\ c.bytes_used = b.bytes_used + n
      /\ c.bytes_left = b.bytes_left - n /\ c.objects = Append(b.objects, o)
      /\ c \in [base : {b.base}, size : {b.size}, bytes_used : {b.bytes_used + n},
                bytes_left : {b.bytes_left - n}, objects : {Append(b.objects, o)}]
  BY <1>1 DEF WithObject, BlockType
<1>4. o \in ObjectType BY <1>1, <1>2 DEF ObjectType
<1>5. c \in BlockType
  <2>1. Append(b.objects, o) \in Seq(ObjectType) BY <1>1, <1>4
  <2>2. b.bytes_used + n \in Nat /\ b.bytes_left - n \in Nat BY <1>1
  <2> QED BY <1>1, <1>3, <2>1, <2>2 DEF BlockType
<1>6. c.bytes_used % ALIGN_SIZE = 0
  <2>1. (b.bytes_used + n) % ALIGN_SIZE = 0 BY <1>1, AlignedSum
  <2> QED BY <1>3, <2>1
<1>7. FreedSpace(c) = c.size
  <2>1. b.bytes_used + b.bytes_left + Overhead = b.size BY DEF BlockOK, FreedSpace
  <2>2. b.bytes_used + n + (b.bytes_left - n) + Overhead = b.size BY <1>1, <2>1, Parameters
  <2> QED BY <1>3, <2>2 DEF FreedSpace
<1>8. DataStart(c) = DataStart(b) BY <1>3 DEF DataStart
<1>9. ASSUME NEW i \in DOMAIN b.objects
      PROVE  /\ b.objects[i] \in ObjectType /\ ObjectOK(b, b.objects[i])
             /\ ObjectOK(c, b.objects[i]) /\ Apart(b.objects[i], o) /\ Apart(o, b.objects[i])
  <2>1. b.objects[i] \in ObjectType /\ ObjectOK(b, b.objects[i]) BY <1>1 DEF BlockOK
  <2>2. /\ b.objects[i].start \in Int /\ b.objects[i].size \in Nat
        /\ b.objects[i].start + b.objects[i].size <= DataStart(b) + b.bytes_used
        /\ b.objects[i].start % ALIGN_SIZE = 0 /\ DataStart(b) <= b.objects[i].start
    BY <2>1 DEF ObjectType, ObjectOK
  <2>3. /\ o.start = DataStart(b) + b.bytes_used
        /\ DataStart(b) + b.bytes_used <= DataStart(b) + c.bytes_used
        /\ DataStart(b) + c.bytes_used \in Int
    BY <1>1, <1>2, <1>3
  <2>4. Apart(b.objects[i], o) /\ Apart(o, b.objects[i]) BY <2>2, <2>3 DEF Apart
  <2>5. b.objects[i].start + b.objects[i].size <= DataStart(b) + c.bytes_used
    <3>1. DataStart(b) + b.bytes_used \in Int BY <1>1, <1>2
    <3> QED BY <2>2, <2>3, <3>1
  <2> QED BY <1>8, <2>1, <2>2, <2>4, <2>5 DEF ObjectOK
<1>10. ObjectOK(c, o)
  <2>1. (DataStart(b) + b.bytes_used) % ALIGN_SIZE = 0 BY <1>1, <1>2, AlignedSum
  <2>2. DataStart(b) <= o.start /\ o.start + o.size <= DataStart(b) + c.bytes_used
    BY <1>1, <1>2, <1>3
  <2> QED BY <1>8, <2>1, <2>2 DEF ObjectOK
<1>11. /\ DOMAIN c.objects = DOMAIN b.objects \cup {Len(b.objects) + 1}
       /\ Len(b.objects) + 1 \notin DOMAIN b.objects
       /\ c.objects[Len(b.objects) + 1] = o
       /\ \A i \in DOMAIN b.objects : c.objects[i] = b.objects[i]
  BY <1>1, <1>3, <1>4
<1>12. ASSUME NEW i \in DOMAIN b.objects, NEW j \in DOMAIN b.objects \ {i}
       PROVE  Apart(b.objects[i], b.objects[j])
  BY DEF BlockOK
<1>13. ASSUME NEW i \in DOMAIN c.objects
       PROVE  /\ ObjectOK(c, c.objects[i])
              /\ \A j \in DOMAIN c.objects \ {i} : Apart(c.objects[i], c.objects[j])
  <2>1. CASE i \in DOMAIN b.objects BY <2>1, <1>9, <1>11, <1>12
  <2>2. CASE i = Len(b.objects) + 1 BY <2>2, <1>9, <1>10, <1>11
  <2> QED BY <2>1, <2>2, <1>11
<1> QED BY <1>5, <1>6, <1>7, <1>13 DEF BlockOK

(* A block of rows, of which one alone may be of any length. *)
LEMMA LargeBlockOK ==
    ASSUME NEW base \in Misalignments, NEW rows \in Nat, NEW length \in Nat,
           length % ALIGN_SIZE = 0 \/ rows = 1
    PROVE  BlockOK(LargeBlock(base, round_up_pow2(rows * length, ALIGN_SIZE), rows, length))
<1> DEFINE n == round_up_pow2(rows * length, ALIGN_SIZE)
           b == Block(base, Overhead + n, n)
           c == LargeBlock(base, n, rows, length)
           row(k) == [start |-> DataStart(b) + (k - 1) * length, size |-> length]
<1>1. rows * length \in Nat OBVIOUS
<1>2. n \in Nat /\ n % ALIGN_SIZE = 0 /\ rows * length <= n BY <1>1, RoundedUp
<1> HIDE DEF n
<1>3. b.base = base BY DEF Block
<1>4. DataStart(b) \in Nat /\ DataStart(b) % ALIGN_SIZE = 0 BY <1>3, DataStarts
<1>5. /\ c.base = base /\ c.size = Overhead + n /\ c.bytes_used = n /\ c.bytes_left = 0
      /\ c.objects = [k \in 1 .. rows |-> row(k)]
      /\ c \in [base : {base}, size : {Overhead + n}, bytes_used : {n}, bytes_left : {0},
                objects : {[k \in 1 .. rows |-> row(k)]}]
  BY DEF LargeBlock, Block
<1>6. DataStart(c) = DataStart(b) BY <1>3, <1>5 DEF DataStart
<1>7. ASSUME NEW k \in 1 .. rows
      PROVE  /\ (k - 1) * length \in Nat
             /\ (DataStart(b) + (k - 1) * length) % ALIGN_SIZE = 0
             /\ (k - 1) * length + length <= n
  <2>1. k - 1 \in Nat /\ k - 1 < rows OBVIOUS
  <2>2. (k - 1) * length \in Nat BY <2>1
  <2>3. (k - 1) * length + length <= rows * length BY <2>1, RowsApart
  <2>4. (DataStart(b) + (k - 1) * length) % ALIGN_SIZE = 0
    <3>1. CASE length % ALIGN_SIZE = 0
      <4>1. ((k - 1) * length) % ALIGN_SIZE = 0 BY <2>1, <3>1, AlignedRows
      <4> QED BY <1>4, <2>2, <4>1, AlignedSum
    <3>2. CASE rows = 1
      <4>1. (k - 1) * length = 0 BY <3>2
      <4> QED BY <1>4, <4>1
    <3> QED BY <3>1, <3>2
  <2>5. rows * length <= n /\ rows * length \in Nat /\ n \in Nat BY <1>1, <1>2
  <2> QED BY <2>2, <2>3, <2>4, <2>5
<1>8. ASSUME NEW k \in 1 .. rows PROVE row(k) \in ObjectType /\ ObjectOK(c, row(k))
  <2>1. row(k) \in ObjectType BY <1>4, <1>7 DEF ObjectType
  <2>2. /\ DataStart(b) <= DataStart(b) + (k - 1) * length
        /\ DataStart(b) + (k - 1) * length + length <= DataStart(b) + n
    <3>1. PICK m \in Nat : m = (k - 1) * length BY <1>7
    <3>2. m + length <= n BY <1>7, <3>1
    <3>3. DataStart(b) <= DataStart(b) + m /\ DataStart(b) + m + length <= DataStart(b) + n
      BY <1>2, <1>4, <3>2
    <3> QED BY <3>1, <3>3
  <2> QED BY <1>5, <1>6, <1>7, <2>1, <2>2 DEF ObjectOK
<1>9. ASSUME NEW j \in 1 .. rows, NEW k \in 1 .. rows, j < k
      PROVE  row(j).start + row(j).size <= row(k).start
  <2>1. j - 1 \in Nat /\ k - 1 \in Nat /\ j - 1 < k - 1 BY <1>9
  <2>2. (j - 1) * length + length <= (k - 1) * length BY <2>1, RowsApart
  <2>3. (j - 1) * length \in Nat /\ (k - 1) * length \in Nat BY <1>7
  <2>4. PICK x \in Nat, y \in Nat : x = (j - 1) * length /\ y = (k - 1) * length BY <2>3
  <2>5. x + length <= y BY <2>2, <2>4
  <2>6. DataStart(b) + x + length <= DataStart(b) + y BY <1>4, <2>5
  <2> QED BY <2>4, <2>6
<1>10. ASSUME NEW j \in 1 .. rows, NEW k \in (1 .. rows) \ {j} PROVE Apart(row(j), row(k))
  <2>1. CASE j < k BY <2>1, <1>9 DEF Apart
  <2>2. CASE k < j BY <2>2, <1>9 DEF Apart
  <2>3. j < k \/ k < j OBVIOUS
  <2> QED BY <2>1, <2>2, <2>3
<1>11. c \in BlockType
  <2>1. \A k \in 1 .. rows : row(k) \in ObjectType BY <1>8
  <2>2. [k \in 1 .. rows |-> row(k)] \in [1 .. rows -> ObjectType] BY <2>1
  <2>4. [k \in 1 .. rows |-> row(k)] \in Seq(ObjectType) BY <2>2, SeqDef
  <2>3. Overhead + n \in Int /\ 0 \in Nat BY <1>2, Parameters
  <2> QED BY <1>2, <1>5, <2>3, <2>4 DEF BlockType
<1>12. FreedSpace(c) = c.size
  <2>1. n + 0 + Overhead = Overhead + n BY <1>2, Parameters
  <2> QED BY <1>5, <2>1 DEF FreedSpace
<1>13. DOMAIN c.objects = 1 .. rows /\ \A k \in 1 .. rows : c.objects[k] = row(k) BY <1>5
<1>14. c.bytes_used % ALIGN_SIZE = 0 BY <1>2, <1>5
<1>15. \A i \in DOMAIN c.objects :
           /\ ObjectOK(c, c.objects[i])
           /\ \A j \in DOMAIN c.objects \ {i} : Apart(c.objects[i], c.objects[j])
  <2> HIDE DEF c, row
  <2> QED BY <1>8, <1>10, <1>13
<1>16. BlockOK(c) BY <1>11, <1>12, <1>14, <1>15 DEF BlockOK
<1> QED BY <1>16 DEF n

-----------------------------------------------------------------------------
(* Lists of blocks *)

LEMMA BlockReplaced ==
    ASSUME NEW list, ListsOK(list), NEW pool \in Pools, NEW i \in DOMAIN list[pool],
           NEW b, BlockOK(b)
    PROVE  ListsOK([list EXCEPT ![pool][i] = b])
<1> DEFINE new == [list EXCEPT ![pool][i] = b]
<1>1. list \in [Pools -> Seq(BlockType)] /\ b \in BlockType BY DEF ListsOK, BlockOK
<1>2. list[pool] \in Seq(BlockType) /\ i \in 1 .. Len(list[pool]) BY <1>1
<1>3. [list[pool] EXCEPT ![i] = b] \in Seq(BlockType) BY <1>1, <1>2, ExceptSeq
<1>4. new = [list EXCEPT ![pool] = [list[pool] EXCEPT ![i] = b]] BY <1>1
<1>5. new \in [Pools -> Seq(BlockType)] BY <1>1, <1>3, <1>4
<1>6. new[pool] = [list[pool] EXCEPT ![i] = b] BY <1>1, <1>4
<1>7. ASSUME NEW p \in Pools, p # pool PROVE new[p] = list[p] BY <1>1, <1>4, <1>7
<1>8. ASSUME NEW p \in Pools, NEW j \in DOMAIN new[p] PROVE BlockOK(new[p][j])
  <2>1. CASE p # pool BY <2>1, <1>7 DEF ListsOK
  <2>2. CASE p = pool
    <3>1. j \in DOMAIN list[pool] BY <1>6, <2>2
    <3>2. new[pool][j] = IF j = i THEN b ELSE list[pool][j] BY <1>6, <3>1
    <3> QED BY <2>2, <3>1, <3>2 DEF ListsOK
  <2> QED BY <2>1, <2>2
<1> QED BY <1>5, <1>8 DEF ListsOK

LEMMA BlocksReplaced ==
    ASSUME NEW list, ListsOK(list), NEW pool \in Pools, NEW blocks \in Seq(BlockType),
           \A i \in DOMAIN blocks : BlockOK(blocks[i])
    PROVE  ListsOK([list EXCEPT ![pool] = blocks])
BY DEF ListsOK

LEMMA BlockAppended ==
    ASSUME NEW list, ListsOK(list), NEW pool \in Pools, NEW b, BlockOK(b)
    PROVE  ListsOK([list EXCEPT ![pool] = Append(@, b)])
<1> DEFINE blocks == Append(list[pool], b)
<1>1. list \in [Pools -> Seq(BlockType)] /\ b \in BlockType BY DEF ListsOK, BlockOK
<1>2. list[pool] \in Seq(BlockType) BY <1>1
<1>3. /\ blocks \in Seq(BlockType)
      /\ DOMAIN blocks = DOMAIN list[pool] \cup {Len(list[pool]) + 1}
      /\ blocks[Len(list[pool]) + 1] = b
      /\ \A i \in DOMAIN list[pool] : blocks[i] = list[pool][i]
  BY <1>1, <1>2
<1>4. \A i \in DOMAIN blocks : BlockOK(blocks[i]) BY <1>3 DEF ListsOK
<1>5. ListsOK([list EXCEPT ![pool] = blocks])
  <2> HIDE DEF blocks
  <2> QED BY <1>3, <1>4, BlocksReplaced
<1> QED BY <1>1, <1>5

LEMMA TailKept ==
    ASSUME NEW list, ListsOK(list), NEW pool \in Pools, list[pool] # <<>>
    PROVE  ListsOK([list EXCEPT ![pool] = Tail(@)])
<1> DEFINE blocks == Tail(list[pool])
<1>1. list \in [Pools -> Seq(BlockType)] /\ list[pool] \in Seq(BlockType) BY DEF ListsOK
<1>2. /\ blocks \in Seq(BlockType) /\ Len(blocks) = Len(list[pool]) - 1
      /\ \A i \in 1 .. Len(blocks) : blocks[i] = list[pool][i + 1]
  BY <1>1, HeadTailProperties
<1>3. ASSUME NEW i \in DOMAIN blocks PROVE BlockOK(blocks[i])
  <2>1. i \in 1 .. Len(blocks) /\ Len(list[pool]) \in Nat BY <1>1, <1>2
  <2>2. i + 1 \in DOMAIN list[pool] BY <1>1, <1>2, <2>1
  <2> QED BY <1>2, <2>1, <2>2 DEF ListsOK
<1>4. ListsOK([list EXCEPT ![pool] = blocks])
  <2> HIDE DEF blocks
  <2> QED BY <1>2, <1>3, BlocksReplaced
<1> QED BY <1>1, <1>4

LEMMA FrontKept ==
    ASSUME NEW list, ListsOK(list), NEW pool \in Pools, list[pool] # <<>>
    PROVE  ListsOK([list EXCEPT ![pool] = SubSeq(@, 1, Len(@) - 1)])
<1> DEFINE n == Len(list[pool]) - 1
           blocks == SubSeq(list[pool], 1, n)
<1>1. list \in [Pools -> Seq(BlockType)] /\ list[pool] \in Seq(BlockType) BY DEF ListsOK
<1>2. n \in Nat BY <1>1
<1>3. \A i \in 1 .. n : list[pool][i] \in BlockType /\ i \in DOMAIN list[pool] BY <1>1
<1>4. /\ blocks \in Seq(BlockType) /\ Len(blocks) = n
      /\ \A i \in 1 .. n : blocks[i] = list[pool][i]
  <2> HIDE DEF n
  <2>1. /\ blocks \in Seq(BlockType)
        /\ Len(blocks) = IF 1 <= n THEN n - 1 + 1 ELSE 0
        /\ \A i \in 1 .. n - 1 + 1 : blocks[i] = list[pool][1 + i - 1]
    BY <1>2, <1>3, SubSeqProperties
  <2> QED BY <1>2, <2>1
<1>5. DOMAIN blocks = 1 .. n BY <1>4
<1>6. \A i \in DOMAIN blocks : BlockOK(blocks[i]) BY <1>3, <1>4, <1>5 DEF ListsOK
<1>7. ListsOK([list EXCEPT ![pool] = blocks])
  <2> HIDE DEF blocks
  <2> QED BY <1>4, <1>6, BlocksReplaced
<1> QED BY <1>1, <1>7

-----------------------------------------------------------------------------
(* Allocation *)

LEMMA SlopsAreNat ==
    ASSUME NEW pool \in Pools, NEW request \in Nat
    PROVE  SlopFor(pool, request) \subseteq Nat
<1> DEFINE slop == IF small_list[pool] = <<>> THEN first_pool_slop[pool]
                   ELSE extra_pool_slop[pool]
           most == IF slop > MAX_ALLOC_CHUNK - request THEN MAX_ALLOC_CHUNK - request ELSE slop
<1>1. slop \in Nat BY PoolsAssumption
<1>2. most \in Int BY <1>1, Parameters
<1>3. SlopFor(pool, request) = Tried(most) BY DEF SlopFor
<1>4. Tried(most) \subseteq 0 .. most BY DEF Tried
<1> HIDE DEF most
<1> QED BY <1>2, <1>3, <1>4

LEMMA AllocSmallKeeps ==
    ASSUME ListsOK(small_list), total_space_allocated \in Int,
           NEW pool \in Pools, NEW size \in Nat, alloc_small(pool, size)
    PROVE  ListsOK(small_list') /\ total_space_allocated' \in Int
<1> DEFINE n == round_up_pow2(size, ALIGN_SIZE)
<1>1. n \in Nat /\ n % ALIGN_SIZE = 0 BY RoundedUp
<1>2. FromBlock(pool, n) \/ FromNewBlock(pool, n) BY DEF alloc_small
<1> HIDE DEF n
<1>3. CASE FromBlock(pool, n)
  <2>1. PICK i \in DOMAIN small_list[pool] :
            /\ small_list[pool][i].bytes_left >= n
            /\ small_list' = [small_list EXCEPT ![pool][i] = WithObject(small_list[pool][i], n)]
    BY <1>3 DEF FromBlock, ListsOK
  <2>2. BlockOK(small_list[pool][i]) /\ small_list[pool][i].bytes_left \in Nat
    BY DEF ListsOK, BlockOK, BlockType
  <2>3. n <= small_list[pool][i].bytes_left BY <1>1, <2>1, <2>2
  <2>4. BlockOK(WithObject(small_list[pool][i], n)) BY <1>1, <2>2, <2>3, WithObjectOK
  <2>5. ListsOK(small_list') BY <2>1, <2>4, BlockReplaced
  <2> QED BY <1>3, <2>5 DEF FromBlock, space
<1>4. CASE FromNewBlock(pool, n)
  <2>1. PICK slop \in SlopFor(pool, Overhead + n), base \in Misalignments :
            /\ total_space_allocated' = total_space_allocated + (Overhead + n + slop)
            /\ small_list' = [small_list EXCEPT ![pool] =
                   Append(@, WithObject(Block(base, Overhead + n + slop, n + slop), n))]
    BY <1>4 DEF FromNewBlock, Got
  <2>2. slop \in Nat
    <3>1. Overhead + n \in Nat BY <1>1, Parameters
    <3> QED BY <2>1, <3>1, SlopsAreNat
  <2>3. n + slop \in Nat /\ Overhead + n + slop = Overhead + (n + slop)
    BY <1>1, <2>2, Parameters
  <2> DEFINE b == Block(base, Overhead + (n + slop), n + slop)
  <2>4. BlockOK(b) /\ b.bytes_left = n + slop BY <2>3, NewBlockOK DEF Block
  <2>5. BlockOK(WithObject(b, n)) BY <1>1, <2>2, <2>4, WithObjectOK
  <2>6. small_list' = [small_list EXCEPT ![pool] = Append(@, WithObject(b, n))]
    BY <2>1, <2>3
  <2>7. ListsOK(small_list')
    <3> HIDE DEF b
    <3> QED BY <2>5, <2>6, BlockAppended
  <2>8. Overhead + n + slop \in Int BY <1>1, <2>2, Parameters
  <2> QED BY <2>1, <2>7, <2>8
<1> QED BY <1>2, <1>3, <1>4

LEMMA AllocLargeKeeps ==
    ASSUME ListsOK(large_list), total_space_allocated \in Int,
           NEW pool \in Pools, NEW rows \in Nat, NEW length \in Nat,
           length % ALIGN_SIZE = 0 \/ rows = 1, alloc_large(pool, rows, length)
    PROVE  ListsOK(large_list') /\ total_space_allocated' \in Int
<1> DEFINE n == round_up_pow2(rows * length, ALIGN_SIZE)
<1>1. n \in Nat
  <2>1. rows * length \in Nat OBVIOUS
  <2> QED BY <2>1, RoundedUp
<1>2. PICK base \in Misalignments :
          /\ total_space_allocated' = total_space_allocated + (Overhead + n)
          /\ large_list' = [large_list EXCEPT ![pool] =
                                Append(@, LargeBlock(base, n, rows, length))]
  BY DEF alloc_large, Got
<1>3. BlockOK(LargeBlock(base, n, rows, length)) BY LargeBlockOK
<1> HIDE DEF n
<1>4. ListsOK(large_list') BY <1>2, <1>3, BlockAppended
<1>5. Overhead + n \in Int BY <1>1, Parameters
<1> QED BY <1>2, <1>4, <1>5

LEMMA RowBytesAligned ==
    ASSUME NEW array, array.width \in Nat \ {0}
    PROVE  RowBytes(array) \in Nat \ {0} /\ RowBytes(array) % ALIGN_SIZE = 0
<1>1. CASE array.of = "samples"
  <2>1. RowBytes(array) = round_up_pow2(array.width, 2 * ALIGN_SIZE) BY <1>1 DEF RowBytes
  <2>2. /\ round_up_pow2(array.width, 2 * ALIGN_SIZE) \in Nat
        /\ round_up_pow2(array.width, 2 * ALIGN_SIZE) % ALIGN_SIZE = 0
        /\ array.width <= round_up_pow2(array.width, 2 * ALIGN_SIZE)
    BY RoundedUpTwice
  <2> QED BY <2>1, <2>2
<1>2. CASE array.of # "samples"
  <2>1. RowBytes(array) = array.width * BlockSize BY <1>2 DEF RowBytes
  <2>2. array.width * BlockSize \in Nat /\ (array.width * BlockSize) % ALIGN_SIZE = 0
    BY Parameters, AlignedRows
  <2>3. array.width * BlockSize # 0 BY Parameters
  <2> QED BY <2>1, <2>2, <2>3
<1> QED BY <1>1, <1>2

LEMMA RowsThatFit ==
    ASSUME NEW array, array.width \in Nat \ {0}, ~TooWide(array)
    PROVE  MaxRows(array) \in Nat
<1>1. RowBytes(array) \in Nat \ {0} BY RowBytesAligned
<1>2. MAX_ALLOC_CHUNK - HeaderSize \in Int BY Parameters
<1>3. MaxRows(array) \in Int BY <1>1, <1>2 DEF MaxRows
<1> QED BY <1>3 DEF TooWide

LEMMA BeginArrayKeeps ==
    ASSUME ListsOK(small_list), total_space_allocated \in Int,
           NEW pool \in Pools, NEW array, array.width \in Nat \ {0}, NEW rows \in Nat,
           NEW number \in Nat, NEW m \in Nat, BeginArray(pool, array, rows, number, m)
    PROVE  /\ ListsOK(small_list') /\ total_space_allocated' \in Int
           /\ last_rowsperchunk' \in Nat /\ DoingOK'
<1>1. alloc_small(pool, rows * PointerSize) /\ ~TooWide(array) BY DEF BeginArray
<1>2. rows * PointerSize \in Nat BY Parameters
<1>3. ListsOK(small_list') /\ total_space_allocated' \in Int BY <1>1, <1>2, AllocSmallKeeps
<1>4. RowBytes(array) \in Nat \ {0} /\ RowBytes(array) % ALIGN_SIZE = 0 BY RowBytesAligned
<1>5. MaxRows(array) \in Nat BY <1>1, RowsThatFit
<1>6. Smaller(MaxRows(array), rows) \in Nat BY <1>5 DEF Smaller
<1>7. doing' \in RowsCall /\ doing'.length = RowBytes(array) /\ doing'.at = "rows"
  <2>1. <<>> \in Seq(Nat) OBVIOUS
  <2>2. doing' = [at |-> "rows", pool |-> pool, length |-> RowBytes(array), numrows |-> rows,
                  rowsperchunk |-> Smaller(MaxRows(array), rows), chunks |-> <<>>,
                  number |-> number, max_minheights |-> m]
    BY DEF BeginArray
  <2> QED BY <1>4, <1>6, <2>1, <2>2 DEF RowsCall
<1>8. last_rowsperchunk' \in Nat BY <1>6 DEF BeginArray
<1>9. DoingOK' BY <1>4, <1>7 DEF DoingOK
<1> QED BY <1>3, <1>8, <1>9

(* A call that ends, in whatever way, leaves nothing to be done. *)
LEMMA NothingToDo ==
    ASSUME doing' \in {Idle, Failed, Closed}
    PROVE  DoingOK'
BY DEF Idle, Failed, Closed, DoingOK

LEMMA NoArrayKeeps ==
    ASSUME PlacesInv, NEW pool, NEW array, array.width \in Nat \ {0}, NEW rows \in Nat,
           NoArray(pool, array, rows)
    PROVE  last_rowsperchunk' \in Nat /\ DoingOK'
<1>1. DoingOK' BY NothingToDo DEF NoArray
<1>2. CASE TooWide(array) BY <1>1, <1>2 DEF NoArray, PlacesInv, Numbers
<1>3. CASE ~TooWide(array)
  <2>1. MaxRows(array) \in Nat BY <1>3, RowsThatFit
  <2> QED BY <1>1, <1>3, <2>1 DEF NoArray, Smaller
<1> QED BY <1>2, <1>3

-----------------------------------------------------------------------------
(* Steps *)

LEMMA InitKeeps ==
    ASSUME PoolsInit
    PROVE  PlacesInv
<1>1. ListsOK([pool \in Pools |-> <<>>]) BY DEF ListsOK
<1>2. DoingOK BY DEF PoolsInit, Idle, DoingOK
<1>3. Numbers BY Parameters DEF PoolsInit, Numbers
<1> QED BY <1>1, <1>2, <1>3 DEF PoolsInit, PlacesInv

LEMMA FailKeeps ==
    ASSUME PlacesInv, Fail
    PROVE  PlacesInv'
<1>1. DoingOK' BY NothingToDo DEF Fail
<1> QED BY <1>1 DEF Fail, PlacesInv, Numbers, ListsOK, lists, space

LEMMA AllocKeeps ==
    ASSUME PlacesInv, NEW object \in Objects, AllocSmall(object) \/ AllocLarge(object)
    PROVE  PlacesInv'
<1>1. object.pool \in Pools /\ object.size \in Nat BY PoolsAssumption
<1>2. total_space_allocated \in Int BY DEF PlacesInv, Numbers
<1>3. CASE Fail BY <1>3, FailKeeps
<1>4. CASE /\ alloc_small(object.pool, object.size)
           /\ UNCHANGED <<large_list, max_memory_to_use, virt_list, last_rowsperchunk, doing>>
  <2>1. ListsOK(small_list') /\ total_space_allocated' \in Int
    BY <1>1, <1>2, <1>4, AllocSmallKeeps DEF PlacesInv
  <2> QED BY <1>4, <2>1 DEF PlacesInv, Numbers, DoingOK
<1>5. CASE /\ alloc_large(object.pool, 1, object.size)
           /\ UNCHANGED <<small_list, max_memory_to_use, virt_list, last_rowsperchunk, doing>>
  <2>1. ListsOK(large_list') /\ total_space_allocated' \in Int
    BY <1>1, <1>2, <1>5, AllocLargeKeeps DEF PlacesInv
  <2> QED BY <1>5, <2>1 DEF PlacesInv, Numbers, DoingOK
<1> QED BY <1>3, <1>4, <1>5 DEF AllocSmall, AllocLarge

LEMMA AllocArrayKeeps ==
    ASSUME PlacesInv, NEW array \in Arrays, AllocArray(array)
    PROVE  PlacesInv'
<1>1. array.pool \in Pools /\ array.width \in Nat \ {0} /\ array.rows \in Nat
  BY PoolsAssumption
<1>2. UNCHANGED <<large_list, max_memory_to_use, virt_list>> BY DEF AllocArray
<1>3. CASE BeginArray(array.pool, array, array.rows, 0, 0)
  <2>1. /\ ListsOK(small_list') /\ total_space_allocated' \in Int
        /\ last_rowsperchunk' \in Nat /\ DoingOK'
    BY <1>1, <1>3, BeginArrayKeeps DEF PlacesInv, Numbers
  <2> QED BY <1>2, <2>1 DEF PlacesInv, Numbers
<1>4. CASE NoArray(array.pool, array, array.rows)
  <2>1. last_rowsperchunk' \in Nat /\ DoingOK' BY <1>1, <1>4, NoArrayKeeps
  <2> QED BY <1>2, <1>4, <2>1 DEF NoArray, PlacesInv, Numbers, ListsOK, space
<1> QED BY <1>3, <1>4 DEF AllocArray

LEMMA AllocRowsKeeps ==
    ASSUME PlacesInv, AllocRows
    PROVE  PlacesInv'
<1> DEFINE rows == Smaller(doing.rowsperchunk, doing.numrows)
<1>1. /\ doing \in RowsCall /\ doing.length % ALIGN_SIZE = 0
      /\ doing.pool \in Pools /\ doing.length \in Nat
  BY DEF AllocRows, PlacesInv, DoingOK, RowsCall
<1>2. rows \in Nat /\ doing.numrows - rows \in Nat BY <1>1 DEF Smaller, RowsCall
<1>3. alloc_large(doing.pool, rows, doing.length) BY DEF AllocRows
<1>4. doing' = [doing EXCEPT !.numrows = @ - rows, !.rowsperchunk = rows,
                             !.chunks = Append(@, rows)]
  BY DEF AllocRows
<1> HIDE DEF rows
<1>5. ListsOK(large_list') /\ total_space_allocated' \in Int
  BY <1>1, <1>2, <1>3, AllocLargeKeeps DEF PlacesInv, Numbers
<1>6. doing' \in RowsCall /\ doing'.length = doing.length /\ doing'.at = "rows"
  <2>1. Append(doing.chunks, rows) \in Seq(Nat) BY <1>1, <1>2 DEF RowsCall
  <2> QED BY <1>1, <1>2, <1>4, <2>1 DEF RowsCall
<1>7. DoingOK' BY <1>1, <1>6 DEF DoingOK
<1> QED BY <1>5, <1>7 DEF AllocRows, PlacesInv, Numbers

LEMMA EndArrayKeeps ==
    ASSUME PlacesInv, EndArray
    PROVE  PlacesInv'
<1>1. doing \in RowsCall BY DEF EndArray, PlacesInv, DoingOK
<1>2. virt_list \in Seq(VirtualType) /\ last_rowsperchunk \in Nat BY DEF PlacesInv, Numbers
<1>3. CASE doing.number = 0
  <2>1. DoingOK' /\ virt_list' = virt_list BY <1>3, NothingToDo DEF EndArray
  <2> QED BY <2>1 DEF EndArray, PlacesInv, Numbers, ListsOK, lists, space
<1>4. CASE doing.number # 0
  <2>1. /\ virt_list' = [virt_list EXCEPT ![doing.number].mem_buffer = doing.chunks,
                                        ![doing.number].rowsperchunk = last_rowsperchunk]
        /\ doing' = [at |-> "realize", max_minheights |-> doing.max_minheights]
    BY <1>4 DEF EndArray
  <2>2. virt_list' \in Seq(VirtualType)
    <3> DEFINE i == doing.number
               v == [virt_list[i] EXCEPT !.mem_buffer = doing.chunks,
                                         !.rowsperchunk = last_rowsperchunk]
    <3>1. CASE i \in DOMAIN virt_list
      <4>1. virt_list[i] \in VirtualType /\ i \in 1 .. Len(virt_list) BY <1>2, <3>1
      <4>2. doing.chunks \in Seq(Nat) BY <1>1 DEF RowsCall
      <4>3. v \in VirtualType BY <1>2, <4>1, <4>2 DEF VirtualType
      <4>4. virt_list' = [virt_list EXCEPT ![i] = v] BY <1>2, <2>1, <3>1
      <4> HIDE DEF v
      <4> QED BY <1>2, <4>1, <4>3, <4>4, ExceptSeq
    <3>2. CASE i \notin DOMAIN virt_list
      <4>1. virt_list' = virt_list BY <1>2, <2>1, <3>2
      <4> QED BY <1>2, <4>1
    <3> QED BY <3>1, <3>2
  <2>3. DoingOK' BY <1>1, <2>1 DEF DoingOK, RowsCall
  <2> QED BY <2>2, <2>3 DEF EndArray, PlacesInv, Numbers, ListsOK, lists, space
<1> QED BY <1>3, <1>4

LEMMA RequestArrayKeeps ==
    ASSUME PlacesInv, NEW array \in VirtualArrays, RequestArray(array)
    PROVE  PlacesInv'
<1>1. CASE Fail BY <1>1, FailKeeps
<1>2. CASE request_virt_array(array)
  <2> DEFINE v == [array |-> array, mem_buffer |-> NULL, rows_in_mem |-> 0,
                   rowsperchunk |-> 0, b_s_open |-> FALSE]
  <2>1. ListsOK(small_list') /\ total_space_allocated' \in Int
    BY <1>2, Parameters, AllocSmallKeeps DEF request_virt_array, PlacesInv, Numbers, Pools
  <2>2. v \in VirtualType BY DEF VirtualType, NULL
  <2>3. virt_list' = Append(virt_list, v) BY <1>2 DEF request_virt_array
  <2> HIDE DEF v
  <2>4. virt_list' \in Seq(VirtualType) BY <2>2, <2>3 DEF PlacesInv, Numbers
  <2> QED BY <1>2, <2>1, <2>4 DEF request_virt_array, PlacesInv, Numbers, DoingOK
<1> QED BY <1>1, <1>2 DEF RequestArray

LEMMA ArrayOf ==
    ASSUME PlacesInv, NEW i \in DOMAIN virt_list
    PROVE  /\ virt_list[i] \in VirtualType
           /\ virt_list[i].array.width \in Nat \ {0}
           /\ virt_list[i].array.rows \in Nat \ {0}
           /\ virt_list[i].array.maxaccess \in Nat \ {0}
<1>1. virt_list[i] \in VirtualType BY DEF PlacesInv, Numbers
<1>2. virt_list[i].array \in VirtualArrays BY <1>1 DEF VirtualType
<1> QED BY <1>1, <1>2, PoolsAssumption

LEMMA MeasureKeeps ==
    ASSUME PlacesInv, RealizeArrays \/ MeasureArray \/ ShareOut
    PROVE  PlacesInv'
<1>1. UNCHANGED <<lists, space, max_memory_to_use, virt_list, last_rowsperchunk>>
  BY DEF RealizeArrays, MeasureArray, ShareOut
<1>2. DoingOK'
  <2>1. CASE RealizeArrays BY <2>1 DEF RealizeArrays, DoingOK
  <2>2. CASE MeasureArray
    <3> DEFINE array == virt_list[doing.next].array
               row == array.width * (IF array.of = "samples" THEN 1 ELSE BlockSize)
               least == IF doing.next \in Unrealized THEN array.maxaccess * row ELSE 0
               most == IF doing.next \in Unrealized THEN array.rows * row ELSE 0
    <3>1. /\ doing.next \in Nat /\ doing.space_per_minheight \in Nat
          /\ doing.maximum_space \in Nat
      BY <2>2 DEF MeasureArray, PlacesInv, DoingOK
    <3>2. /\ array.width \in Nat /\ array.rows \in Nat /\ array.maxaccess \in Nat
      BY <2>2, ArrayOf DEF MeasureArray
    <3>3. row \in Nat BY <3>2, Parameters
    <3>4. array.maxaccess * row \in Nat /\ array.rows * row \in Nat
      <4> HIDE DEF row
      <4> QED BY <3>2, <3>3
    <3>5. least \in Nat /\ most \in Nat BY <3>4
    <3>6. doing' = [at |-> "measure", next |-> doing.next + 1,
                    space_per_minheight |-> doing.space_per_minheight + least,
                    maximum_space |-> doing.maximum_space + most]
      BY <2>2 DEF MeasureArray
    <3> HIDE DEF least, most
    <3> QED BY <3>1, <3>5, <3>6 DEF DoingOK
  <2>3. CASE ShareOut
    <3> DEFINE avail_mem == jpeg_mem_available(doing.maximum_space)
               share == avail_mem \div doing.space_per_minheight
    <3>1. doing.space_per_minheight \in Nat /\ doing.maximum_space \in Nat
      BY <2>3 DEF ShareOut, PlacesInv, DoingOK
    <3>2. avail_mem \in Int BY <3>1 DEF jpeg_mem_available, PlacesInv, Numbers
    <3>3. CASE doing.space_per_minheight <= 0
      <4>1. doing' = Idle BY <2>3, <3>3 DEF ShareOut
      <4> QED BY <4>1, NothingToDo
    <3>4. CASE ~(doing.space_per_minheight <= 0)
      <4>1. doing.space_per_minheight \in Nat \ {0} BY <3>1, <3>4
      <4> HIDE DEF avail_mem
      <4>2. share \in Int BY <3>2, <4>1
      <4> HIDE DEF share
      <4> DEFINE m == IF avail_mem >= doing.maximum_space THEN 1000000000
                      ELSE IF share <= 0 THEN 1 ELSE share
      <4>3. m \in Nat BY <4>2
      <4>4. doing' = [at |-> "realize", max_minheights |-> m]
        BY <2>3, <3>4 DEF ShareOut, share, avail_mem
      <4> HIDE DEF m
      <4> QED BY <4>3, <4>4 DEF DoingOK
    <3> QED BY <3>3, <3>4
  <2> QED BY <2>1, <2>2, <2>3
<1> QED BY <1>1, <1>2 DEF PlacesInv, Numbers, ListsOK, lists, space

LEMMA RealizeArrayKeeps ==
    ASSUME PlacesInv, RealizeArray
    PROVE  PlacesInv'
<1>1. doing.max_minheights \in Nat BY DEF RealizeArray, PlacesInv, DoingOK
<1>2. PICK i \in DOMAIN virt_list, opened \in BOOLEAN :
          LET array == virt_list[i].array
              fits == minheightsOf(array) <= doing.max_minheights
              rows == IF fits THEN array.rows ELSE doing.max_minheights * array.maxaccess
          IN  /\ virt_list' = [virt_list EXCEPT ![i].rows_in_mem = rows,
                                               ![i].b_s_open = opened]
              /\ IF fits \/ opened
                 THEN \/ BeginArray(JPOOL_IMAGE, array, rows, i, doing.max_minheights)
                      \/ NoArray(JPOOL_IMAGE, array, rows)
                 ELSE /\ doing' = Failed
                      /\ UNCHANGED <<small_list, space, last_rowsperchunk>>
  BY DEF RealizeArray
<1> DEFINE array == virt_list[i].array
           fits == minheightsOf(array) <= doing.max_minheights
           rows == IF fits THEN array.rows ELSE doing.max_minheights * array.maxaccess
           v == [virt_list[i] EXCEPT !.rows_in_mem = rows, !.b_s_open = opened]
<1>3. /\ virt_list[i] \in VirtualType
      /\ array.width \in Nat \ {0} /\ array.rows \in Nat /\ array.maxaccess \in Nat
  BY ArrayOf
<1>4. rows \in Nat
  <2>1. doing.max_minheights * array.maxaccess \in Nat BY <1>1, <1>3
  <2> QED BY <1>3, <2>1
<1>5. /\ virt_list' = [virt_list EXCEPT ![i].rows_in_mem = rows, ![i].b_s_open = opened]
      /\ \/ BeginArray(JPOOL_IMAGE, array, rows, i, doing.max_minheights)
         \/ NoArray(JPOOL_IMAGE, array, rows)
         \/ doing' = Failed /\ UNCHANGED <<small_list, space, last_rowsperchunk>>
  BY <1>2
<1> HIDE DEF rows, fits
<1>6. virt_list' \in Seq(VirtualType)
  <2>1. virt_list \in Seq(VirtualType) BY DEF PlacesInv, Numbers
  <2>2. v \in VirtualType BY <1>3, <1>4 DEF VirtualType
  <2>3. virt_list' = [virt_list EXCEPT ![i] = v] BY <1>5, <2>1
  <2>4. i \in 1 .. Len(virt_list) BY <2>1
  <2> HIDE DEF v
  <2> QED BY <2>1, <2>2, <2>3, <2>4, ExceptSeq
<1>7. UNCHANGED <<large_list, max_memory_to_use>> BY DEF RealizeArray
<1>8. CASE BeginArray(JPOOL_IMAGE, array, rows, i, doing.max_minheights)
  <2>1. i \in Nat /\ JPOOL_IMAGE \in Pools BY DEF PlacesInv, Numbers, Pools
  <2>2. ListsOK(small_list) /\ total_space_allocated \in Int BY DEF PlacesInv, Numbers
  <2> HIDE DEF array
  <2>3. /\ ListsOK(small_list') /\ total_space_allocated' \in Int
        /\ last_rowsperchunk' \in Nat /\ DoingOK'
    BY <1>1, <1>3, <1>4, <1>8, <2>1, <2>2, BeginArrayKeeps
  <2> QED BY <1>6, <1>7, <2>3 DEF PlacesInv, Numbers
<1>9. CASE NoArray(JPOOL_IMAGE, array, rows)
  <2> HIDE DEF array
  <2>1. last_rowsperchunk' \in Nat /\ DoingOK' BY <1>3, <1>4, <1>9, NoArrayKeeps
  <2> QED BY <1>6, <1>7, <1>9, <2>1 DEF NoArray, PlacesInv, Numbers, ListsOK, space
<1>10. CASE doing' = Failed /\ UNCHANGED <<small_list, space, last_rowsperchunk>>
  <2>1. DoingOK' BY <1>10, NothingToDo
  <2> QED BY <1>6, <1>7, <1>10, <2>1 DEF PlacesInv, Numbers, ListsOK, space
<1> QED BY <1>5, <1>8, <1>9, <1>10

LEMMA FreeKeeps ==
    ASSUME PlacesInv, FreePool(JPOOL_IMAGE) \/ SelfDestruct
    PROVE  PlacesInv'
<1>1. PICK pools \in Seq(Pools) : Free(pools)
  <2>1. <<JPOOL_IMAGE>> \in Seq(Pools) /\ <<JPOOL_IMAGE, JPOOL_PERMANENT>> \in Seq(Pools)
    BY DEF Pools
  <2> QED BY <2>1 DEF FreePool, SelfDestruct
<1>2. DoingOK' BY <1>1 DEF Free, DoingOK
<1>3. virt_list' \in Seq(VirtualType) BY <1>1 DEF Free, PlacesInv, Numbers
<1> QED BY <1>1, <1>2, <1>3 DEF Free, PlacesInv, Numbers, ListsOK, lists, space

(* The space of a block is a number. *)
LEMMA FreedIsInt ==
    ASSUME NEW list, ListsOK(list), NEW pool \in Pools, NEW i \in DOMAIN list[pool]
    PROVE  FreedSpace(list[pool][i]) \in Int
<1>1. list[pool][i] \in BlockType BY DEF ListsOK
<1> QED BY <1>1, Parameters DEF BlockType, FreedSpace

LEMMA FreeBlockKeeps ==
    ASSUME PlacesInv, FreeLarge \/ FreeSmall
    PROVE  PlacesInv'
<1> DEFINE pool == Head(doing.pools)
<1>1. pool \in Pools
  <2>1. doing.pools \in Seq(Pools) /\ doing.pools # <<>>
    BY DEF FreeLarge, FreeSmall, PlacesInv, DoingOK
  <2> QED BY <2>1
<1>2. ListsOK(small_list) /\ ListsOK(large_list) /\ total_space_allocated \in Int
  BY DEF PlacesInv, Numbers
<1>3. UNCHANGED <<max_memory_to_use, virt_list, last_rowsperchunk, doing>>
  BY DEF FreeLarge, FreeSmall
<1>4. CASE FreeLarge
  <2> DEFINE n == Len(large_list[pool])
  <2>1. /\ large_list[pool] # <<>> /\ GiveBack(large_list[pool][n])
        /\ large_list' = [large_list EXCEPT ![pool] = SubSeq(@, 1, Len(@) - 1)]
        /\ small_list' = small_list
    BY <1>4 DEF FreeLarge
  <2> HIDE DEF pool
  <2>2. ListsOK(large_list') BY <1>1, <1>2, <2>1, FrontKept
  <2>3. n \in DOMAIN large_list[pool]
    <3>1. large_list[pool] \in Seq(BlockType) BY <1>1, <1>2 DEF ListsOK
    <3> QED BY <2>1, <3>1
  <2>4. FreedSpace(large_list[pool][n]) \in Int BY <1>1, <1>2, <2>3, FreedIsInt
  <2>5. total_space_allocated' \in Int BY <1>2, <2>1, <2>4 DEF GiveBack
  <2> QED BY <1>2, <1>3, <2>1, <2>2, <2>5 DEF PlacesInv, Numbers, DoingOK
<1>5. CASE FreeSmall
  <2>1. /\ small_list[pool] # <<>> /\ GiveBack(Head(small_list[pool]))
        /\ small_list' = [small_list EXCEPT ![pool] = Tail(@)]
        /\ large_list' = large_list
    BY <1>5 DEF FreeSmall
  <2> HIDE DEF pool
  <2>2. ListsOK(small_list') BY <1>1, <1>2, <2>1, TailKept
  <2>3. 1 \in DOMAIN small_list[pool] /\ Head(small_list[pool]) = small_list[pool][1]
    <3>1. small_list[pool] \in Seq(BlockType) BY <1>1, <1>2 DEF ListsOK
    <3> QED BY <2>1, <3>1
  <2>4. FreedSpace(small_list[pool][1]) \in Int BY <1>1, <1>2, <2>3, FreedIsInt
  <2>5. total_space_allocated' \in Int BY <1>2, <2>1, <2>3, <2>4 DEF GiveBack
  <2> QED BY <1>2, <1>3, <2>1, <2>2, <2>5 DEF PlacesInv, Numbers, DoingOK
<1> QED BY <1>4, <1>5

LEMMA PoolFreedKeeps ==
    ASSUME PlacesInv, PoolFreed
    PROVE  PlacesInv'
<1>1. UNCHANGED <<lists, total_space_allocated, max_memory_to_use, virt_list,
                  last_rowsperchunk>>
  BY DEF PoolFreed
<1>2. DoingOK'
  <2>1. /\ doing \in [at : {"freeing"}, pools : Seq(Pools)] /\ doing.pools # <<>>
    BY DEF PoolFreed, PlacesInv, DoingOK
  <2>2. CASE doing' = [doing EXCEPT !.pools = Tail(@)]
    <3>1. Tail(doing.pools) \in Seq(Pools) BY <2>1
    <3> QED BY <2>1, <2>2, <3>1 DEF DoingOK
  <2>3. CASE doing' \in {Idle, Closed} BY <2>3, NothingToDo
  <2> QED BY <2>2, <2>3 DEF PoolFreed
<1> QED BY <1>1, <1>2 DEF PlacesInv, Numbers, ListsOK, lists

LEMMA OthersKeep ==
    ASSUME PlacesInv,
           \/ EndRealize \/ jinit_memory_mgr
           \/ \E limit \in Limits : SetLimit(limit)
    PROVE  PlacesInv'
<1>1. CASE EndRealize
  <2>1. DoingOK' BY <1>1, NothingToDo DEF EndRealize
  <2> QED BY <1>1, <2>1 DEF EndRealize, PlacesInv, Numbers, ListsOK, lists, space
<1>2. CASE jinit_memory_mgr
  <2>1. DoingOK' BY <1>2, NothingToDo DEF jinit_memory_mgr
  <2>2. Numbers' BY <1>2, Parameters DEF jinit_memory_mgr, Numbers
  <2> QED BY <1>2, <2>1, <2>2 DEF jinit_memory_mgr, PlacesInv, ListsOK, lists
<1>3. CASE \E limit \in Limits : SetLimit(limit)
  <2>1. max_memory_to_use' \in Nat BY <1>3, PoolsAssumption DEF SetLimit
  <2> QED BY <1>3, <2>1 DEF SetLimit, PlacesInv, Numbers, ListsOK, DoingOK, lists, space
<1> QED BY <1>1, <1>2, <1>3

LEMMA NextKeeps ==
    ASSUME PlacesInv, [PoolsNext]_poolVars
    PROVE  PlacesInv'
<1>1. CASE \E object \in Objects : AllocSmall(object) \/ AllocLarge(object)
  BY <1>1, AllocKeeps
<1>2. CASE \E array \in Arrays : AllocArray(array) BY <1>2, AllocArrayKeeps
<1>3. CASE \E array \in VirtualArrays : RequestArray(array) BY <1>3, RequestArrayKeeps
<1>4. CASE AllocRows BY <1>4, AllocRowsKeeps
<1>5. CASE NoRows BY <1>5, FailKeeps DEF NoRows
<1>6. CASE EndArray BY <1>6, EndArrayKeeps
<1>7. CASE RealizeArrays \/ MeasureArray \/ ShareOut BY <1>7, MeasureKeeps
<1>8. CASE RealizeArray BY <1>8, RealizeArrayKeeps
<1>9. CASE FreePool(JPOOL_IMAGE) \/ SelfDestruct BY <1>9, FreeKeeps
<1>10. CASE FreeLarge \/ FreeSmall BY <1>10, FreeBlockKeeps
<1>11. CASE PoolFreed BY <1>11, PoolFreedKeeps
<1>12. CASE EndRealize \/ jinit_memory_mgr \/ \E limit \in Limits : SetLimit(limit)
  BY <1>12, OthersKeep
<1>13. CASE UNCHANGED poolVars
  BY <1>13 DEF poolVars, PlacesInv, Numbers, ListsOK, DoingOK
<1> QED BY <1>1, <1>2, <1>3, <1>4, <1>5, <1>6, <1>7, <1>8, <1>9, <1>10, <1>11, <1>12, <1>13
        DEF PoolsNext

(* What is behind the header up to bytes_used is inside the block. *)
LEMMA BlockIsInPlace ==
    ASSUME NEW block, BlockOK(block), NEW i \in DOMAIN block.objects
    PROVE  LET o == block.objects[i]
           IN  /\ o.start % ALIGN_SIZE = 0
               /\ block.base + HeaderSize <= o.start
               /\ o.start + o.size <= block.base + block.size
               /\ \A j \in DOMAIN block.objects \ {i} :
                      LET p == block.objects[j]
                      IN  o.start + o.size <= p.start \/ p.start + p.size <= o.start
<1> DEFINE o == block.objects[i]
<1>1. /\ block.base \in Misalignments /\ block.size \in Int /\ block.bytes_used \in Nat
      /\ block.bytes_left \in Nat /\ o \in ObjectType /\ ObjectOK(block, o)
  BY DEF BlockOK, BlockType
<1>2. block.base \in Nat
  <2>1. Misalignments \subseteq 0 .. ALIGN_SIZE - 1 BY PoolsAssumption
  <2>2. ALIGN_SIZE \in Nat BY Parameters
  <2>3. block.base \in 0 .. ALIGN_SIZE - 1 BY <1>1, <2>1
  <2> QED BY <2>2, <2>3
<1>3. /\ DataStart(block) \in Nat /\ block.base + HeaderSize <= DataStart(block)
      /\ DataStart(block) <= block.base + Overhead
  BY <1>1, DataStarts
<1>4. block.size = block.bytes_used + block.bytes_left + Overhead
  BY DEF BlockOK, FreedSpace
<1>5. /\ o.start \in Int /\ o.size \in Nat /\ o.start % ALIGN_SIZE = 0
      /\ DataStart(block) <= o.start
      /\ o.start + o.size <= DataStart(block) + block.bytes_used
  BY <1>1 DEF ObjectType, ObjectOK
<1>6. block.base + HeaderSize <= o.start BY <1>2, <1>3, <1>5, Parameters
<1>7. o.start + o.size <= block.base + block.size
  <2>1. DataStart(block) + block.bytes_used <= block.base + block.size
    BY <1>1, <1>2, <1>3, <1>4, Parameters
  <2> QED BY <1>1, <1>2, <1>3, <1>5, <2>1
<1>8. \A j \in DOMAIN block.objects \ {i} : Apart(o, block.objects[j]) BY DEF BlockOK
<1> QED BY <1>5, <1>6, <1>7, <1>8 DEF Apart

(* Every object that alloc_small(), alloc_large(), alloc_sarray() and      *)
(* alloc_barray() return lies in the block that malloc() gave for it,      *)
(* behind the block's header, aligned wherever malloc() placed the block,  *)
(* and shares no byte with another object: for every size and number of    *)
(* objects, every slop and every chunk size, through errors and the        *)
(* freeing of pools.                                                       *)
THEOREM PlacesSafe == PoolsSpec => []ObjectsInPlace
<1>1. PoolsInit => PlacesInv BY InitKeeps
<1>2. PlacesInv /\ [PoolsNext]_poolVars => PlacesInv' BY NextKeeps
<1>3. PlacesInv => ObjectsInPlace
  <2> SUFFICES ASSUME PlacesInv, NEW pool \in Pools, NEW block \in Blocks(pool)
               PROVE  BlockOK(block)
    BY BlockIsInPlace DEF ObjectsInPlace
  <2> QED BY DEF PlacesInv, ListsOK, Blocks
<1> QED BY <1>1, <1>2, <1>3, PTL DEF PoolsSpec

-----------------------------------------------------------------------------
(* What the blocks of a list take together: n, added up block by block. *)
Sums(blocks, n) ==
    \E s \in [0 .. Len(blocks) -> Int] :
        /\ s[0] = 0 /\ s[Len(blocks)] = n
        /\ \A i \in 1 .. Len(blocks) : s[i] = s[i - 1] + blocks[i].size

LEMMA NoSum ==
    ASSUME NEW n, Sums(<<>>, n)
    PROVE  n = 0
BY DEF Sums

LEMMA NoBlocksSum == Sums(<<>>, 0)
<1> DEFINE s == [i \in 0 .. 0 |-> 0]
<1>1. s \in [0 .. Len(<<>>) -> Int] /\ s[0] = 0 /\ s[Len(<<>>)] = 0 OBVIOUS
<1>2. 1 .. Len(<<>>) = {} OBVIOUS
<1> HIDE DEF s
<1> QED BY <1>1, <1>2 DEF Sums

LEMMA SumIsInt ==
    ASSUME NEW blocks \in Seq(BlockType), NEW n, Sums(blocks, n)
    PROVE  n \in Int
<1>1. Len(blocks) \in 0 .. Len(blocks) OBVIOUS
<1> QED BY <1>1 DEF Sums

(* A block takes its size, wherever it is in the list. *)
LEMMA AppendedSum ==
    ASSUME NEW blocks \in Seq(BlockType), NEW b \in BlockType, NEW n, Sums(blocks, n)
    PROVE  Sums(Append(blocks, b), n + b.size)
<1> DEFINE m == Len(blocks)
           new == Append(blocks, b)
<1>1. PICK s \in [0 .. m -> Int] :
          /\ s[0] = 0 /\ s[m] = n
          /\ \A i \in 1 .. m : s[i] = s[i - 1] + blocks[i].size
  BY DEF Sums
<1>2. m \in Nat /\ b.size \in Int /\ n \in Int
  <2>1. b.size \in Int BY DEF BlockType
  <2>2. n \in Int BY SumIsInt
  <2> QED BY <2>1, <2>2
<1>3. Len(new) = m + 1 /\ new[m + 1] = b /\ \A i \in 1 .. m : new[i] = blocks[i]
  BY <1>2
<1> HIDE DEF m, new
<1> DEFINE t == [i \in 0 .. m + 1 |-> IF i = m + 1 THEN n + b.size ELSE s[i]]
<1>4. \A i \in 0 .. m : t[i] = s[i] /\ s[i] \in Int BY <1>1, <1>2
<1>5. t[m + 1] = n + b.size BY <1>2
<1>6. t \in [0 .. m + 1 -> Int] BY <1>1, <1>2
<1>7. t[0] = 0 BY <1>1, <1>2, <1>4
<1> HIDE DEF t
<1>8. ASSUME NEW i \in 1 .. m + 1 PROVE t[i] = t[i - 1] + new[i].size
  <2>1. CASE i = m + 1
    <3>1. i - 1 = m /\ m \in 0 .. m BY <1>2, <2>1
    <3> QED BY <1>1, <1>3, <1>4, <1>5, <2>1, <3>1
  <2>2. CASE i # m + 1
    <3>1. i \in 1 .. m /\ i \in 0 .. m /\ i - 1 \in 0 .. m BY <1>2, <2>2
    <3> QED BY <1>1, <1>3, <1>4, <3>1
  <2> QED BY <2>1, <2>2
<1>9. Sums(new, t[m + 1]) BY <1>3, <1>6, <1>7, <1>8 DEF Sums
<1> QED BY <1>5, <1>9 DEF new

LEMMA FrontSum ==
    ASSUME NEW blocks \in Seq(BlockType), blocks # <<>>, NEW n, Sums(blocks, n)
    PROVE  Sums(SubSeq(blocks, 1, Len(blocks) - 1), n - blocks[Len(blocks)].size)
<1> DEFINE m == Len(blocks) - 1
           new == SubSeq(blocks, 1, m)
<1>1. PICK s \in [0 .. m + 1 -> Int] :
          /\ s[0] = 0 /\ s[m + 1] = n
          /\ \A i \in 1 .. m + 1 : s[i] = s[i - 1] + blocks[i].size
  <2>1. Len(blocks) = m + 1 OBVIOUS
  <2> QED BY <2>1 DEF Sums
<1>2. m \in Nat /\ Len(blocks) = m + 1 /\ n \in Int BY SumIsInt
<1>3. Len(new) = m /\ \A i \in 1 .. m : new[i] = blocks[i]
  <2>1. \A i \in 1 .. m : blocks[i] \in BlockType BY <1>2
  <2> HIDE DEF m
  <2>2. /\ Len(new) = IF 1 <= m THEN m - 1 + 1 ELSE 0
        /\ \A i \in 1 .. m - 1 + 1 : new[i] = blocks[1 + i - 1]
    BY <1>2, <2>1, SubSeqProperties
  <2> QED BY <1>2, <2>2
<1>4. blocks[m + 1].size \in Int
  <2>1. blocks[m + 1] \in BlockType BY <1>2
  <2> QED BY <2>1 DEF BlockType
<1> HIDE DEF m, new
<1> DEFINE t == [i \in 0 .. m |-> s[i]]
<1>5. t \in [0 .. m -> Int] /\ \A i \in 0 .. m : t[i] = s[i] BY <1>1, <1>2
<1> HIDE DEF t
<1>6. t[0] = 0 BY <1>1, <1>2, <1>5
<1>7. t[m] = n - blocks[m + 1].size
  <2>1. m + 1 \in 1 .. m + 1 /\ m + 1 - 1 = m /\ m \in 0 .. m + 1 /\ m \in 0 .. m BY <1>2
  <2>2. n = s[m] + blocks[m + 1].size /\ s[m] \in Int BY <1>1, <2>1
  <2> QED BY <1>2, <1>4, <1>5, <2>1, <2>2
<1>8. ASSUME NEW i \in 1 .. m PROVE t[i] = t[i - 1] + new[i].size
  <2>1. i \in 0 .. m /\ i - 1 \in 0 .. m /\ i \in 1 .. m + 1 BY <1>2
  <2> QED BY <1>1, <1>3, <1>5, <2>1
<1>9. Sums(new, t[m]) BY <1>3, <1>5, <1>6, <1>8 DEF Sums
<1> QED BY <1>2, <1>7, <1>9 DEF new, m

LEMMA TailSum ==
    ASSUME NEW blocks \in Seq(BlockType), blocks # <<>>, NEW n, Sums(blocks, n)
    PROVE  Sums(Tail(blocks), n - blocks[1].size)
<1> DEFINE m == Len(blocks) - 1
           new == Tail(blocks)
<1>1. PICK s \in [0 .. m + 1 -> Int] :
          /\ s[0] = 0 /\ s[m + 1] = n
          /\ \A i \in 1 .. m + 1 : s[i] = s[i - 1] + blocks[i].size
  <2>1. Len(blocks) = m + 1 OBVIOUS
  <2> QED BY <2>1 DEF Sums
<1>2. m \in Nat /\ Len(blocks) = m + 1 /\ n \in Int BY SumIsInt
<1>3. Len(new) = m /\ \A i \in 1 .. m : new[i] = blocks[i + 1] BY HeadTailProperties
<1>4. blocks[1].size \in Int
  <2>1. blocks[1] \in BlockType BY <1>2
  <2> QED BY <2>1 DEF BlockType
<1> HIDE DEF m, new
<1> DEFINE t == [i \in 0 .. m |-> s[i + 1] - blocks[1].size]
<1>5. /\ t \in [0 .. m -> Int]
      /\ \A i \in 0 .. m : t[i] = s[i + 1] - blocks[1].size /\ s[i + 1] \in Int
  <2>1. \A i \in 0 .. m : i + 1 \in 0 .. m + 1 BY <1>2
  <2> QED BY <1>1, <1>4, <2>1
<1> HIDE DEF t
<1>6. t[0] = 0
  <2>1. 1 \in 1 .. m + 1 /\ 0 \in 0 .. m /\ 0 + 1 = 1 /\ 1 - 1 = 0 BY <1>2
  <2>2. s[1] = 0 + blocks[1].size BY <1>1, <2>1
  <2> QED BY <1>4, <1>5, <2>1, <2>2
<1>7. t[m] = n - blocks[1].size
  <2>1. m \in 0 .. m BY <1>2
  <2> QED BY <1>1, <1>5, <2>1
<1>8. ASSUME NEW i \in 1 .. m PROVE t[i] = t[i - 1] + new[i].size
  <2>1. /\ i \in 0 .. m /\ i - 1 \in 0 .. m /\ i + 1 \in 1 .. m + 1
        /\ i - 1 + 1 = i /\ i + 1 - 1 = i
    BY <1>2
  <2>2. s[i + 1] = s[i] + new[i].size BY <1>1, <1>3, <2>1
  <2>3. blocks[i + 1] \in BlockType BY <1>2, <2>1
  <2>4. new[i].size \in Int BY <1>3, <2>3 DEF BlockType
  <2>5. t[i] = s[i + 1] - blocks[1].size /\ t[i - 1] = s[i] - blocks[1].size
        /\ s[i] \in Int
    BY <1>5, <2>1
  <2> QED BY <1>4, <2>2, <2>4, <2>5
<1>9. Sums(new, t[m]) BY <1>3, <1>5, <1>6, <1>8 DEF Sums
<1> QED BY <1>7, <1>9 DEF new

LEMMA SumKept ==
    ASSUME NEW blocks \in Seq(BlockType), NEW i \in DOMAIN blocks, NEW b,
           b.size = blocks[i].size, NEW n, Sums(blocks, n)
    PROVE  Sums([blocks EXCEPT ![i] = b], n)
<1> DEFINE new == [blocks EXCEPT ![i] = b]
<1>1. Len(new) = Len(blocks) OBVIOUS
<1>2. \A j \in 1 .. Len(blocks) : new[j].size = blocks[j].size OBVIOUS
<1> HIDE DEF new
<1>3. Sums(new, n) BY <1>1, <1>2 DEF Sums
<1> QED BY <1>3 DEF new

-----------------------------------------------------------------------------
(* The space of all pools *)

Together(list, n) ==
    \E sums \in [Pools -> Int] :
        /\ \A pool \in Pools : Sums(list[pool], sums[pool])
        /\ n = sums[JPOOL_PERMANENT] + sums[JPOOL_IMAGE]

(* The blocks of all pools and the manager itself are what it believes it  *)
(* holds.                                                                  *)
Held ==
    \E small \in Int, large \in Int :
        /\ Together(small_list, small) /\ Together(large_list, large)
        /\ total_space_allocated = ControlSize + small + large

Ledger ==
    /\ Held
    /\ available \in Int
    /\ total_space_allocated + available = SystemMemory

LEMMA TogetherChanged ==
    ASSUME NEW list \in [Pools -> Seq(BlockType)], NEW n \in Int, Together(list, n),
           NEW pool \in Pools, NEW blocks, NEW d \in Int,
           \A m \in Int : Sums(list[pool], m) => Sums(blocks, m + d)
    PROVE  Together([list EXCEPT ![pool] = blocks], n + d)
<1> DEFINE new == [list EXCEPT ![pool] = blocks]
<1>1. PICK sums \in [Pools -> Int] :
          /\ \A p \in Pools : Sums(list[p], sums[p])
          /\ n = sums[JPOOL_PERMANENT] + sums[JPOOL_IMAGE]
  BY DEF Together
<1> DEFINE added == [sums EXCEPT ![pool] = @ + d]
<1>2. \A p \in Pools : added[p] = IF p = pool THEN sums[p] + d ELSE sums[p] BY <1>1
<1>3. added \in [Pools -> Int] BY <1>1
<1>4. \A p \in Pools : new[p] = IF p = pool THEN blocks ELSE list[p] OBVIOUS
<1>5. n + d = added[JPOOL_PERMANENT] + added[JPOOL_IMAGE]
  <2>1. /\ JPOOL_PERMANENT \in Pools /\ JPOOL_IMAGE \in Pools
        /\ JPOOL_PERMANENT # JPOOL_IMAGE /\ pool \in {JPOOL_PERMANENT, JPOOL_IMAGE}
    BY DEF Pools, JPOOL_PERMANENT, JPOOL_IMAGE
  <2>2. sums[JPOOL_PERMANENT] \in Int /\ sums[JPOOL_IMAGE] \in Int BY <1>1, <2>1
  <2> HIDE DEF added
  <2>3. CASE pool = JPOOL_PERMANENT BY <1>1, <1>2, <2>1, <2>2, <2>3
  <2>4. CASE pool = JPOOL_IMAGE BY <1>1, <1>2, <2>1, <2>2, <2>4
  <2> QED BY <2>1, <2>3, <2>4
<1> HIDE DEF added, new
<1>6. \A p \in Pools : Sums(new[p], added[p]) BY <1>1, <1>2, <1>4
<1>7. Together(new, n + d) BY <1>3, <1>5, <1>6 DEF Together
<1> QED BY <1>7 DEF new

LEMMA TogetherAppended ==
    ASSUME NEW list, ListsOK(list), NEW n \in Int, Together(list, n),
           NEW pool \in Pools, NEW b \in BlockType
    PROVE  b.size \in Int /\ Together([list EXCEPT ![pool] = Append(@, b)], n + b.size)
<1>1. list \in [Pools -> Seq(BlockType)] /\ list[pool] \in Seq(BlockType) BY DEF ListsOK
<1>2. b.size \in Int BY DEF BlockType
<1> DEFINE blocks == Append(list[pool], b)
<1>3. \A m \in Int : Sums(list[pool], m) => Sums(blocks, m + b.size)
  BY <1>1, AppendedSum
<1>4. Together([list EXCEPT ![pool] = blocks], n + b.size)
  <2> HIDE DEF blocks
  <2> QED BY <1>1, <1>2, <1>3, TogetherChanged
<1> QED BY <1>1, <1>2, <1>4

LEMMA TogetherReplaced ==
    ASSUME NEW list, ListsOK(list), NEW n \in Int, Together(list, n),
           NEW pool \in Pools, NEW i \in DOMAIN list[pool], NEW b,
           b.size = list[pool][i].size
    PROVE  Together([list EXCEPT ![pool][i] = b], n)
<1>1. list \in [Pools -> Seq(BlockType)] /\ list[pool] \in Seq(BlockType) BY DEF ListsOK
<1> DEFINE blocks == [list[pool] EXCEPT ![i] = b]
<1>2. \A m \in Int : Sums(list[pool], m) => Sums(blocks, m + 0)
  <2>1. \A m \in Int : Sums(list[pool], m) => Sums(blocks, m) BY <1>1, SumKept
  <2>2. \A m \in Int : m + 0 = m OBVIOUS
  <2> HIDE DEF blocks
  <2> QED BY <2>1, <2>2
<1>3. Together([list EXCEPT ![pool] = blocks], n + 0)
  <2> HIDE DEF blocks
  <2>1. PICK d \in Int : d = 0 OBVIOUS
  <2>2. \A m \in Int : Sums(list[pool], m) => Sums(blocks, m + d) BY <1>2, <2>1
  <2>3. Together([list EXCEPT ![pool] = blocks], n + d)
    BY <1>1, <2>2, TogetherChanged
  <2> QED BY <2>1, <2>3
<1>4. n + 0 = n OBVIOUS
<1>5. [list EXCEPT ![pool][i] = b] = [list EXCEPT ![pool] = blocks] BY <1>1
<1> QED BY <1>3, <1>4, <1>5

(* The block that is given back leaves the rest. *)
LEMMA TogetherWithout ==
    ASSUME NEW list, ListsOK(list), NEW n \in Int, Together(list, n),
           NEW pool \in Pools, list[pool] # <<>>
    PROVE  /\ LET b == list[pool][Len(list[pool])]
              IN  /\ b.size \in Int /\ FreedSpace(b) = b.size
                  /\ Together([list EXCEPT ![pool] = SubSeq(@, 1, Len(@) - 1)], n - b.size)
           /\ LET b == Head(list[pool])
              IN  /\ b.size \in Int /\ FreedSpace(b) = b.size
                  /\ Together([list EXCEPT ![pool] = Tail(@)], n - b.size)
<1> DEFINE blocks == list[pool]
<1>1. list \in [Pools -> Seq(BlockType)] /\ blocks \in Seq(BlockType) BY DEF ListsOK
<1>2. /\ 1 \in DOMAIN blocks /\ Len(blocks) \in DOMAIN blocks /\ Head(blocks) = blocks[1]
  BY <1>1
<1>3. \A i \in DOMAIN blocks : blocks[i].size \in Int /\ FreedSpace(blocks[i]) = blocks[i].size
  <2>1. \A i \in DOMAIN blocks : BlockOK(blocks[i]) BY DEF ListsOK
  <2> QED BY <2>1 DEF BlockOK, BlockType
<1>4. ASSUME NEW i \in DOMAIN blocks, NEW rest,
             \A m \in Int : Sums(blocks, m) => Sums(rest, m - blocks[i].size)
      PROVE  Together([list EXCEPT ![pool] = rest], n - blocks[i].size)
  <2>1. blocks[i].size \in Int BY <1>3
  <2>2. PICK d \in Int : d = 0 - blocks[i].size BY <2>1
  <2>3. \A m \in Int : m + d = m - blocks[i].size BY <2>1, <2>2
  <2>4. \A m \in Int : Sums(blocks, m) => Sums(rest, m + d) BY <1>4, <2>3
  <2>5. Together([list EXCEPT ![pool] = rest], n + d)
    BY <1>1, <2>4, TogetherChanged
  <2> QED BY <2>3, <2>5
<1>5. \A m \in Int : Sums(blocks, m) =>
          Sums(SubSeq(blocks, 1, Len(blocks) - 1), m - blocks[Len(blocks)].size)
  BY <1>1, FrontSum
<1>6. \A m \in Int : Sums(blocks, m) => Sums(Tail(blocks), m - blocks[1].size)
  BY <1>1, TailSum
<1> HIDE DEF blocks
<1>7. Together([list EXCEPT ![pool] = SubSeq(blocks, 1, Len(blocks) - 1)],
               n - blocks[Len(blocks)].size)
  BY <1>2, <1>4, <1>5
<1>8. Together([list EXCEPT ![pool] = Tail(blocks)], n - blocks[1].size)
  BY <1>2, <1>4, <1>6
<1> QED BY <1>1, <1>2, <1>3, <1>7, <1>8 DEF blocks

LEMMA NothingTogether ==
    ASSUME NEW list, \A pool \in Pools : list[pool] = <<>>
    PROVE  Together(list, 0) /\ \A n : Together(list, n) => n = 0
<1>1. JPOOL_PERMANENT \in Pools /\ JPOOL_IMAGE \in Pools BY DEF Pools
<1>2. Together(list, 0)
  <2> DEFINE none == [pool \in Pools |-> 0]
  <2>1. none \in [Pools -> Int] /\ \A pool \in Pools : none[pool] = 0 OBVIOUS
  <2> HIDE DEF none
  <2>2. \A pool \in Pools : Sums(list[pool], none[pool]) BY <2>1, NoBlocksSum
  <2>3. 0 = none[JPOOL_PERMANENT] + none[JPOOL_IMAGE] BY <1>1, <2>1
  <2> QED BY <2>1, <2>2, <2>3 DEF Together
<1>3. ASSUME NEW n, Together(list, n) PROVE n = 0
  <2>1. PICK sums \in [Pools -> Int] :
            /\ \A pool \in Pools : Sums(list[pool], sums[pool])
            /\ n = sums[JPOOL_PERMANENT] + sums[JPOOL_IMAGE]
    BY <1>3 DEF Together
  <2>2. \A pool \in Pools : sums[pool] = 0 BY <2>1, NoSum
  <2> QED BY <1>1, <2>1, <2>2
<1> QED BY <1>2, <1>3

-----------------------------------------------------------------------------
(* Allocation and the ledger *)

LEMMA LedgerUnchanged ==
    ASSUME Ledger, UNCHANGED <<lists, space>>
    PROVE  Ledger'
BY DEF Ledger, Held, lists, space

LEMMA AllocSmallAccounts ==
    ASSUME ListsOK(small_list), Ledger, NEW pool \in Pools, NEW size \in Nat,
           alloc_small(pool, size), large_list' = large_list
    PROVE  Ledger'
<1> DEFINE n == round_up_pow2(size, ALIGN_SIZE)
<1>1. n \in Nat BY RoundedUp
<1>2. FromBlock(pool, n) \/ FromNewBlock(pool, n) BY DEF alloc_small
<1> HIDE DEF n
<1>3. PICK small \in Int, large \in Int :
          /\ Together(small_list, small) /\ Together(large_list, large)
          /\ total_space_allocated = ControlSize + small + large
  BY DEF Ledger, Held
<1>4. CASE FromBlock(pool, n)
  <2>1. PICK i \in DOMAIN small_list[pool] :
            small_list' = [small_list EXCEPT ![pool][i] = WithObject(small_list[pool][i], n)]
    BY <1>4 DEF FromBlock, ListsOK
  <2>2. WithObject(small_list[pool][i], n).size = small_list[pool][i].size
    <3>1. small_list[pool][i] \in BlockType BY DEF ListsOK
    <3> QED BY <3>1 DEF WithObject, BlockType
  <2>3. Together(small_list', small)
    <3>1. PICK b : b = WithObject(small_list[pool][i], n) OBVIOUS
    <3> QED BY <1>3, <2>1, <2>2, <3>1, TogetherReplaced
  <2>4. UNCHANGED space BY <1>4 DEF FromBlock
  <2> QED BY <1>3, <2>3, <2>4 DEF Ledger, Held, space
<1>5. CASE FromNewBlock(pool, n)
  <2>1. PICK slop \in SlopFor(pool, Overhead + n), base \in Misalignments :
            /\ Got(Overhead + n + slop)
            /\ small_list' = [small_list EXCEPT ![pool] =
                   Append(@, WithObject(Block(base, Overhead + n + slop, n + slop), n))]
    BY <1>5 DEF FromNewBlock
  <2>2. slop \in Nat
    <3>1. Overhead + n \in Nat BY <1>1, Parameters
    <3> QED BY <2>1, <3>1, SlopsAreNat
  <2> DEFINE b == WithObject(Block(base, Overhead + n + slop, n + slop), n)
  <2>3. b \in BlockType /\ b.size = Overhead + n + slop
    <3>1. n + slop \in Nat /\ Overhead + n + slop = Overhead + (n + slop)
      BY <1>1, <2>2, Parameters
    <3>2. BlockOK(Block(base, Overhead + (n + slop), n + slop))
      BY <3>1, NewBlockOK
    <3>3. n % ALIGN_SIZE = 0 BY RoundedUp DEF n
    <3>4. n <= Block(base, Overhead + (n + slop), n + slop).bytes_left
      BY <1>1, <2>2 DEF Block
    <3>5. BlockOK(b) BY <1>1, <3>1, <3>2, <3>3, <3>4, WithObjectOK
    <3>6. b.size = Overhead + n + slop BY DEF Block, WithObject
    <3> QED BY <3>5, <3>6 DEF BlockOK
  <2> HIDE DEF b
  <2>4. small_list' = [small_list EXCEPT ![pool] = Append(@, b)] BY <2>1 DEF b
  <2>5. Together(small_list', small + b.size)
    BY <1>3, <2>3, <2>4, TogetherAppended
  <2>6. /\ available' = available - b.size
        /\ total_space_allocated' = total_space_allocated + b.size
    BY <2>1, <2>3 DEF Got
  <2>7. b.size \in Int BY <2>3 DEF BlockType
  <2>8. total_space_allocated' = ControlSize + (small + b.size) + large
    BY <1>3, <2>6, <2>7, Parameters
  <2>9. small + b.size \in Int BY <1>3, <2>7
  <2>10. Held' BY <1>3, <2>5, <2>8, <2>9 DEF Held
  <2>11. /\ available' \in Int
         /\ total_space_allocated' + available' = SystemMemory
    BY <1>3, <2>6, <2>7, Parameters DEF Ledger
  <2> QED BY <2>10, <2>11 DEF Ledger
<1> QED BY <1>2, <1>4, <1>5

LEMMA AllocLargeAccounts ==
    ASSUME ListsOK(large_list), Ledger, NEW pool \in Pools, NEW rows \in Nat,
           NEW length \in Nat, length % ALIGN_SIZE = 0 \/ rows = 1,
           alloc_large(pool, rows, length), small_list' = small_list
    PROVE  Ledger'
<1> DEFINE n == round_up_pow2(rows * length, ALIGN_SIZE)
<1>1. n \in Nat
  <2>1. rows * length \in Nat OBVIOUS
  <2> QED BY <2>1, RoundedUp
<1>2. PICK base \in Misalignments :
          /\ Got(Overhead + n)
          /\ large_list' = [large_list EXCEPT ![pool] =
                                Append(@, LargeBlock(base, n, rows, length))]
  BY DEF alloc_large
<1> DEFINE b == LargeBlock(base, n, rows, length)
<1>3. b \in BlockType
  <2>1. BlockOK(b) BY LargeBlockOK
  <2> QED BY <2>1 DEF BlockOK
<1> HIDE DEF n
<1>4. b.size = Overhead + n BY DEF LargeBlock, Block
<1> HIDE DEF b
<1>5. large_list' = [large_list EXCEPT ![pool] = Append(@, b)] BY <1>2 DEF b
<1>6. PICK small \in Int, large \in Int :
          /\ Together(small_list, small) /\ Together(large_list, large)
          /\ total_space_allocated = ControlSize + small + large
  BY DEF Ledger, Held
<1>7. Together(large_list', large + b.size) BY <1>3, <1>5, <1>6, TogetherAppended
<1>8. /\ available' = available - b.size
      /\ total_space_allocated' = total_space_allocated + b.size
  BY <1>2, <1>4 DEF Got
<1>9. b.size \in Int BY <1>3 DEF BlockType
<1>10. total_space_allocated' = ControlSize + small + (large + b.size)
  BY <1>6, <1>8, <1>9, Parameters
<1>11. large + b.size \in Int BY <1>6, <1>9
<1>12. Held' BY <1>6, <1>7, <1>10, <1>11 DEF Held
<1>13. /\ available' \in Int
       /\ total_space_allocated' + available' = SystemMemory
  BY <1>6, <1>8, <1>9, Parameters DEF Ledger
<1> QED BY <1>12, <1>13 DEF Ledger

LEMMA FreeBlockAccounts ==
    ASSUME PlacesInv, Ledger, FreeLarge \/ FreeSmall
    PROVE  Ledger'
<1> DEFINE pool == Head(doing.pools)
<1>1. pool \in Pools
  <2>1. doing.pools \in Seq(Pools) /\ doing.pools # <<>>
    BY DEF FreeLarge, FreeSmall, PlacesInv, DoingOK
  <2> QED BY <2>1
<1>2. ListsOK(small_list) /\ ListsOK(large_list) BY DEF PlacesInv
<1>3. PICK small \in Int, large \in Int :
          /\ Together(small_list, small) /\ Together(large_list, large)
          /\ total_space_allocated = ControlSize + small + large
  BY DEF Ledger, Held
<1>4. CASE FreeLarge
  <2>1. /\ large_list[pool] # <<>> /\ GiveBack(large_list[pool][Len(large_list[pool])])
        /\ large_list' = [large_list EXCEPT ![pool] = SubSeq(@, 1, Len(@) - 1)]
        /\ small_list' = small_list
    BY <1>4 DEF FreeLarge
  <2> HIDE DEF pool
  <2>2. PICK b : b = large_list[pool][Len(large_list[pool])] OBVIOUS
  <2>3. /\ b.size \in Int /\ FreedSpace(b) = b.size
        /\ Together(large_list', large - b.size)
    BY <1>1, <1>2, <1>3, <2>1, <2>2, TogetherWithout
  <2>4. /\ available' = available + b.size
        /\ total_space_allocated' = total_space_allocated - b.size
    BY <2>1, <2>2, <2>3 DEF GiveBack
  <2>5. total_space_allocated' = ControlSize + small + (large - b.size)
    BY <1>3, <2>3, <2>4, Parameters
  <2>6. large - b.size \in Int BY <1>3, <2>3
  <2>7. Held' BY <1>3, <2>1, <2>3, <2>5, <2>6 DEF Held
  <2>8. available' \in Int /\ total_space_allocated' + available' = SystemMemory
    BY <1>3, <2>3, <2>4, Parameters DEF Ledger
  <2> QED BY <2>7, <2>8 DEF Ledger
<1>5. CASE FreeSmall
  <2>1. /\ small_list[pool] # <<>> /\ GiveBack(Head(small_list[pool]))
        /\ small_list' = [small_list EXCEPT ![pool] = Tail(@)]
        /\ large_list' = large_list
    BY <1>5 DEF FreeSmall
  <2> HIDE DEF pool
  <2>2. PICK b : b = Head(small_list[pool]) OBVIOUS
  <2>3. /\ b.size \in Int /\ FreedSpace(b) = b.size
        /\ Together(small_list', small - b.size)
    BY <1>1, <1>2, <1>3, <2>1, <2>2, TogetherWithout
  <2>4. /\ available' = available + b.size
        /\ total_space_allocated' = total_space_allocated - b.size
    BY <2>1, <2>2, <2>3 DEF GiveBack
  <2>5. total_space_allocated' = ControlSize + (small - b.size) + large
    BY <1>3, <2>3, <2>4, Parameters
  <2>6. small - b.size \in Int BY <1>3, <2>3
  <2>7. Held' BY <1>3, <2>1, <2>3, <2>5, <2>6 DEF Held
  <2>8. available' \in Int /\ total_space_allocated' + available' = SystemMemory
    BY <1>3, <2>3, <2>4, Parameters DEF Ledger
  <2> QED BY <2>7, <2>8 DEF Ledger
<1> QED BY <1>4, <1>5

-----------------------------------------------------------------------------
(* Chunks of rows *)

(* alloc_sarray() and alloc_barray() do not count what alloc_large() adds  *)
(* for the alignment of a chunk.  It is there all the same if the space    *)
(* that the header takes of the largest chunk, which is of whole rows, has *)
(* room for it: of 64 bytes, header and alignment take 55 with SIMD (24    *)
(* and 31, or 12 and 31 in a 32-bit build), and 31 of 32 without (24 and   *)
(* 7); in a 32-bit build without SIMD, they take 19 of 16.                 *)
ChunksFit ==
    /\ MAX_ALLOC_CHUNK % (2 * ALIGN_SIZE) = 0
    /\ BlockSize % (2 * ALIGN_SIZE) = 0
    /\ Overhead <= round_up_pow2(HeaderSize, 2 * ALIGN_SIZE)

LEMMA ChunkIsNotTooBig ==
    ASSUME ChunksFit, NEW size \in Nat, size % (2 * ALIGN_SIZE) = 0,
           size <= MAX_ALLOC_CHUNK - HeaderSize
    PROVE  ~TooBig(size)
<1>1. ALIGN_SIZE \in {2, 4, 8, 16, 32} /\ HeaderSize \in Nat /\ MAX_ALLOC_CHUNK \in Nat
  BY PoolsAssumption
<1>2. size <= MAX_ALLOC_CHUNK BY <1>1
<1>3. HeaderSize + round_up_pow2(size, ALIGN_SIZE) + ALIGN_SIZE - 1 <= MAX_ALLOC_CHUNK
  <2>1. CASE ALIGN_SIZE = 2 BY <1>1, <2>1 DEF ChunksFit, Overhead, round_up_pow2
  <2>2. CASE ALIGN_SIZE = 4 BY <1>1, <2>2 DEF ChunksFit, Overhead, round_up_pow2
  <2>3. CASE ALIGN_SIZE = 8 BY <1>1, <2>3 DEF ChunksFit, Overhead, round_up_pow2
  <2>4. CASE ALIGN_SIZE = 16 BY <1>1, <2>4 DEF ChunksFit, Overhead, round_up_pow2
  <2>5. CASE ALIGN_SIZE = 32 BY <1>1, <2>5 DEF ChunksFit, Overhead, round_up_pow2
  <2> QED BY <1>1, <2>1, <2>2, <2>3, <2>4, <2>5
<1>4. round_up_pow2(size, ALIGN_SIZE) \in Nat BY RoundedUp
<1> QED BY <1>1, <1>2, <1>3, <1>4 DEF TooBig

LEMMA TwiceAligned ==
    ASSUME NEW length \in Nat, NEW k \in Nat, length % (2 * ALIGN_SIZE) = 0
    PROVE  (k * length) % (2 * ALIGN_SIZE) = 0
<1>1. ALIGN_SIZE \in {2, 4, 8, 16, 32} BY PoolsAssumption
<1>2. PICK d \in Nat \ {0} : d = 2 * ALIGN_SIZE BY <1>1
<1>3. PICK q \in Nat : length = d * q
  <2>1. length \div d \in Nat /\ length = d * (length \div d)
    <3>1. d \in {4, 8, 16, 32, 64} BY <1>1, <1>2
    <3>2. CASE d = 4 BY <1>2, <3>2
    <3>3. CASE d = 8 BY <1>2, <3>3
    <3>4. CASE d = 16 BY <1>2, <3>4
    <3>5. CASE d = 32 BY <1>2, <3>5
    <3>6. CASE d = 64 BY <1>2, <3>6
    <3> QED BY <3>1, <3>2, <3>3, <3>4, <3>5, <3>6
  <2> QED BY <2>1
<1>4. k * length = d * (k * q) BY <1>3
<1>5. PICK x \in Nat : x = k * q OBVIOUS
<1>6. (d * x) % d = 0
  <2>1. d \in {4, 8, 16, 32, 64} BY <1>1, <1>2
  <2> QED BY <2>1
<1> QED BY <1>2, <1>4, <1>5, <1>6

LEMMA RowsTwiceAligned ==
    ASSUME ChunksFit, NEW array, array.width \in Nat \ {0}
    PROVE  RowBytes(array) % (2 * ALIGN_SIZE) = 0
<1>1. CASE array.of = "samples"
  <2>1. RowBytes(array) = round_up_pow2(array.width, 2 * ALIGN_SIZE) BY <1>1 DEF RowBytes
  <2>2. ALIGN_SIZE \in {2, 4, 8, 16, 32} BY PoolsAssumption
  <2>3. PICK w \in Nat : w = array.width OBVIOUS
  <2>4. round_up_pow2(w, 2 * ALIGN_SIZE) % (2 * ALIGN_SIZE) = 0
    <3>1. CASE ALIGN_SIZE = 2 BY <3>1 DEF round_up_pow2
    <3>2. CASE ALIGN_SIZE = 4 BY <3>2 DEF round_up_pow2
    <3>3. CASE ALIGN_SIZE = 8 BY <3>3 DEF round_up_pow2
    <3>4. CASE ALIGN_SIZE = 16 BY <3>4 DEF round_up_pow2
    <3>5. CASE ALIGN_SIZE = 32 BY <3>5 DEF round_up_pow2
    <3> QED BY <2>2, <3>1, <3>2, <3>3, <3>4, <3>5
  <2> QED BY <2>1, <2>3, <2>4
<1>2. CASE array.of # "samples"
  <2>1. RowBytes(array) = array.width * BlockSize BY <1>2 DEF RowBytes
  <2>2. BlockSize \in Nat /\ array.width \in Nat BY Parameters
  <2>3. (array.width * BlockSize) % (2 * ALIGN_SIZE) = 0
    BY <2>2, TwiceAligned DEF ChunksFit
  <2> QED BY <2>1, <2>3
<1> QED BY <1>1, <1>2

LEMMA Quotient ==
    ASSUME NEW x \in Int, NEW d \in Nat \ {0}
    PROVE  (x \div d) * d <= x
OBVIOUS

LEMMA FewerRows ==
    ASSUME NEW a \in Nat, NEW b \in Nat, a <= b, NEW length \in Nat
    PROVE  a * length <= b * length
<1>1. PICK c \in Nat : b = a + c
  <2>1. b - a \in Nat /\ b = a + (b - a) OBVIOUS
  <2> QED BY <2>1
<1>2. b * length = a * length + c * length BY <1>1
<1>3. c * length \in Nat /\ a * length \in Nat OBVIOUS
<1> QED BY <1>2, <1>3

(* What the rows of an array are to be taken in. *)
LEMMA BeginArrayFits ==
    ASSUME ChunksFit, NEW pool, NEW array, array.width \in Nat \ {0}, NEW rows \in Nat \ {0},
           NEW number, NEW m, BeginArray(pool, array, rows, number, m)
    PROVE  LET r == last_rowsperchunk'
           IN  /\ r \in Nat \ {0}
               /\ doing' = [at |-> "rows", pool |-> pool, length |-> RowBytes(array),
                            numrows |-> rows, rowsperchunk |-> r, chunks |-> <<>>,
                            number |-> number, max_minheights |-> m]
               /\ RowBytes(array) % (2 * ALIGN_SIZE) = 0
               /\ r * RowBytes(array) <= MAX_ALLOC_CHUNK - HeaderSize
<1> DEFINE r == Smaller(MaxRows(array), rows)
<1>1. /\ ~TooWide(array) /\ last_rowsperchunk' = r
      /\ doing' = [at |-> "rows", pool |-> pool, length |-> RowBytes(array),
                   numrows |-> rows, rowsperchunk |-> r, chunks |-> <<>>,
                   number |-> number, max_minheights |-> m]
  BY DEF BeginArray
<1>2. RowBytes(array) \in Nat \ {0} BY RowBytesAligned
<1>3. MaxRows(array) \in Nat \ {0}
  <2>1. MaxRows(array) \in Nat BY <1>1, RowsThatFit
  <2> QED BY <1>1, <2>1 DEF TooWide
<1>4. r \in Nat \ {0} /\ r <= MaxRows(array) BY <1>3 DEF Smaller
<1>5. MaxRows(array) * RowBytes(array) <= MAX_ALLOC_CHUNK - HeaderSize
  <2>1. MAX_ALLOC_CHUNK - HeaderSize \in Int BY Parameters
  <2> QED BY <1>2, <2>1, Quotient DEF MaxRows
<1> HIDE DEF r
<1>6. r * RowBytes(array) <= MAX_ALLOC_CHUNK - HeaderSize
  <2>1. r * RowBytes(array) <= MaxRows(array) * RowBytes(array)
    BY <1>2, <1>3, <1>4, FewerRows
  <2>2. PICK x \in Nat, y \in Nat :
            x = r * RowBytes(array) /\ y = MaxRows(array) * RowBytes(array)
    BY <1>2, <1>3, <1>4
  <2> QED BY <1>5, <2>1, <2>2, Parameters
<1> QED BY <1>1, <1>4, <1>6, RowsTwiceAligned

-----------------------------------------------------------------------------
(* Buffers of virtual arrays *)

(* The chunks of a buffer are of r rows each, except that the last one is  *)
(* of what is left of all the rows.                                        *)
Filled(chunks, r, rows) ==
    /\ \A k \in DOMAIN chunks : chunks[k] = Smaller(r, rows - (k - 1) * r)
    /\ (Len(chunks) - 1) * r < rows

(* A buffer is for the whole array, or for as many times the rows that are *)
(* accessed together as there is space for, which is less.                 *)
ShareTaken(v) ==
    IF v.b_s_open
    THEN \E m \in 1 .. minheightsOf(v.array) - 1 : v.rows_in_mem = m * v.array.maxaccess
    ELSE v.rows_in_mem = v.array.rows

BufferFilled(v) ==
    /\ Filled(v.mem_buffer, v.rowsperchunk, v.rows_in_mem)
    /\ v.rows_in_mem <= Len(v.mem_buffer) * v.rowsperchunk
    /\ ShareTaken(v)

RowsInv ==
    doing.at = "rows" =>
        /\ last_rowsperchunk \in Nat \ {0} /\ doing.rowsperchunk <= last_rowsperchunk
        /\ doing.length % (2 * ALIGN_SIZE) = 0
        /\ last_rowsperchunk * doing.length <= MAX_ALLOC_CHUNK - HeaderSize

(* The buffer that is being allocated: its chunks so far, and that the     *)
(* rows left make up the rest.                                             *)
FillInv ==
    doing.at = "rows" /\ doing.number # 0 =>
        /\ doing.number \in Unrealized /\ doing.max_minheights >= 1
        /\ ShareTaken(virt_list[doing.number])
        /\ LET rows == virt_list[doing.number].rows_in_mem
               r == last_rowsperchunk
           IN  /\ Filled(doing.chunks, r, rows)
               /\ doing.numrows > 0 => /\ rows = Len(doing.chunks) * r + doing.numrows
                                       /\ doing.rowsperchunk = r
               /\ doing.numrows = 0 => rows <= Len(doing.chunks) * r

RealizeInv == doing.at = "realize" => doing.max_minheights >= 1

BufferInv == RowsInv /\ FillInv /\ RealizeInv /\ BuffersAsUsed

LEMMA BuffersAre ==
    BuffersAsUsed <=> \A i \in DOMAIN virt_list \ Unrealized : BufferFilled(virt_list[i])
BY DEF BuffersAsUsed, BufferFilled, Filled, ShareTaken

(* A call that does not allocate rows keeps all buffers. *)
LEMMA BuffersStay ==
    ASSUME BuffersAsUsed, virt_list' = virt_list, doing'.at \notin {"rows", "realize"}
    PROVE  BufferInv'
BY DEF BufferInv, RowsInv, FillInv, RealizeInv, BuffersAsUsed, Unrealized

LEMMA EndedOtherwise ==
    ASSUME doing' \in {Idle, Failed, Closed}
    PROVE  doing'.at \notin {"rows", "realize", "freeing"}
BY DEF Idle, Failed, Closed

LEMMA AllocArrayBuffers ==
    ASSUME ChunksFit, PlacesInv, BufferInv, NEW array \in Arrays, AllocArray(array)
    PROVE  BufferInv'
<1>1. array.width \in Nat \ {0} /\ array.rows \in Nat \ {0} BY PoolsAssumption
<1>2. virt_list' = virt_list /\ BuffersAsUsed BY DEF AllocArray, BufferInv
<1>3. CASE BeginArray(array.pool, array, array.rows, 0, 0)
  <2>1. /\ last_rowsperchunk' \in Nat \ {0}
        /\ doing' = [at |-> "rows", pool |-> array.pool, length |-> RowBytes(array),
                     numrows |-> array.rows, rowsperchunk |-> last_rowsperchunk',
                     chunks |-> <<>>, number |-> 0, max_minheights |-> 0]
        /\ RowBytes(array) % (2 * ALIGN_SIZE) = 0
        /\ last_rowsperchunk' * RowBytes(array) <= MAX_ALLOC_CHUNK - HeaderSize
    BY <1>1, <1>3, BeginArrayFits
  <2>2. RowsInv' BY <2>1 DEF RowsInv
  <2>3. FillInv' /\ RealizeInv' BY <2>1 DEF FillInv, RealizeInv
  <2> QED BY <1>2, <2>2, <2>3 DEF BufferInv, BuffersAsUsed, Unrealized
<1>4. CASE NoArray(array.pool, array, array.rows)
  BY <1>2, <1>4, EndedOtherwise, BuffersStay DEF NoArray
<1> QED BY <1>3, <1>4 DEF AllocArray

LEMMA AllocRowsBuffers ==
    ASSUME PlacesInv, BufferInv, AllocRows
    PROVE  BufferInv'
<1> DEFINE rows == Smaller(doing.rowsperchunk, doing.numrows)
           r == last_rowsperchunk
           n == Len(doing.chunks)
<1>1. /\ doing \in RowsCall /\ doing.at = "rows" /\ doing.numrows \in Nat \ {0}
      /\ doing.rowsperchunk \in Nat /\ doing.chunks \in Seq(Nat) /\ n \in Nat
  BY DEF AllocRows, PlacesInv, DoingOK, RowsCall
<1>2. /\ doing' = [doing EXCEPT !.numrows = @ - rows, !.rowsperchunk = rows,
                                !.chunks = Append(@, rows)]
      /\ virt_list' = virt_list /\ last_rowsperchunk' = r
  BY DEF AllocRows
<1>3. /\ r \in Nat \ {0} /\ doing.rowsperchunk <= r
      /\ doing.length % (2 * ALIGN_SIZE) = 0 /\ r * doing.length <= MAX_ALLOC_CHUNK - HeaderSize
  BY <1>1 DEF BufferInv, RowsInv
<1>4. rows \in Nat /\ rows <= doing.rowsperchunk /\ rows <= doing.numrows
  BY <1>1 DEF Smaller
<1>5. doing' = [at |-> "rows", pool |-> doing.pool, length |-> doing.length,
                numrows |-> doing.numrows - rows, rowsperchunk |-> rows,
                chunks |-> Append(doing.chunks, rows), number |-> doing.number,
                max_minheights |-> doing.max_minheights]
  BY <1>1, <1>2 DEF RowsCall
<1>6. RowsInv' BY <1>1, <1>2, <1>3, <1>4, <1>5 DEF RowsInv
<1>7. BuffersAsUsed' /\ RealizeInv'
  BY <1>2, <1>5 DEF BufferInv, BuffersAsUsed, RealizeInv, Unrealized
<1>8. FillInv'
  <2> SUFFICES ASSUME doing.number # 0 PROVE FillInv'
    BY <1>5 DEF FillInv
  <2> DEFINE v == virt_list[doing.number]
             total == v.rows_in_mem
  <2>1. /\ doing.number \in Unrealized /\ doing.max_minheights >= 1 /\ ShareTaken(v)
        /\ Filled(doing.chunks, r, total)
        /\ total = n * r + doing.numrows /\ doing.rowsperchunk = r
    BY <1>1 DEF BufferInv, FillInv
  <2>2. rows = Smaller(r, doing.numrows) BY <2>1
  <2> DEFINE new == Append(doing.chunks, rows)
  <2>3. /\ Len(new) = n + 1 /\ new[n + 1] = rows
        /\ \A k \in 1 .. n : new[k] = doing.chunks[k] /\ k \in DOMAIN doing.chunks
    BY <1>1, <1>4
  <2>4. PICK nr \in Nat : nr = n * r BY <1>1, <1>3
  <2> HIDE DEF rows, r, n, new, total
  <2>5. total \in Nat /\ total = nr + doing.numrows BY <1>1, <2>1, <2>4
  <2>6. Filled(new, r, total)
    <3>1. ASSUME NEW k \in 1 .. n + 1 PROVE new[k] = Smaller(r, total - (k - 1) * r)
      <4>1. CASE k \in 1 .. n BY <2>1, <2>3, <4>1 DEF Filled
      <4>2. CASE k = n + 1
        <5>1. k - 1 = n BY <1>1, <4>2
        <5>2. total - (k - 1) * r = doing.numrows BY <1>1, <2>4, <2>5, <5>1
        <5> QED BY <2>2, <2>3, <4>2, <5>2
      <4> QED BY <1>1, <4>1, <4>2
    <3>2. n * r < total
      <4>1. nr < nr + doing.numrows BY <1>1, <2>4
      <4> QED BY <2>4, <2>5, <4>1
    <3>3. DOMAIN new = 1 .. n + 1
      <4>1. new \in Seq(Nat) BY <1>1, <1>4 DEF new
      <4> QED BY <2>3, <4>1
    <3>4. \A k \in DOMAIN new : new[k] = Smaller(r, total - (k - 1) * r) BY <3>1, <3>3
    <3>5. (Len(new) - 1) * r < total
      <4>1. Len(new) - 1 = n BY <1>1, <2>3
      <4> QED BY <3>2, <4>1
    <3> QED BY <3>4, <3>5 DEF Filled
  <2>7. (n + 1) * r = nr + r BY <1>1, <1>3, <2>4
  <2>8. doing.numrows - rows > 0 =>
            total = (n + 1) * r + (doing.numrows - rows) /\ rows = r
    BY <1>1, <1>3, <2>2, <2>4, <2>5, <2>7 DEF Smaller
  <2>9. doing.numrows - rows = 0 => total <= (n + 1) * r
    BY <1>1, <1>3, <2>2, <2>4, <2>5, <2>7 DEF Smaller
  <2>10. /\ doing'.at = "rows" /\ doing'.number = doing.number /\ doing'.chunks = new
         /\ doing'.max_minheights = doing.max_minheights
         /\ doing'.numrows = doing.numrows - rows /\ doing'.rowsperchunk = rows
    BY <1>5 DEF new
  <2>11. last_rowsperchunk' = r /\ virt_list'[doing.number].rows_in_mem = total
    BY <1>2 DEF total
  <2>12. Unrealized' = Unrealized /\ ShareTaken(virt_list'[doing.number])
    BY <1>2, <2>1 DEF Unrealized
  <2> QED BY <2>1, <2>3, <2>6, <2>8, <2>9, <2>10, <2>11, <2>12 DEF FillInv
<1> QED BY <1>6, <1>7, <1>8 DEF BufferInv

LEMMA EndArrayBuffers ==
    ASSUME PlacesInv, BufferInv, EndArray
    PROVE  BufferInv'
<1>1. /\ doing \in RowsCall /\ doing.at = "rows" /\ doing.numrows = 0
  BY DEF EndArray, PlacesInv, DoingOK
<1>2. CASE doing.number = 0
  BY <1>2, EndedOtherwise, BuffersStay DEF EndArray, BufferInv
<1>3. CASE doing.number # 0
  <2> DEFINE i == doing.number
             v == [virt_list[i] EXCEPT !.mem_buffer = doing.chunks,
                                       !.rowsperchunk = last_rowsperchunk]
  <2>1. /\ virt_list' = [virt_list EXCEPT ![i].mem_buffer = doing.chunks,
                                        ![i].rowsperchunk = last_rowsperchunk]
        /\ doing' = [at |-> "realize", max_minheights |-> doing.max_minheights]
    BY <1>3 DEF EndArray
  <2>2. /\ i \in DOMAIN virt_list /\ i \in Unrealized /\ doing.max_minheights >= 1
        /\ ShareTaken(virt_list[i])
        /\ Filled(doing.chunks, last_rowsperchunk, virt_list[i].rows_in_mem)
        /\ virt_list[i].rows_in_mem <= Len(doing.chunks) * last_rowsperchunk
    BY <1>1, <1>3 DEF BufferInv, FillInv, Unrealized
  <2>3. virt_list \in Seq(VirtualType) /\ virt_list[i] \in VirtualType
    BY <2>2 DEF PlacesInv, Numbers
  <2>4. /\ v.mem_buffer = doing.chunks /\ v.rowsperchunk = last_rowsperchunk
        /\ v.rows_in_mem = virt_list[i].rows_in_mem /\ v.array = virt_list[i].array
        /\ v.b_s_open = virt_list[i].b_s_open
    BY <2>3 DEF VirtualType
  <2>5. BufferFilled(v)
    <3> HIDE DEF v
    <3> QED BY <2>2, <2>4 DEF BufferFilled, ShareTaken
  <2>6. virt_list' = [virt_list EXCEPT ![i] = v] BY <2>1, <2>3
  <2> HIDE DEF v, i
  <2>7. /\ DOMAIN virt_list' = DOMAIN virt_list
        /\ \A j \in DOMAIN virt_list : virt_list'[j] = IF j = i THEN v ELSE virt_list[j]
    BY <2>3, <2>6
  <2>8. ASSUME NEW j \in DOMAIN virt_list', j \notin Unrealized'
        PROVE  BufferFilled(virt_list'[j])
    <3>1. CASE j = i BY <2>5, <2>7, <3>1
    <3>2. CASE j # i
      <4>1. virt_list'[j] = virt_list[j] /\ j \in DOMAIN virt_list BY <2>7, <3>2
      <4>2. j \notin Unrealized BY <2>8, <4>1 DEF Unrealized
      <4> QED BY <4>1, <4>2, BuffersAre DEF BufferInv
    <3> QED BY <3>1, <3>2
  <2>9. BuffersAsUsed'
    BY <2>8 DEF BuffersAsUsed, BufferFilled, Filled, ShareTaken
  <2> QED BY <2>1, <2>2, <2>9 DEF BufferInv, RowsInv, FillInv, RealizeInv
<1> QED BY <1>2, <1>3

LEMMA ShareOutBuffers ==
    ASSUME PlacesInv, BufferInv, ShareOut
    PROVE  BufferInv'
<1> DEFINE avail_mem == jpeg_mem_available(doing.maximum_space)
           share == avail_mem \div doing.space_per_minheight
<1>1. virt_list' = virt_list /\ BuffersAsUsed BY DEF ShareOut, BufferInv
<1>2. doing.space_per_minheight \in Nat /\ doing.maximum_space \in Nat
  BY DEF ShareOut, PlacesInv, DoingOK
<1>3. CASE doing.space_per_minheight <= 0
  BY <1>1, <1>3, EndedOtherwise, BuffersStay DEF ShareOut
<1>4. CASE ~(doing.space_per_minheight <= 0)
  <2>1. avail_mem \in Int BY <1>2 DEF jpeg_mem_available, PlacesInv, Numbers
  <2>2. doing.space_per_minheight \in Nat \ {0} BY <1>2, <1>4
  <2> HIDE DEF avail_mem
  <2>3. share \in Int BY <2>1, <2>2
  <2> HIDE DEF share
  <2> DEFINE m == IF avail_mem >= doing.maximum_space THEN 1000000000
                  ELSE IF share <= 0 THEN 1 ELSE share
  <2>4. m >= 1 BY <2>3
  <2>5. doing' = [at |-> "realize", max_minheights |-> m]
    BY <1>4 DEF ShareOut, share, avail_mem
  <2> HIDE DEF m
  <2>6. RowsInv' /\ FillInv' /\ RealizeInv' BY <2>4, <2>5 DEF RowsInv, FillInv, RealizeInv
  <2> QED BY <1>1, <2>6 DEF BufferInv, BuffersAsUsed, Unrealized
<1> QED BY <1>3, <1>4

LEMMA RequestArrayBuffers ==
    ASSUME PlacesInv, BufferInv, NEW array \in VirtualArrays, RequestArray(array)
    PROVE  BufferInv'
<1>1. CASE Fail BY <1>1, EndedOtherwise, BuffersStay DEF Fail, BufferInv
<1>2. CASE request_virt_array(array)
  <2> DEFINE v == [array |-> array, mem_buffer |-> NULL, rows_in_mem |-> 0,
                   rowsperchunk |-> 0, b_s_open |-> FALSE]
             n == Len(virt_list) + 1
  <2>1. virt_list \in Seq(VirtualType) BY DEF PlacesInv, Numbers
  <2>2. virt_list' = Append(virt_list, v) /\ doing' = doing /\ doing = Idle
    BY <1>2 DEF request_virt_array, RequestArray
  <2>3. v.mem_buffer = NULL OBVIOUS
  <2> HIDE DEF v
  <2>4. /\ DOMAIN virt_list' = DOMAIN virt_list \cup {n} /\ virt_list'[n] = v
        /\ \A j \in DOMAIN virt_list : virt_list'[j] = virt_list[j]
    BY <2>1, <2>2
  <2>5. ASSUME NEW j \in DOMAIN virt_list', j \notin Unrealized'
        PROVE  BufferFilled(virt_list'[j])
    <3>1. CASE j = n BY <2>3, <2>4, <2>5, <3>1 DEF Unrealized
    <3>2. CASE j \in DOMAIN virt_list
      <4>1. virt_list'[j] = virt_list[j] BY <2>4, <3>2
      <4>2. j \notin Unrealized BY <2>5, <4>1 DEF Unrealized
      <4> QED BY <3>2, <4>1, <4>2, BuffersAre DEF BufferInv
    <3> QED BY <2>4, <3>1, <3>2
  <2>6. BuffersAsUsed'
    BY <2>5 DEF BuffersAsUsed, BufferFilled, Filled, ShareTaken
  <2>7. RowsInv' /\ FillInv' /\ RealizeInv'
    BY <2>2 DEF Idle, RowsInv, FillInv, RealizeInv
  <2> QED BY <2>6, <2>7 DEF BufferInv
<1> QED BY <1>1, <1>2 DEF RequestArray

LEMMA NoneFilled ==
    ASSUME NEW r \in Nat, NEW rows \in Nat \ {0}
    PROVE  Filled(<<>>, r, rows) /\ rows = Len(<<>>) * r + rows
<1>1. Len(<<>>) = 0 /\ DOMAIN <<>> = {} OBVIOUS
<1>2. PICK n \in Int : n = Len(<<>>) /\ n = 0 BY <1>1
<1>3. n * r = 0 /\ (n - 1) * r = 0 - r
  <2>1. n = 0 /\ n - 1 = 0 - 1 BY <1>2
  <2>2. 0 * r = 0 OBVIOUS
  <2>3. (0 - 1) * r = 0 - r OBVIOUS
  <2> QED BY <2>1, <2>2, <2>3
<1>4. 0 - r < rows OBVIOUS
<1> QED BY <1>1, <1>2, <1>3, <1>4 DEF Filled

LEMMA RealizeArrayBuffers ==
    ASSUME ChunksFit, PlacesInv, BufferInv, RealizeArray
    PROVE  BufferInv'
<1>1. /\ doing.max_minheights \in Nat /\ doing.max_minheights >= 1
  BY DEF RealizeArray, PlacesInv, DoingOK, BufferInv, RealizeInv
<1>2. PICK i \in DOMAIN virt_list, opened \in BOOLEAN :
          /\ Due(i)
          /\ LET array == virt_list[i].array
                 fits == minheightsOf(array) <= doing.max_minheights
                 rows == IF fits THEN array.rows ELSE doing.max_minheights * array.maxaccess
             IN  /\ opened => ~fits
                 /\ virt_list' = [virt_list EXCEPT ![i].rows_in_mem = rows,
                                                  ![i].b_s_open = opened]
                 /\ IF fits \/ opened
                    THEN \/ BeginArray(JPOOL_IMAGE, array, rows, i, doing.max_minheights)
                         \/ NoArray(JPOOL_IMAGE, array, rows)
                    ELSE /\ doing' = Failed
                         /\ UNCHANGED <<small_list, space, last_rowsperchunk>>
  BY DEF RealizeArray
<1> DEFINE array == virt_list[i].array
           fits == minheightsOf(array) <= doing.max_minheights
           rows == IF fits THEN array.rows ELSE doing.max_minheights * array.maxaccess
           v == [virt_list[i] EXCEPT !.rows_in_mem = rows, !.b_s_open = opened]
<1>3. /\ virt_list \in Seq(VirtualType) /\ virt_list[i] \in VirtualType
      /\ array.width \in Nat \ {0} /\ array.rows \in Nat \ {0}
      /\ array.maxaccess \in Nat \ {0}
  BY ArrayOf DEF PlacesInv, Numbers
<1>4. virt_list[i].mem_buffer = NULL BY <1>2 DEF Due, Unrealized
<1>5. rows \in Nat \ {0}
  <2>1. doing.max_minheights * array.maxaccess \in Nat \ {0} BY <1>1, <1>3
  <2> QED BY <1>3, <2>1
<1>6. minheightsOf(array) \in Int BY <1>3 DEF minheightsOf
<1>7. /\ v.array = array /\ v.mem_buffer = NULL /\ v.rows_in_mem = rows
      /\ v.b_s_open = opened
  BY <1>3, <1>4 DEF VirtualType
<1>8. virt_list' = [virt_list EXCEPT ![i] = v] BY <1>2, <1>3
<1>9. ASSUME fits \/ opened PROVE ShareTaken(v)
  <2>1. CASE opened
    <3>1. ~fits /\ rows = doing.max_minheights * array.maxaccess BY <1>2, <2>1
    <3>2. doing.max_minheights \in 1 .. minheightsOf(array) - 1 BY <1>1, <1>6, <3>1
    <3> QED BY <1>7, <2>1, <3>1, <3>2 DEF ShareTaken
  <2>2. CASE ~opened
    <3>1. fits /\ rows = array.rows BY <1>9, <2>2
    <3> QED BY <1>7, <2>2, <3>1 DEF ShareTaken
  <2> QED BY <2>1, <2>2
<1> HIDE DEF v
<1>10. /\ DOMAIN virt_list' = DOMAIN virt_list
       /\ \A j \in DOMAIN virt_list : virt_list'[j] = IF j = i THEN v ELSE virt_list[j]
  BY <1>3, <1>8
<1>11. i \in Unrealized' BY <1>7, <1>10 DEF Unrealized
<1>12. BuffersAsUsed'
  <2>1. ASSUME NEW j \in DOMAIN virt_list', j \notin Unrealized'
        PROVE  BufferFilled(virt_list'[j])
    <3>1. virt_list'[j] = virt_list[j] /\ j \in DOMAIN virt_list BY <1>10, <1>11, <2>1
    <3>2. j \notin Unrealized BY <2>1, <3>1 DEF Unrealized
    <3> QED BY <3>1, <3>2, BuffersAre DEF BufferInv
  <2> QED BY <2>1 DEF BuffersAsUsed, BufferFilled, Filled, ShareTaken
<1>13. CASE (fits \/ opened) /\ BeginArray(JPOOL_IMAGE, array, rows, i, doing.max_minheights)
  <2> HIDE DEF array, rows, fits
  <2>1. /\ last_rowsperchunk' \in Nat \ {0}
        /\ doing' = [at |-> "rows", pool |-> JPOOL_IMAGE, length |-> RowBytes(array),
                     numrows |-> rows, rowsperchunk |-> last_rowsperchunk',
                     chunks |-> <<>>, number |-> i, max_minheights |-> doing.max_minheights]
        /\ RowBytes(array) % (2 * ALIGN_SIZE) = 0
        /\ last_rowsperchunk' * RowBytes(array) <= MAX_ALLOC_CHUNK - HeaderSize
    BY <1>3, <1>5, <1>13, BeginArrayFits
  <2>2. RowsInv' BY <2>1 DEF RowsInv
  <2>3. RealizeInv' BY <2>1 DEF RealizeInv
  <2>4. FillInv'
    <3>1. ShareTaken(virt_list'[i]) BY <1>9, <1>10, <1>13
    <3>2. virt_list'[i].rows_in_mem = rows BY <1>7, <1>10
    <3>3. Filled(<<>>, last_rowsperchunk', rows) /\ rows = Len(<<>>) * last_rowsperchunk' + rows
      BY <1>5, <2>1, NoneFilled
    <3>4. rows > 0 /\ rows # 0 BY <1>5
    <3> QED BY <1>1, <1>11, <2>1, <3>1, <3>2, <3>3, <3>4 DEF FillInv
  <2> QED BY <1>12, <2>2, <2>3, <2>4 DEF BufferInv
<1>14. CASE doing' = Failed
  BY <1>12, <1>14, EndedOtherwise DEF BufferInv, RowsInv, FillInv, RealizeInv
<1> QED BY <1>2, <1>13, <1>14 DEF NoArray

-----------------------------------------------------------------------------
(* The ledger is even, with every pool empty when the manager closes: the  *)
(* permanent pool is freed after the other.                                *)
Emptied(pool) == small_list[pool] = <<>> /\ large_list[pool] = <<>>

SpaceInv ==
    /\ doing # Closed => Ledger
    /\ doing = Closed =>
           /\ \A pool \in Pools : Emptied(pool)
           /\ Held /\ available = SystemMemory
    /\ doing.at = "freeing" =>
           /\ doing.pools \in {<<JPOOL_IMAGE>>, <<JPOOL_IMAGE, JPOOL_PERMANENT>>,
                               <<JPOOL_PERMANENT>>}
           /\ doing.pools = <<JPOOL_PERMANENT>> => Emptied(JPOOL_IMAGE)

AccountsInv == PlacesInv /\ SpaceInv /\ BufferInv

LEMMA LedgerGoesOn ==
    ASSUME Ledger', doing'.at \notin {"closed", "freeing"}
    PROVE  SpaceInv'
BY DEF SpaceInv, Closed

LEMMA LedgerInUse ==
    ASSUME SpaceInv, doing.at # "closed"
    PROVE  Ledger
BY DEF SpaceInv, Closed

LEMMA AccountsInit ==
    ASSUME PoolsInit
    PROVE  AccountsInv
<1>1. PlacesInv BY InitKeeps
<1>2. Ledger
  <2>1. Together(small_list, 0) /\ Together(large_list, 0)
    BY NothingTogether DEF PoolsInit
  <2>2. total_space_allocated = ControlSize + 0 + 0 BY Parameters DEF PoolsInit
  <2>3. Held BY <2>1, <2>2 DEF Held
  <2>4. available \in Int /\ total_space_allocated + available = SystemMemory
    BY PoolsAssumption DEF PoolsInit
  <2> QED BY <2>3, <2>4 DEF Ledger
<1>3. SpaceInv BY <1>2 DEF PoolsInit, SpaceInv, Idle, Closed
<1>4. BufferInv
  BY DEF PoolsInit, Idle, BufferInv, RowsInv, FillInv, RealizeInv, BuffersAsUsed
<1> QED BY <1>1, <1>3, <1>4 DEF AccountsInv

(* Steps that allocate nothing and free nothing. *)
LEMMA NoSpaceTaken ==
    ASSUME SpaceInv, doing.at # "closed", UNCHANGED <<lists, space>>,
           doing'.at \notin {"closed", "freeing"}
    PROVE  SpaceInv'
BY LedgerInUse, LedgerUnchanged, LedgerGoesOn

LEMMA AllocAccounts ==
    ASSUME AccountsInv, NEW object \in Objects, AllocSmall(object) \/ AllocLarge(object)
    PROVE  SpaceInv' /\ BufferInv'
<1>1. object.pool \in Pools /\ object.size \in Nat BY PoolsAssumption
<1>2. doing = Idle BY DEF AllocSmall, AllocLarge
<1>3. Ledger /\ ListsOK(small_list) /\ ListsOK(large_list)
  BY <1>2, LedgerInUse DEF AccountsInv, PlacesInv, Idle
<1>4. CASE Fail
  <2>1. SpaceInv' BY <1>2, <1>4, NoSpaceTaken DEF AccountsInv, Fail, Idle, Failed
  <2> QED BY <1>4, <2>1, EndedOtherwise, BuffersStay DEF Fail, AccountsInv, BufferInv
<1>5. CASE UNCHANGED <<max_memory_to_use, virt_list, last_rowsperchunk, doing>>
           /\ alloc_small(object.pool, object.size) /\ large_list' = large_list
  <2>1. Ledger' BY <1>1, <1>3, <1>5, AllocSmallAccounts
  <2>2. SpaceInv' BY <1>2, <1>5, <2>1, LedgerGoesOn DEF Idle
  <2> QED BY <1>2, <1>5, <2>2, EndedOtherwise, BuffersStay DEF AccountsInv, BufferInv
<1>6. CASE UNCHANGED <<max_memory_to_use, virt_list, last_rowsperchunk, doing>>
           /\ alloc_large(object.pool, 1, object.size) /\ small_list' = small_list
  <2>1. Ledger' BY <1>1, <1>3, <1>6, AllocLargeAccounts
  <2>2. SpaceInv' BY <1>2, <1>6, <2>1, LedgerGoesOn DEF Idle
  <2> QED BY <1>2, <1>6, <2>2, EndedOtherwise, BuffersStay DEF AccountsInv, BufferInv
<1> QED BY <1>4, <1>5, <1>6 DEF AllocSmall, AllocLarge

LEMMA ArrayAccounts ==
    ASSUME ChunksFit, AccountsInv, NEW array \in Arrays, AllocArray(array)
    PROVE  SpaceInv' /\ BufferInv'
<1>1. /\ array.pool \in Pools /\ array.width \in Nat \ {0} /\ array.rows \in Nat \ {0}
  BY PoolsAssumption
<1>2. doing = Idle /\ large_list' = large_list BY DEF AllocArray
<1>3. Ledger /\ ListsOK(small_list) BY <1>2, LedgerInUse DEF AccountsInv, PlacesInv, Idle
<1>4. SpaceInv'
  <2>1. CASE BeginArray(array.pool, array, array.rows, 0, 0)
    <3>1. alloc_small(array.pool, array.rows * PointerSize) /\ doing'.at = "rows"
      BY <2>1 DEF BeginArray
    <3>2. array.rows * PointerSize \in Nat BY <1>1, Parameters
    <3>3. Ledger' BY <1>1, <1>2, <1>3, <3>1, <3>2, AllocSmallAccounts
    <3> QED BY <3>1, <3>3, LedgerGoesOn
  <2>2. CASE NoArray(array.pool, array, array.rows)
    BY <1>2, <2>2, NoSpaceTaken DEF AccountsInv, NoArray, Idle, Failed, lists
  <2> QED BY <2>1, <2>2 DEF AllocArray
<1> QED BY <1>4, AllocArrayBuffers DEF AccountsInv

LEMMA RequestAccounts ==
    ASSUME AccountsInv, NEW array \in VirtualArrays, RequestArray(array)
    PROVE  SpaceInv' /\ BufferInv'
<1>1. doing = Idle BY DEF RequestArray
<1>2. Ledger /\ ListsOK(small_list) BY <1>1, LedgerInUse DEF AccountsInv, PlacesInv, Idle
<1>3. ASSUME Fail PROVE SpaceInv'
  BY <1>1, <1>3, NoSpaceTaken DEF AccountsInv, Fail, Idle, Failed
<1>4. ASSUME request_virt_array(array) PROVE SpaceInv'
  <2>1. /\ alloc_small(JPOOL_IMAGE, ArrayControl) /\ large_list' = large_list
        /\ doing' = doing
    BY <1>4 DEF request_virt_array
  <2>2. JPOOL_IMAGE \in Pools BY DEF Pools
  <2>3. Ledger' BY <1>2, <2>1, <2>2, Parameters, AllocSmallAccounts
  <2> QED BY <1>1, <2>1, <2>3, LedgerGoesOn DEF Idle
<1>5. BufferInv' BY RequestArrayBuffers DEF AccountsInv
<1> QED BY <1>3, <1>4, <1>5 DEF RequestArray

LEMMA RowsAccounts ==
    ASSUME AccountsInv, AllocRows \/ NoRows \/ EndArray
    PROVE  SpaceInv' /\ BufferInv'
<1>1. /\ doing \in RowsCall /\ doing.at = "rows" /\ doing.length % ALIGN_SIZE = 0
      /\ doing.pool \in Pools /\ doing.length \in Nat
  BY DEF AllocRows, NoRows, EndArray, AccountsInv, PlacesInv, DoingOK, RowsCall
<1>2. Ledger /\ ListsOK(large_list) BY <1>1, LedgerInUse DEF AccountsInv, PlacesInv
<1>3. CASE AllocRows
  <2>1. Smaller(doing.rowsperchunk, doing.numrows) \in Nat
    BY <1>1 DEF Smaller, RowsCall
  <2>2. /\ alloc_large(doing.pool, Smaller(doing.rowsperchunk, doing.numrows), doing.length)
        /\ small_list' = small_list /\ doing'.at = doing.at
    BY <1>1, <1>3 DEF AllocRows, RowsCall
  <2>3. Ledger' BY <1>1, <1>2, <2>1, <2>2, AllocLargeAccounts
  <2>4. SpaceInv' BY <1>1, <2>2, <2>3, LedgerGoesOn
  <2> QED BY <1>3, <2>4, AllocRowsBuffers DEF AccountsInv
<1>4. CASE NoRows
  <2>1. SpaceInv'
    BY <1>1, <1>4, NoSpaceTaken DEF AccountsInv, NoRows, Fail, Failed
  <2> QED BY <1>4, <2>1, EndedOtherwise, BuffersStay
          DEF NoRows, Fail, AccountsInv, BufferInv
<1>5. CASE EndArray
  <2>1. doing'.at \in {"idle", "realize"} BY <1>5 DEF EndArray, Idle
  <2>2. SpaceInv' BY <1>1, <1>5, <2>1, NoSpaceTaken DEF AccountsInv, EndArray
  <2> QED BY <1>5, <2>2, EndArrayBuffers DEF AccountsInv
<1> QED BY <1>3, <1>4, <1>5

LEMMA RealizeAccounts ==
    ASSUME ChunksFit, AccountsInv,
           RealizeArrays \/ MeasureArray \/ ShareOut \/ RealizeArray \/ EndRealize
    PROVE  SpaceInv' /\ BufferInv'
<1>1. CASE RealizeArrays
  <2>1. SpaceInv' BY <1>1, NoSpaceTaken DEF AccountsInv, RealizeArrays, Idle
  <2> QED BY <1>1, <2>1, BuffersStay DEF RealizeArrays, AccountsInv, BufferInv
<1>2. CASE MeasureArray
  <2>1. doing'.at = "measure" /\ doing.at = "measure" BY <1>2 DEF MeasureArray
  <2>2. SpaceInv' BY <1>2, <2>1, NoSpaceTaken DEF AccountsInv, MeasureArray
  <2> QED BY <1>2, <2>1, <2>2, BuffersStay DEF MeasureArray, AccountsInv, BufferInv
<1>3. CASE ShareOut
  <2>1. doing'.at \in {"idle", "realize"} /\ doing.at = "measure"
    BY <1>3 DEF ShareOut, Idle
  <2>2. SpaceInv' BY <1>3, <2>1, NoSpaceTaken DEF AccountsInv, ShareOut
  <2> QED BY <1>3, <2>2, ShareOutBuffers DEF AccountsInv
<1>4. CASE RealizeArray
  <2>1. doing.at = "realize" /\ large_list' = large_list BY <1>4 DEF RealizeArray
  <2>2. Ledger /\ ListsOK(small_list) BY <2>1, LedgerInUse DEF AccountsInv, PlacesInv
  <2>3. doing.max_minheights \in Nat BY <2>1 DEF AccountsInv, PlacesInv, DoingOK
  <2>4. PICK i \in DOMAIN virt_list : \E rows :
            /\ rows \in {virt_list[i].array.rows,
                         doing.max_minheights * virt_list[i].array.maxaccess}
            /\ \/ BeginArray(JPOOL_IMAGE, virt_list[i].array, rows, i, doing.max_minheights)
               \/ NoArray(JPOOL_IMAGE, virt_list[i].array, rows)
               \/ doing' = Failed /\ UNCHANGED <<small_list, space, last_rowsperchunk>>
    BY <1>4 DEF RealizeArray
  <2>5. PICK rows :
            /\ rows \in {virt_list[i].array.rows,
                         doing.max_minheights * virt_list[i].array.maxaccess}
            /\ \/ BeginArray(JPOOL_IMAGE, virt_list[i].array, rows, i, doing.max_minheights)
               \/ NoArray(JPOOL_IMAGE, virt_list[i].array, rows)
               \/ doing' = Failed /\ UNCHANGED <<small_list, space, last_rowsperchunk>>
    BY <2>4
  <2>6. rows \in Nat
    <3>1. /\ virt_list[i].array.rows \in Nat /\ virt_list[i].array.maxaccess \in Nat
      BY ArrayOf DEF AccountsInv
    <3>2. doing.max_minheights * virt_list[i].array.maxaccess \in Nat BY <2>3, <3>1
    <3> QED BY <2>5, <3>1, <3>2
  <2>7. SpaceInv'
    <3>1. CASE BeginArray(JPOOL_IMAGE, virt_list[i].array, rows, i, doing.max_minheights)
      <4>1. alloc_small(JPOOL_IMAGE, rows * PointerSize) /\ doing'.at = "rows"
        BY <3>1 DEF BeginArray
      <4>2. rows * PointerSize \in Nat /\ JPOOL_IMAGE \in Pools BY <2>6, Parameters DEF Pools
      <4>3. Ledger' BY <2>1, <2>2, <4>1, <4>2, AllocSmallAccounts
      <4> QED BY <4>1, <4>3, LedgerGoesOn
    <3>2. CASE doing' = Failed /\ UNCHANGED <<small_list, space>>
      BY <2>1, <3>2, NoSpaceTaken DEF AccountsInv, Failed, lists
    <3> QED BY <2>5, <3>1, <3>2 DEF NoArray
  <2> QED BY <1>4, <2>7, RealizeArrayBuffers DEF AccountsInv
<1>5. CASE EndRealize
  <2>1. SpaceInv' BY <1>5, NoSpaceTaken DEF AccountsInv, EndRealize, Idle
  <2> QED BY <1>5, <2>1, EndedOtherwise, BuffersStay DEF EndRealize, AccountsInv, BufferInv
<1> QED BY <1>1, <1>2, <1>3, <1>4, <1>5

LEMMA FreeAccounts ==
    ASSUME AccountsInv, FreePool(JPOOL_IMAGE) \/ SelfDestruct
    PROVE  SpaceInv' /\ BufferInv'
<1>1. PICK pools \in {<<JPOOL_IMAGE>>, <<JPOOL_IMAGE, JPOOL_PERMANENT>>} : Free(pools)
  BY DEF FreePool, SelfDestruct
<1>2. /\ doing.at \in {"idle", "failed"} /\ doing' = [at |-> "freeing", pools |-> pools]
      /\ UNCHANGED <<lists, space>> /\ virt_list' \in {virt_list, <<>>}
  BY <1>1 DEF Free
<1>3. SpaceInv'
  <2>1. Ledger' BY <1>2, LedgerInUse, LedgerUnchanged DEF AccountsInv
  <2>2. doing' # Closed BY <1>2 DEF Closed
  <2>3. pools # <<JPOOL_PERMANENT>> BY <1>1 DEF JPOOL_IMAGE, JPOOL_PERMANENT
  <2> QED BY <1>1, <1>2, <2>1, <2>2, <2>3 DEF SpaceInv
<1>4. BufferInv'
  <2>1. RowsInv' /\ FillInv' /\ RealizeInv' BY <1>2 DEF RowsInv, FillInv, RealizeInv
  <2>2. BuffersAsUsed' BY <1>2 DEF AccountsInv, BufferInv, BuffersAsUsed, Unrealized
  <2> QED BY <2>1, <2>2 DEF BufferInv
<1> QED BY <1>3, <1>4

LEMMA FreedAccounts ==
    ASSUME AccountsInv, FreeLarge \/ FreeSmall
    PROVE  SpaceInv' /\ BufferInv'
<1>1. /\ doing.at = "freeing" /\ UNCHANGED <<virt_list, doing>>
      /\ doing.pools # <<>>
  BY DEF FreeLarge, FreeSmall
<1>2. Ledger' BY <1>1, LedgerInUse, FreeBlockAccounts DEF AccountsInv
<1>3. doing # Closed BY <1>1 DEF Closed
<1>4. ASSUME doing.pools = <<JPOOL_PERMANENT>> PROVE Emptied(JPOOL_IMAGE)'
  <2>1. Emptied(JPOOL_IMAGE) BY <1>1, <1>4 DEF AccountsInv, SpaceInv
  <2>2. Head(doing.pools) = JPOOL_PERMANENT /\ JPOOL_PERMANENT # JPOOL_IMAGE
    BY <1>4 DEF JPOOL_PERMANENT, JPOOL_IMAGE
  <2>3. JPOOL_IMAGE \in Pools /\ JPOOL_PERMANENT \in Pools BY DEF Pools
  <2>4. small_list \in [Pools -> Seq(BlockType)] /\ large_list \in [Pools -> Seq(BlockType)]
    BY DEF AccountsInv, PlacesInv, ListsOK
  <2>5. small_list'[JPOOL_IMAGE] = small_list[JPOOL_IMAGE]
    BY <2>2, <2>3, <2>4 DEF FreeLarge, FreeSmall
  <2>6. large_list'[JPOOL_IMAGE] = large_list[JPOOL_IMAGE]
    BY <2>2, <2>3, <2>4 DEF FreeLarge, FreeSmall
  <2> QED BY <2>1, <2>5, <2>6 DEF Emptied
<1>5. SpaceInv' BY <1>1, <1>2, <1>3, <1>4 DEF AccountsInv, SpaceInv
<1>6. BufferInv' BY <1>1, BuffersStay DEF AccountsInv, BufferInv
<1> QED BY <1>5, <1>6

LEMMA PoolFreedAccounts ==
    ASSUME AccountsInv, PoolFreed
    PROVE  SpaceInv' /\ BufferInv'
<1>1. /\ doing.at = "freeing" /\ UNCHANGED <<lists, total_space_allocated, virt_list>>
      /\ doing \in [at : {"freeing"}, pools : Seq(Pools)]
      /\ Emptied(Head(doing.pools))
  BY DEF PoolFreed, AccountsInv, PlacesInv, DoingOK, Emptied
<1>2. Ledger BY <1>1, LedgerInUse DEF AccountsInv
<1>3. JPOOL_PERMANENT # JPOOL_IMAGE BY DEF JPOOL_PERMANENT, JPOOL_IMAGE
<1>4. \A pool : Emptied(pool)' <=> Emptied(pool) BY <1>1 DEF Emptied, lists
<1>5. doing.pools \in {<<JPOOL_IMAGE>>, <<JPOOL_IMAGE, JPOOL_PERMANENT>>,
                       <<JPOOL_PERMANENT>>}
  BY <1>1 DEF AccountsInv, SpaceInv
<1>6. CASE doing.pools = <<JPOOL_IMAGE>>
  <2>1. Tail(doing.pools) = <<>> /\ Head(doing.pools) = JPOOL_IMAGE BY <1>6
  <2>2. doing' = Idle /\ available' = available BY <1>3, <2>1 DEF PoolFreed
  <2>3. Ledger' BY <1>1, <1>2, <2>2, LedgerUnchanged DEF space
  <2>4. SpaceInv' BY <2>2, <2>3, LedgerGoesOn DEF Idle
  <2> QED BY <1>1, <2>2, <2>4, EndedOtherwise, BuffersStay DEF AccountsInv, BufferInv
<1>7. CASE doing.pools = <<JPOOL_IMAGE, JPOOL_PERMANENT>>
  <2>1. Tail(doing.pools) = <<JPOOL_PERMANENT>> /\ Head(doing.pools) = JPOOL_IMAGE BY <1>7
  <2>2. doing' = [doing EXCEPT !.pools = Tail(@)] /\ available' = available
    BY <2>1 DEF PoolFreed
  <2>3. doing'.at = "freeing" /\ doing'.pools = <<JPOOL_PERMANENT>> BY <1>1, <2>1, <2>2
  <2>4. Ledger' BY <1>1, <1>2, <2>2, LedgerUnchanged DEF space
  <2>5. doing' # Closed BY <2>3 DEF Closed
  <2>6. Emptied(JPOOL_IMAGE)' BY <1>1, <1>4, <2>1
  <2>7. SpaceInv' BY <2>3, <2>4, <2>5, <2>6 DEF SpaceInv
  <2> QED BY <1>1, <2>3, <2>7, BuffersStay DEF AccountsInv, BufferInv
<1>8. CASE doing.pools = <<JPOOL_PERMANENT>>
  <2>1. Tail(doing.pools) = <<>> /\ Head(doing.pools) = JPOOL_PERMANENT BY <1>8
  <2>2. doing' = Closed /\ available' = available + ControlSize BY <2>1 DEF PoolFreed
  <2>3. \A pool \in Pools : Emptied(pool)
    BY <1>1, <1>8, <2>1 DEF AccountsInv, SpaceInv, Pools
  <2>4. \A pool \in Pools : Emptied(pool)' BY <1>4, <2>3
  <2>5. Held' BY <1>1, <1>2 DEF Ledger, Held, lists
  <2>6. total_space_allocated = ControlSize
    <3>1. PICK small \in Int, large \in Int :
              /\ Together(small_list, small) /\ Together(large_list, large)
              /\ total_space_allocated = ControlSize + small + large
      BY <1>2 DEF Ledger, Held
    <3>2. small = 0 BY <2>3, <3>1, NothingTogether DEF Emptied
    <3>3. large = 0 BY <2>3, <3>1, NothingTogether DEF Emptied
    <3> QED BY <3>1, <3>2, <3>3, Parameters
  <2>7. available' = SystemMemory
    BY <1>2, <2>2, <2>6, Parameters, PoolsAssumption DEF Ledger
  <2>8. SpaceInv' BY <2>2, <2>4, <2>5, <2>7 DEF SpaceInv, Closed
  <2> QED BY <1>1, <2>2, <2>8, EndedOtherwise, BuffersStay DEF AccountsInv, BufferInv
<1> QED BY <1>5, <1>6, <1>7, <1>8

LEMMA OthersAccounts ==
    ASSUME AccountsInv,
           jinit_memory_mgr \/ \E limit \in Limits : SetLimit(limit)
    PROVE  SpaceInv' /\ BufferInv'
<1>1. CASE \E limit \in Limits : SetLimit(limit)
  <2>1. doing = Idle /\ doing' = Idle /\ UNCHANGED <<lists, space, virt_list>>
    BY <1>1 DEF SetLimit
  <2>2. SpaceInv' BY <2>1, NoSpaceTaken DEF AccountsInv, Idle
  <2> QED BY <2>1, <2>2, EndedOtherwise, BuffersStay DEF AccountsInv, BufferInv
<1>2. CASE jinit_memory_mgr
  <2>1. /\ doing = Closed /\ doing' = Idle /\ virt_list' = <<>>
        /\ total_space_allocated' = ControlSize /\ available' = available - ControlSize
        /\ UNCHANGED lists
    BY <1>2 DEF jinit_memory_mgr
  <2>2. /\ \A pool \in Pools : Emptied(pool) /\ available = SystemMemory
    BY <2>1 DEF AccountsInv, SpaceInv
  <2>3. Together(small_list, 0) BY <2>2, NothingTogether DEF Emptied
  <2>4. Together(large_list, 0) BY <2>2, NothingTogether DEF Emptied
  <2>5. total_space_allocated' = ControlSize + 0 + 0 BY <2>1, Parameters
  <2>6. UNCHANGED <<small_list, large_list>> BY <2>1 DEF lists
  <2>7. Held' BY <2>3, <2>4, <2>5, <2>6 DEF Held
  <2>8. available = SystemMemory
    BY <2>1 DEF AccountsInv, SpaceInv
  <2>9. available' \in Int /\ total_space_allocated' + available' = SystemMemory
    BY <2>1, <2>8, Parameters, PoolsAssumption
  <2>10. SpaceInv' BY <2>1, <2>7, <2>9, LedgerGoesOn DEF Ledger, Idle
  <2>11. RowsInv' /\ FillInv' /\ RealizeInv'
    BY <2>1 DEF RowsInv, FillInv, RealizeInv, Idle
  <2>12. BuffersAsUsed' BY <2>1 DEF BuffersAsUsed
  <2> QED BY <2>10, <2>11, <2>12 DEF BufferInv
<1> QED BY <1>1, <1>2

LEMMA AccountsNext ==
    ASSUME ChunksFit, AccountsInv, [PoolsNext]_poolVars
    PROVE  AccountsInv'
<1>1. PlacesInv' BY NextKeeps DEF AccountsInv
<1>2. SpaceInv' /\ BufferInv'
  <2>1. CASE \E object \in Objects : AllocSmall(object) \/ AllocLarge(object)
    BY <2>1, AllocAccounts
  <2>2. CASE \E array \in Arrays : AllocArray(array) BY <2>2, ArrayAccounts
  <2>3. CASE \E array \in VirtualArrays : RequestArray(array) BY <2>3, RequestAccounts
  <2>4. CASE AllocRows \/ NoRows \/ EndArray BY <2>4, RowsAccounts
  <2>5. CASE RealizeArrays \/ MeasureArray \/ ShareOut \/ RealizeArray \/ EndRealize
    BY <2>5, RealizeAccounts
  <2>6. CASE FreePool(JPOOL_IMAGE) \/ SelfDestruct BY <2>6, FreeAccounts
  <2>7. CASE FreeLarge \/ FreeSmall BY <2>7, FreedAccounts
  <2>8. CASE PoolFreed BY <2>8, PoolFreedAccounts
  <2>9. CASE jinit_memory_mgr \/ \E limit \in Limits : SetLimit(limit)
    BY <2>9, OthersAccounts
  <2>10. CASE UNCHANGED poolVars
    BY <2>10 DEF poolVars, AccountsInv, SpaceInv, Ledger, Held, Emptied, BufferInv,
                 RowsInv, FillInv, RealizeInv, BuffersAsUsed, Unrealized
  <2> QED BY <2>1, <2>2, <2>3, <2>4, <2>5, <2>6, <2>7, <2>8, <2>9, <2>10 DEF PoolsNext
<1> QED BY <1>1, <1>2 DEF AccountsInv

(* What the manager believes it holds is what malloc() has given, whatever *)
(* calls end in an error, and it gives everything back when it closes; no  *)
(* chunk of rows that alloc_sarray() and alloc_barray() choose is refused  *)
(* for its size; and the buffer of each virtual array has the rows, in     *)
(* chunks of the size that do_sarray_io() and do_barray_io() divide by.    *)
THEOREM MemoryKept == ASSUME ChunksFit PROVE PoolsSpec => []MemoryAccounted
<1>1. PoolsInit => AccountsInv BY AccountsInit
<1>2. AccountsInv /\ [PoolsNext]_poolVars => AccountsInv' BY AccountsNext
<1>3. AccountsInv => MemoryAccounted
  <2> SUFFICES ASSUME AccountsInv PROVE MemoryAccounted OBVIOUS
  <2>1. SpaceAccounted BY DEF AccountsInv, SpaceInv, Ledger, SpaceAccounted
  <2>2. RowsFitChunks
    <3> SUFFICES ASSUME doing.at = "rows"
                 PROVE  ~TooBig(Smaller(doing.rowsperchunk, doing.numrows) * doing.length)
      BY DEF RowsFitChunks
    <3> DEFINE rows == Smaller(doing.rowsperchunk, doing.numrows)
    <3>1. doing \in RowsCall /\ doing.length \in Nat
      BY DEF AccountsInv, PlacesInv, DoingOK, RowsCall
    <3>2. /\ last_rowsperchunk \in Nat /\ doing.rowsperchunk <= last_rowsperchunk
          /\ doing.length % (2 * ALIGN_SIZE) = 0
          /\ last_rowsperchunk * doing.length <= MAX_ALLOC_CHUNK - HeaderSize
      BY DEF AccountsInv, BufferInv, RowsInv
    <3>3. rows \in Nat /\ rows <= last_rowsperchunk BY <3>1, <3>2 DEF Smaller, RowsCall
    <3> HIDE DEF rows
    <3>4. rows * doing.length <= last_rowsperchunk * doing.length
      BY <3>1, <3>2, <3>3, FewerRows
    <3>5. PICK x \in Nat, y \in Nat :
              x = rows * doing.length /\ y = last_rowsperchunk * doing.length
      BY <3>1, <3>2, <3>3
    <3>6. x <= MAX_ALLOC_CHUNK - HeaderSize BY <3>2, <3>4, <3>5, Parameters
    <3>7. x % (2 * ALIGN_SIZE) = 0 BY <3>1, <3>2, <3>3, <3>5, TwiceAligned
    <3>8. ~TooBig(x) BY <3>6, <3>7, ChunkIsNotTooBig
    <3> QED BY <3>5, <3>8 DEF rows
  <2>3. BuffersAsUsed BY DEF AccountsInv, BufferInv
  <2> QED BY <2>1, <2>2, <2>3 DEF MemoryAccounted
<1> QED BY <1>1, <1>2, <1>3, PTL DEF PoolsSpec

-----------------------------------------------------------------------------
(* Virtual arrays.                                                         *)
USE VirtArrayAssumption

-----------------------------------------------------------------------------
(* A window of fewer strips than the whole array needs does not reach      *)
(* beyond the array (the else branch of realize_virt_arrays).              *)
LEMMA WindowFits ==
    ASSUME NEW m \in 1 .. minheights, m < minheights
    PROVE  /\ m * maxaccess \in 1 .. rows_in_array
           /\ maxaccess <= m * maxaccess
<1> DEFINE q == (rows_in_array - 1) \div maxaccess
<1>1. q \in Nat /\ q * maxaccess <= rows_in_array - 1
  OBVIOUS
<1>2. m \in Nat \ {0} /\ m <= q
  BY <1>1 DEF minheights
<1>3. m * maxaccess <= q * maxaccess
  <2> HIDE DEF q
  <2> QED BY <1>1, <1>2
<1>4. maxaccess <= m * maxaccess
  BY <1>2
<1> HIDE DEF q
<1> QED BY <1>1, <1>2, <1>3, <1>4

(* What access_virt_sarray's first half leaves behind for a legal request: *)
(* a window that is inside the array, holds the strip unless the request   *)
(* is going to fail, and has not lost a defined row.                       *)
LEMMA WindowKeepsRows ==
    ASSUME IInv, status = "realized",
           NEW s \in Rows, NEW e \in s + 1 .. s + maxaccess,
           e <= rows_in_array,
           NEW m, m = WindowFor(s, e)
    PROVE  /\ m.cur \in Rows
           /\ m.store \in [Rows -> Data]
           /\ m.buf \in [BufferRows -> Data]
           /\ m.dirty \in BOOLEAN
           /\ InWindow(s, e) \/ b_s_open =>
                 m.cur <= s /\ e <= m.cur + rows_in_mem
           /\ \A r \in Rows : r < first_undef_row =>
                 RowAt(r) = IF m.cur <= r /\ r < m.cur + rows_in_mem
                              THEN m.buf[r - m.cur] ELSE m.store[r]
           /\ b_s_open /\ ~m.dirty =>
                 \A r \in IoRows(m.cur) : m.store[r] = m.buf[r - m.cur]
           /\ ~b_s_open => m.cur = 0
<1> USE DEF IInv, TypeOK, Rows, BufferRows
<1>1. CASE InWindow(s, e) \/ ~b_s_open
  <2>1. m = HoldWindow
    BY <1>1 DEF WindowFor
  <2>2. /\ m.cur = cur_start_row
        /\ m.store = backing
        /\ m.buf = mem_buffer
        /\ m.dirty = dirty
    BY <2>1 DEF HoldWindow
  <2>3. InWindow(s, e) => m.cur <= s /\ e <= m.cur + rows_in_mem
    BY <2>2 DEF InWindow
  <2>4. \A r \in Rows : RowAt(r) = IF m.cur <= r /\ r < m.cur + rows_in_mem
                                     THEN m.buf[r - m.cur] ELSE m.store[r]
    BY <2>2 DEF RowAt
  <2>5. b_s_open /\ ~m.dirty =>
           \A r \in IoRows(m.cur) : m.store[r] = m.buf[r - m.cur]
    BY <2>2 DEF CleanWindowSaved
  <2>6. ~b_s_open => m.cur = 0
    BY <2>2 DEF NoVirtualBug
  <2> QED BY <1>1, <2>2, <2>3, <2>4, <2>5, <2>6
<1>2. CASE ~InWindow(s, e) /\ b_s_open
  <2> DEFINE store == IF dirty THEN write_backing_store(cur_start_row)
                               ELSE backing
             buf == read_backing_store(NewStart(s, e), store)
  <2>1. /\ m.cur = NewStart(s, e)
        /\ m.store = store
        /\ m.buf = buf
        /\ m.dirty = FALSE
    BY <1>2 DEF WindowFor, MoveWindow
  <2>2. m.cur \in Rows /\ m.cur <= s /\ e <= m.cur + rows_in_mem
    BY <1>2, <2>1 DEF NewStart, InWindow, WindowHoldsStrip
  <2>3. store \in [Rows -> Data]
    <3>1. write_backing_store(cur_start_row) \in [Rows -> Data]
      BY DEF write_backing_store, IoRows
    <3> QED BY <3>1
  <2>4. \A r \in Rows : r < first_undef_row => store[r] = RowAt(r)
    <3> SUFFICES ASSUME NEW r \in Rows, r < first_undef_row
                 PROVE  store[r] = RowAt(r)
      OBVIOUS
    <3>1. r \in IoRows(cur_start_row) <=>
             cur_start_row <= r /\ r < cur_start_row + rows_in_mem
      BY DEF IoRows
    <3>2. CASE dirty
      BY <3>1, <3>2 DEF write_backing_store, RowAt
    <3>3. CASE ~dirty
      BY <1>2, <3>1, <3>3 DEF CleanWindowSaved, RowAt
    <3> QED BY <3>2, <3>3
  <2> HIDE DEF store
  <2>5. buf \in [BufferRows -> Data]
    BY <2>1, <2>2, <2>3 DEF read_backing_store, IoRows
  <2>6. \A r \in IoRows(m.cur) : m.buf[r - m.cur] = m.store[r]
    BY <2>1, <2>2 DEF read_backing_store, IoRows
  <2>7. \A r \in Rows : r < first_undef_row =>
           RowAt(r) = IF m.cur <= r /\ r < m.cur + rows_in_mem
                        THEN m.buf[r - m.cur] ELSE m.store[r]
    BY <2>1, <2>2, <2>4, <2>6 DEF IoRows
  <2> QED BY <1>2, <2>1, <2>2, <2>3, <2>5, <2>6, <2>7
<1> QED BY <1>1, <1>2

(* A granted access: the strip lies in the window, rows that were never    *)
(* opened read as zeroes if the array is pre-zeroed, and rows that were    *)
(* keep their contents.                                                    *)
LEMMA GrantedStrip ==
    ASSUME IInv, status = "realized",
           NEW s \in Rows, NEW e \in s + 1 .. s + maxaccess, NEW w \in BOOLEAN,
           ~BadRequest(s, e), NEW m, m = WindowFor(s, e),
           cur_start_row' = m.cur, backing' = m.store,
           GrantAccess(s, e, w, m), UNCHANGED <<rows_in_mem, b_s_open>>
    PROVE  /\ e <= rows_in_array
           /\ m.cur \in Rows /\ m.cur <= s /\ e <= m.cur + rows_in_mem
           /\ mem_buffer' \in [BufferRows -> Data]
           /\ \A r \in Rows : r < first_undef_row => RowAt(r)' = RowAt(r)
           /\ b_s_open /\ ~m.dirty =>
                 \A r \in IoRows(m.cur) : m.store[r] = mem_buffer'[r - m.cur]
           /\ pre_zero => \A r \in s .. e - 1 :
                 r >= first_undef_row => mem_buffer'[r - m.cur] = Zero
           /\ w => s <= first_undef_row
           /\ ~w /\ ~pre_zero => e <= first_undef_row
<1>1. e <= rows_in_array
  BY DEF BadRequest
<1>2. InWindow(s, e) \/ b_s_open
  BY DEF GrantAccess, MustFail
<1>3. /\ m.cur \in Rows /\ m.cur <= s /\ e <= m.cur + rows_in_mem
      /\ m.buf \in [BufferRows -> Data]
      /\ \A r \in Rows : r < first_undef_row =>
            RowAt(r) = IF m.cur <= r /\ r < m.cur + rows_in_mem
                         THEN m.buf[r - m.cur] ELSE m.store[r]
      /\ b_s_open /\ ~m.dirty =>
            \A r \in IoRows(m.cur) : m.store[r] = m.buf[r - m.cur]
  BY <1>1, <1>2, WindowKeepsRows
<1>4. rows_in_mem \in Nat /\ first_undef_row \in Nat
  BY DEF IInv, TypeOK
<1>5. mem_buffer' =
         IF pre_zero /\ first_undef_row < e
           THEN [i \in BufferRows |->
                   IF undef_row(s) - m.cur <= i /\ i < e - m.cur
                     THEN Zero ELSE m.buf[i]]
           ELSE m.buf
  BY DEF GrantAccess, jzero_rows
<1>6. mem_buffer' \in [BufferRows -> Data]
  BY <1>3, <1>5
<1>7. undef_row(s) \in Nat /\ first_undef_row <= undef_row(s)
      /\ (undef_row(s) = s \/ undef_row(s) = first_undef_row)
  BY <1>4 DEF undef_row, Rows
<1>8. \A r \in Rows : r < first_undef_row /\ m.cur <= r
                                          /\ r < m.cur + rows_in_mem =>
         mem_buffer'[r - m.cur] = m.buf[r - m.cur]
  <2> SUFFICES ASSUME NEW r \in Rows, r < first_undef_row, m.cur <= r,
                      r < m.cur + rows_in_mem
               PROVE  mem_buffer'[r - m.cur] = m.buf[r - m.cur]
    OBVIOUS
  <2>1. m.cur \in Int /\ r \in Int /\ r - m.cur \in BufferRows
    BY <1>3, <1>4 DEF Rows, BufferRows
  <2>2. ~(undef_row(s) - m.cur <= r - m.cur)
    BY <1>4, <1>7, <2>1
  <2> QED BY <1>5, <2>1, <2>2
<1>9. \A r \in Rows : r < first_undef_row => RowAt(r)' = RowAt(r)
  BY <1>3, <1>8 DEF RowAt
<1>10. b_s_open /\ ~m.dirty =>
         \A r \in IoRows(m.cur) : m.store[r] = mem_buffer'[r - m.cur]
  BY <1>3, <1>8 DEF IoRows
<1>11. pre_zero => \A r \in s .. e - 1 :
         r >= first_undef_row => mem_buffer'[r - m.cur] = Zero
  <2> SUFFICES ASSUME pre_zero, NEW r \in s .. e - 1, r >= first_undef_row
               PROVE  mem_buffer'[r - m.cur] = Zero
    OBVIOUS
  <2> DEFINE cur == m.cur
             undef == undef_row(s)
  <2>0. cur \in Nat /\ cur <= s /\ e <= cur + rows_in_mem
        /\ undef \in Nat /\ (undef = s \/ undef = first_undef_row)
    BY <1>3, <1>7 DEF Rows
  <2> HIDE DEF cur, undef
  <2>1a. r - cur \in BufferRows /\ undef - cur <= r - cur
         /\ r - cur < e - cur /\ first_undef_row < e
    BY <1>4, <2>0 DEF Rows, BufferRows
  <2>1. r - m.cur \in BufferRows /\ undef_row(s) - m.cur <= r - m.cur
        /\ r - m.cur < e - m.cur /\ first_undef_row < e
    BY <2>1a DEF cur, undef
  <2>2. mem_buffer' = [i \in BufferRows |->
                         IF undef_row(s) - m.cur <= i /\ i < e - m.cur
                           THEN Zero ELSE m.buf[i]]
    BY <1>5, <2>1
  <2> QED BY <1>3, <1>4, <1>7, <2>1, <2>2 DEF Rows
<1>12. (w => s <= first_undef_row) /\ (~w /\ ~pre_zero => e <= first_undef_row)
  BY <1>4 DEF GrantAccess, MustFail, Rows
<1> QED BY <1>1, <1>3, <1>6, <1>9, <1>10, <1>11, <1>12

-----------------------------------------------------------------------------
LEMMA InitInv == Init => IInv
BY DEF Init, IInv, TypeOK, StripInWindow, CleanWindowSaved, WindowHoldsStrip,
       NothingOpen, WritersMarkDirty, NoVirtualBug, Strips, NoStrip, Rows, BufferRows

LEMMA RealizeKeepsInv ==
    ASSUME IInv, NEW m \in 1 .. minheights,
           NEW enough \in BOOLEAN, NEW opened \in BOOLEAN,
           realize_virt_arrays(m, enough, opened)
    PROVE  IInv'
<1> DEFINE fits == minheights <= m
<1>1. minheights \in Nat
  BY DEF minheights
<1>2. /\ rows_in_mem' \in 1 .. rows_in_array
      /\ maxaccess <= rows_in_mem'
  <2>1. CASE fits
    BY <2>1 DEF realize_virt_arrays
  <2>2. CASE ~fits
    BY <1>1, <2>2, WindowFits DEF realize_virt_arrays
  <2> QED BY <2>1, <2>2
<1>3. status' = "realized" /\ ~b_s_open' => rows_in_mem' = rows_in_array
  BY DEF realize_virt_arrays, CanRealize
<1>4. /\ mem_buffer' \in [BufferRows' -> Data]
      /\ cur_start_row' = 0 /\ first_undef_row' = 0 /\ dirty' = FALSE
      /\ strip' = NoStrip /\ backing' \in [Rows -> Data]
      /\ status' \in {"realized", "error"} /\ b_s_open' \in BOOLEAN
      /\ pre_zero' \in BOOLEAN
  BY DEF realize_virt_arrays, IInv, TypeOK, NothingOpen
<1>5. TypeOK'
  <2>1. strip' \in Strips /\ cur_start_row' \in Rows
    BY <1>4 DEF Strips, NoStrip, Rows
  <2>2. rows_in_mem' \in 0 .. rows_in_array /\ first_undef_row' \in 0 .. rows_in_array
    BY <1>2, <1>4
  <2>3. status' \in {"requested", "realized", "error", "freed"}
        /\ dirty' \in BOOLEAN
    BY <1>4
  <2> QED BY <1>4, <2>1, <2>2, <2>3 DEF TypeOK
<1>6. StripInWindow'
  <2>1. strip'.start = 0 /\ strip'.end = 0
    BY <1>4 DEF NoStrip
  <2>2. rows_in_mem' \in Nat /\ cur_start_row' \in Nat /\ cur_start_row' = 0
    BY <1>2, <1>4
  <2>3. \A i \in Nat : 0 <= 0 + i
    OBVIOUS
  <2>4. strip'.end <= cur_start_row' + rows_in_mem'
    BY <2>1, <2>2, <2>3
  <2>5. cur_start_row' <= strip'.start /\ strip'.end <= rows_in_array
    BY <2>1, <2>2
  <2> QED BY <2>4, <2>5 DEF StripInWindow
<1>8. CleanWindowSaved'
  <2>1. \A r \in Rows : ~(r < first_undef_row')
    BY <1>4 DEF Rows
  <2> QED BY <2>1 DEF CleanWindowSaved, IoRows
<1>7. WindowHoldsStrip' /\ NothingOpen' /\ WritersMarkDirty' /\ NoVirtualBug'
  BY <1>2, <1>3, <1>4
     DEF WindowHoldsStrip, NothingOpen, WritersMarkDirty, NoVirtualBug, NoStrip
<1> QED BY <1>5, <1>6, <1>7, <1>8 DEF IInv

LEMMA AccessInv ==
    ASSUME IInv,
           NEW s \in Rows, NEW e \in s + 1 .. s + maxaccess + 1,
           NEW w \in BOOLEAN, access_virt_sarray(s, e, w)
    PROVE  IInv'
<1>1. strip' \in Strips
  BY DEF access_virt_sarray, Strips, Rows
<1>2. CASE RefuseAccess(s, e)
  <2>1. /\ status' = "error"
        /\ cur_start_row' = cur_start_row /\ mem_buffer' = mem_buffer
        /\ backing' = backing /\ dirty' = dirty
        /\ first_undef_row' = first_undef_row
        /\ rows_in_mem' = rows_in_mem /\ b_s_open' = b_s_open
        /\ pre_zero' = pre_zero
    BY <1>2 DEF RefuseAccess, access_virt_sarray, window
  <2> QED
    BY <1>1, <2>1
       DEF IInv, TypeOK, StripInWindow, CleanWindowSaved, WindowHoldsStrip,
           NothingOpen, WritersMarkDirty, NoVirtualBug, BufferRows
<1>3. CASE MoveAndAccess(s, e, w)
  <2> DEFINE m == WindowFor(s, e)
  <2> HIDE DEF m
  <2>1. /\ status = "realized" /\ ~BadRequest(s, e)
        /\ cur_start_row' = m.cur /\ backing' = m.store
        /\ FailAccess(s, e, w, m) \/ GrantAccess(s, e, w, m)
        /\ UNCHANGED <<pre_zero, rows_in_mem, b_s_open>>
    BY <1>3 DEF MoveAndAccess, access_virt_sarray, m
  <2>2. e \in s + 1 .. s + maxaccess /\ e <= rows_in_array
    BY <2>1 DEF BadRequest, Rows
  <2>3. /\ m.cur \in Rows
        /\ m.store \in [Rows -> Data]
        /\ m.buf \in [BufferRows -> Data]
        /\ m.dirty \in BOOLEAN
        /\ ~b_s_open => m.cur = 0
    BY <2>1, <2>2, WindowKeepsRows DEF m
  <2>4. CASE FailAccess(s, e, w, m)
    BY <1>1, <2>1, <2>3, <2>4
       DEF FailAccess, IInv, TypeOK, StripInWindow, CleanWindowSaved,
           WindowHoldsStrip, NothingOpen, WritersMarkDirty, NoVirtualBug, BufferRows
  <2>5. CASE GrantAccess(s, e, w, m)
    <3>1. /\ e <= rows_in_array /\ m.cur <= s /\ e <= m.cur + rows_in_mem
          /\ mem_buffer' \in [BufferRows -> Data]
          /\ b_s_open /\ ~m.dirty =>
                \A r \in IoRows(m.cur) : m.store[r] = mem_buffer'[r - m.cur]
      BY <2>1, <2>2, <2>5, GrantedStrip DEF m
    <3>2. /\ status' = status
          /\ first_undef_row' \in 0 .. rows_in_array
          /\ dirty' \in BOOLEAN
          /\ ~dirty' => ~m.dirty /\ first_undef_row' = first_undef_row
      BY <2>3, <2>5, <3>1 DEF GrantAccess, IInv, TypeOK, Rows
    <3>3. TypeOK'
      BY <1>1, <2>1, <2>3, <3>1, <3>2 DEF IInv, TypeOK, BufferRows
    <3>4. StripInWindow'
      BY <2>1, <3>1 DEF StripInWindow, access_virt_sarray
    <3>5. CleanWindowSaved'
      BY <2>1, <3>1, <3>2 DEF CleanWindowSaved, IoRows
    <3>6. WindowHoldsStrip' /\ NothingOpen' /\ NoVirtualBug'
      BY <2>1, <2>3, <3>2 DEF IInv, WindowHoldsStrip, NothingOpen, NoVirtualBug
    <3>7. WritersMarkDirty'
      <4>1. strip' = [start |-> s, end |-> e, writable |-> w]
        BY DEF access_virt_sarray
      <4>2. e <= e /\ (~(first_undef_row < e) => e <= first_undef_row)
        BY <2>2 DEF IInv, TypeOK
      <4>3. w => dirty' /\ e <= first_undef_row'
        BY <2>5, <4>2 DEF GrantAccess
      <4> QED BY <4>1, <4>3 DEF WritersMarkDirty
    <3> QED BY <3>3, <3>4, <3>5, <3>6, <3>7 DEF IInv
  <2> QED BY <2>1, <2>4, <2>5
<1> QED BY <1>2, <1>3 DEF access_virt_sarray

LEMMA StoreInv ==
    ASSUME IInv, NEW r \in Rows, NEW v \in Data, StoreRow(r, v)
    PROVE  IInv'
<1>1. r - cur_start_row \in BufferRows
  BY DEF StoreRow, IInv, TypeOK, StripInWindow, Rows, BufferRows, Strips
<1>2. dirty
  BY DEF StoreRow, IInv, WritersMarkDirty
<1> QED
  BY <1>1, <1>2
     DEF StoreRow, IInv, TypeOK, StripInWindow, CleanWindowSaved,
         WindowHoldsStrip, NothingOpen, WritersMarkDirty, NoVirtualBug,
         BufferRows

LEMMA FreeInv == IInv /\ free_pool => IInv'
<1> SUFFICES ASSUME IInv, free_pool PROVE IInv'
  OBVIOUS
<1>1. TypeOK'
  <2>1. /\ mem_buffer' \in [BufferRows' -> Data]
        /\ backing' \in [Rows -> Data]
        /\ rows_in_mem' \in 0 .. rows_in_array
    BY DEF free_pool
  <2>2. strip' \in Strips /\ cur_start_row' \in Rows
    BY DEF free_pool, Strips, NoStrip, Rows
  <2>3. pre_zero' \in BOOLEAN
    BY DEF free_pool, IInv, TypeOK
  <2> QED BY <2>1, <2>2, <2>3 DEF free_pool, TypeOK
<1>2. status' = "freed" /\ strip' = NoStrip
  BY DEF free_pool
<1>3. first_undef_row' = 0
  BY DEF free_pool
<1> QED
  BY <1>1, <1>2, <1>3 DEF IInv, StripInWindow, CleanWindowSaved, WindowHoldsStrip,
                    NothingOpen, WritersMarkDirty, NoVirtualBug

LEMMA RequestInv == IInv /\ request_virt_sarray => IInv'
<1> SUFFICES ASSUME IInv, request_virt_sarray PROVE IInv'
  OBVIOUS
<1>1. /\ status' = "requested" /\ status = "freed"
      /\ cur_start_row' = cur_start_row /\ mem_buffer' = mem_buffer
      /\ backing' = backing /\ dirty' = dirty /\ strip' = strip
      /\ first_undef_row' = first_undef_row
      /\ rows_in_mem' = rows_in_mem /\ b_s_open' = b_s_open
      /\ pre_zero' \in BOOLEAN
  BY DEF request_virt_sarray, window
<1> QED
  BY <1>1 DEF IInv, TypeOK, StripInWindow, CleanWindowSaved, WindowHoldsStrip,
              NothingOpen, WritersMarkDirty, NoVirtualBug, BufferRows

LEMMA StutterInv == IInv /\ UNCHANGED vars => IInv'
<1> SUFFICES ASSUME IInv, UNCHANGED vars PROVE IInv'
  OBVIOUS
<1>1. /\ status' = status
      /\ cur_start_row' = cur_start_row /\ mem_buffer' = mem_buffer
      /\ backing' = backing /\ dirty' = dirty /\ strip' = strip
      /\ first_undef_row' = first_undef_row
      /\ rows_in_mem' = rows_in_mem /\ b_s_open' = b_s_open
      /\ pre_zero' = pre_zero
  BY DEF vars, window
<1> QED
  BY <1>1 DEF IInv, TypeOK, StripInWindow, CleanWindowSaved, WindowHoldsStrip,
              NothingOpen, WritersMarkDirty, NoVirtualBug, BufferRows, IoRows

(* The inductive invariant holds throughout.                               *)
THEOREM Invariance == Spec => []IInv
<1>1. IInv /\ [Next]_vars => IInv'
  <2> SUFFICES ASSUME IInv, [Next]_vars PROVE IInv'
    OBVIOUS
  <2>1. CASE request_virt_sarray
    BY <2>1, RequestInv
  <2>2. ASSUME NEW m \in 1 .. minheights,
               NEW enough \in BOOLEAN, NEW opened \in BOOLEAN,
               realize_virt_arrays(m, enough, opened)
        PROVE  IInv'
    BY <2>2, RealizeKeepsInv
  <2>3. ASSUME NEW s \in Rows, NEW n \in 1 .. maxaccess + 1,
               NEW w \in BOOLEAN, access_virt_sarray(s, s + n, w)
        PROVE  IInv'
    <3>1. s + n \in s + 1 .. s + maxaccess + 1
      BY DEF Rows
    <3> QED BY <2>3, <3>1, AccessInv
  <2>4. ASSUME NEW r \in Rows, NEW v \in Data, StoreRow(r, v)
        PROVE  IInv'
    BY <2>4, StoreInv
  <2>5. CASE free_pool
    BY <2>5, FreeInv
  <2>6. CASE UNCHANGED vars
    BY <2>6, StutterInv
  <2> QED BY <2>1, <2>2, <2>3, <2>4, <2>5, <2>6 DEF Next
<1> QED BY <1>1, InitInv, PTL DEF Spec

(* access_virt_sarray hands out only rows that lie inside mem_buffer.      *)
THEOREM StripSafety == Spec => []StripInWindow
BY Invariance, PTL DEF IInv

(* A window that is not dirty can be dropped without losing anything.      *)
THEOREM CleanWindowSafety == Spec => []CleanWindowSaved
BY Invariance, PTL DEF IInv

(* JERR_VIRTUAL_BUG cannot be raised.                                      *)
THEOREM VirtualBugUnreachable == Spec => []NoVirtualBug
BY Invariance, PTL DEF IInv

-----------------------------------------------------------------------------
LEMMA RowAtType == ASSUME IInv PROVE \A r \in Rows : RowAt(r) \in Data
BY DEF IInv, TypeOK, RowAt, Rows, BufferRows

(* The refinement, one step of VirtArray at a time.                        *)
LEMMA InitRefines == Init => PA!Init
BY DEF Init, PA!Init, content, view, PA!Blank, PA!NoView, PA!NoStrip, NoStrip,
       PA!Rows, Rows

(* As long as nothing is open, the client's pointer has no rows behind it. *)
LEMMA NothingInView ==
    ASSUME status # "realized" \/ strip = NoStrip
    PROVE  view = PA!NoView
BY DEF view, PA!NoView, NoStrip

LEMMA NothingInViewNext ==
    ASSUME status' # "realized" \/ strip' = NoStrip
    PROVE  view' = PA!NoView
BY DEF view, PA!NoView, NoStrip

LEMMA RealizeRefines ==
    ASSUME IInv, IInv', NEW m \in 1 .. minheights,
           NEW enough \in BOOLEAN, NEW opened \in BOOLEAN,
           realize_virt_arrays(m, enough, opened), first_undef_row = 0
    PROVE  PA!Realize
<1>1. /\ status = "requested" /\ status' \in {"realized", "error"}
      /\ first_undef_row' = 0 /\ strip' = strip /\ strip = NoStrip
      /\ pre_zero' = pre_zero
  BY DEF realize_virt_arrays, IInv, NothingOpen
<1>2. view = PA!NoView /\ view' = PA!NoView
  BY <1>1, NothingInView, NothingInViewNext
<1>3. content' = content
  BY <1>1 DEF content, Rows
<1> QED BY <1>1, <1>2, <1>3 DEF PA!Realize

LEMMA AccessRefines ==
    ASSUME IInv, IInv',
           NEW s \in Rows, NEW n \in 1 .. maxaccess + 1,
           NEW w \in BOOLEAN, access_virt_sarray(s, s + n, w)
    PROVE  PA!Open(s, s + n, w) \/ PA!Refuse(s, s + n, w)
<1> DEFINE e == s + n
<1>1. e \in s + 1 .. s + maxaccess + 1 /\ e - s = n
  BY DEF Rows
<1>2. /\ strip' = [start |-> s, end |-> e, writable |-> w]
      /\ UNCHANGED <<pre_zero, rows_in_mem, b_s_open>>
  BY DEF access_virt_sarray
<1>3. CASE RefuseAccess(s, e)
  <2>1. /\ status' = "error" /\ first_undef_row' = first_undef_row
        /\ mem_buffer' = mem_buffer /\ backing' = backing
        /\ cur_start_row' = cur_start_row
    BY <1>3 DEF RefuseAccess, window
  <2>2. content' = content
    BY <1>2, <2>1 DEF content, RowAt
  <2>3. view' = PA!NoView
    BY <2>1, NothingInViewNext
  <2>4. \/ status = "requested"
        \/ status = "realized" /\ ~PA!WellFormed(s, e, w)
    BY <1>1, <1>3 DEF RefuseAccess, BadRequest, PA!WellFormed
  <2> QED BY <1>2, <2>1, <2>2, <2>3, <2>4 DEF PA!Refuse
<1>4. CASE MoveAndAccess(s, e, w)
  <2> DEFINE m == WindowFor(s, e)
  <2>1. /\ status = "realized" /\ ~BadRequest(s, e)
        /\ cur_start_row' = m.cur /\ backing' = m.store
        /\ FailAccess(s, e, w, m) \/ GrantAccess(s, e, w, m)
    BY <1>4 DEF MoveAndAccess
  <2> HIDE DEF m
  <2>2. e \in s + 1 .. s + maxaccess /\ e <= rows_in_array
    BY <1>1, <2>1 DEF BadRequest, Rows
  <2>3. CASE FailAccess(s, e, w, m)
    <3>1. \A r \in Rows : r < first_undef_row => RowAt(r)' = RowAt(r)
      <4>1. \A r \in Rows : r < first_undef_row =>
               RowAt(r) = IF m.cur <= r /\ r < m.cur + rows_in_mem
                            THEN m.buf[r - m.cur] ELSE m.store[r]
        BY <2>1, <2>2, WindowKeepsRows DEF m
      <4> QED BY <1>2, <2>1, <2>3, <4>1 DEF FailAccess, RowAt
    <3>2. status' = "error" /\ first_undef_row' = first_undef_row
      BY <2>3 DEF FailAccess
    <3>3. content' = content
      BY <3>1, <3>2 DEF content
    <3>4. view' = PA!NoView
      BY <3>2, NothingInViewNext
    <3>5. InWindow(s, e) \/ b_s_open
      BY <2>1, <2>2 DEF IInv, NoVirtualBug, InWindow, Rows
    <3>6. ~PA!WellFormed(s, e, w)
      BY <2>2, <2>3, <3>5 DEF FailAccess, MustFail, PA!WellFormed, IInv, TypeOK, Rows
    <3> QED BY <1>2, <2>1, <3>2, <3>3, <3>4, <3>6 DEF PA!Refuse
  <2>4. CASE GrantAccess(s, e, w, m)
    <3>1. /\ e <= rows_in_array
          /\ m.cur \in Rows /\ m.cur <= s /\ e <= m.cur + rows_in_mem
          /\ mem_buffer' \in [BufferRows -> Data]
          /\ \A r \in Rows : r < first_undef_row => RowAt(r)' = RowAt(r)
          /\ pre_zero => \A r \in s .. e - 1 :
                r >= first_undef_row => mem_buffer'[r - m.cur] = Zero
          /\ w => s <= first_undef_row
          /\ ~w /\ ~pre_zero => e <= first_undef_row
      BY <1>2, <2>1, <2>2, <2>4, GrantedStrip DEF m
    <3>2. /\ status' = status
          /\ first_undef_row' =
                IF w /\ first_undef_row < e THEN e ELSE first_undef_row
      BY <2>4 DEF GrantAccess
    <3>3. PA!WellFormed(s, e, w)
      <4>1. e - s <= maxaccess /\ (e <= first_undef_row => ~(first_undef_row < e))
        BY <2>1, <2>2 DEF BadRequest, Rows, IInv, TypeOK
      <4> QED BY <3>1, <4>1 DEF PA!WellFormed
    <3> DEFINE cur == m.cur
    <3> HIDE DEF cur
    <3>4. /\ cur \in Rows /\ cur <= s /\ e <= cur + rows_in_mem
          /\ cur_start_row' = cur
          /\ rows_in_mem \in Nat /\ first_undef_row \in Nat
          /\ rows_in_mem' = rows_in_mem
      BY <1>2, <2>1, <3>1 DEF cur, IInv, TypeOK
    <3>5. \A r \in s .. e - 1 : /\ r \in Rows
                                /\ r - cur \in BufferRows
                                /\ cur <= r /\ r < cur + rows_in_mem
      BY <1>1, <3>1, <3>4 DEF Rows, BufferRows
    <3>6. \A r \in s .. e - 1 : RowAt(r)' = mem_buffer'[r - cur]
      BY <3>4, <3>5 DEF RowAt
    <3>7. \A r \in Rows : content'[r] = IF r < first_undef_row' THEN RowAt(r)'
                                                               ELSE Zero
      BY DEF content
    <3>8. \A r \in Rows : r < first_undef_row => content'[r] = content[r]
      <4> SUFFICES ASSUME NEW r \in Rows, r < first_undef_row
                   PROVE  content'[r] = content[r]
        OBVIOUS
      <4>1. r < first_undef_row'
        BY <2>2, <3>2, <3>4 DEF Rows
      <4> QED BY <3>1, <3>7, <4>1 DEF content
    <3>9. \A r \in Rows : first_undef_row <= r /\ r < first_undef_row' =>
             w /\ r \in s .. e - 1
      BY <2>2, <3>1, <3>2, <3>4 DEF Rows
    <3>10. content' \in [Rows -> Data]
      <4> SUFFICES ASSUME NEW r \in Rows PROVE content'[r] \in Data
        BY DEF content
      <4>1. CASE r < first_undef_row
        BY <3>8, <4>1, RowAtType DEF content
      <4>2. CASE first_undef_row <= r /\ r < first_undef_row'
        BY <3>1, <3>5, <3>6, <3>7, <3>9, <4>2
      <4>3. CASE ~(r < first_undef_row')
        BY <3>7, <4>3
      <4> QED BY <3>4, <4>1, <4>2, <4>3 DEF Rows
    <3>11. \A r \in Rows :
              pre_zero \/ r \notin first_undef_row .. first_undef_row' - 1 =>
                content'[r] = content[r]
      <4> SUFFICES ASSUME NEW r \in Rows,
                          pre_zero \/ r \notin first_undef_row .. first_undef_row' - 1,
                          ~(r < first_undef_row)
                   PROVE  content'[r] = content[r]
        BY <3>8
      <4>1. content[r] = Zero
        BY DEF content
      <4>2. CASE r < first_undef_row'
        <5>1. w /\ r \in s .. e - 1 /\ first_undef_row' = e
          BY <3>2, <3>4, <3>9, <4>2 DEF Rows
        <5>2. pre_zero
          BY <3>4, <4>2, <5>1 DEF Rows
        <5> QED BY <3>1, <3>4, <3>6, <3>7, <4>1, <4>2, <5>1, <5>2 DEF cur, Rows
      <4> QED BY <3>7, <4>1, <4>2
    <3>12. view' = [r \in s .. e - 1 |-> content'[r]]
      <4>1. view' = [r \in s .. e - 1 |-> mem_buffer'[r - cur]]
        BY <1>2, <2>1, <3>2, <3>4 DEF view
      <4>2. \A r \in s .. e - 1 : mem_buffer'[r - cur] = content'[r]
        <5> SUFFICES ASSUME NEW r \in s .. e - 1, ~(r < first_undef_row')
                     PROVE  mem_buffer'[r - cur] = Zero
          BY <3>5, <3>6, <3>7
        <5>1. CASE first_undef_row < e
          <6>1. ~w /\ r >= first_undef_row
            BY <2>2, <3>2, <3>4, <5>1
          <6>2. pre_zero
            BY <2>2, <3>1, <3>4, <5>1, <6>1
          <6> QED BY <3>1, <6>1, <6>2 DEF cur
        <5>2. CASE ~(first_undef_row < e)
          BY <2>2, <3>2, <3>4, <5>2
        <5> QED BY <5>1, <5>2
      <4> QED BY <4>1, <4>2
    <3> QED BY <1>2, <2>1, <3>2, <3>3, <3>10, <3>11, <3>12 DEF PA!Open, PA!Rows, Rows
  <2> QED BY <2>1, <2>3, <2>4
<1> QED BY <1>3, <1>4 DEF access_virt_sarray

LEMMA StoreRefines ==
    ASSUME IInv, NEW r \in Rows, NEW v \in Data, StoreRow(r, v)
    PROVE  PA!Store(r, v)
<1>1. /\ status = "realized" /\ strip.writable
      /\ r \in strip.start .. strip.end - 1
      /\ mem_buffer' = [mem_buffer EXCEPT ![r - cur_start_row] = v]
      /\ UNCHANGED <<status, pre_zero, rows_in_mem, cur_start_row,
                     backing, first_undef_row, strip>>
  BY DEF StoreRow
<1>2. /\ r - cur_start_row \in BufferRows
      /\ cur_start_row <= r /\ r < cur_start_row + rows_in_mem
      /\ mem_buffer \in [BufferRows -> Data]
  BY <1>1 DEF IInv, TypeOK, StripInWindow, Strips, Rows, BufferRows
<1>3. r < first_undef_row
  BY <1>1 DEF IInv, WritersMarkDirty, Strips, TypeOK, Rows
<1>4. content' = [content EXCEPT ![r] = v]
  <2>1. \A q \in Rows : RowAt(q)' = IF q = r THEN v ELSE RowAt(q)
    <3> SUFFICES ASSUME NEW q \in Rows
                 PROVE  RowAt(q)' = IF q = r THEN v ELSE RowAt(q)
      OBVIOUS
    <3>1. q # r => q - cur_start_row # r - cur_start_row
      BY DEF IInv, TypeOK, Rows
    <3>2. cur_start_row <= q /\ q < cur_start_row + rows_in_mem =>
             q - cur_start_row \in BufferRows
      BY DEF IInv, TypeOK, Rows, BufferRows
    <3> QED BY <1>1, <1>2, <3>1, <3>2 DEF RowAt
  <2> QED BY <1>1, <1>3, <2>1 DEF content
<1>5. view' = [view EXCEPT ![r] = v]
  <2> DEFINE S == strip.start .. strip.end - 1
  <2>1. \A q \in S : q - cur_start_row \in BufferRows
                     /\ (q # r => q - cur_start_row # r - cur_start_row)
    BY <1>1 DEF IInv, TypeOK, StripInWindow, Strips, Rows, BufferRows
  <2>2. \A q \in S : mem_buffer'[q - cur_start_row] =
                       IF q = r THEN v ELSE mem_buffer[q - cur_start_row]
    BY <1>1, <1>2, <2>1
  <2>3. view = [q \in S |-> mem_buffer[q - cur_start_row]]
    BY <1>1 DEF view
  <2>4. view' = [q \in S |-> mem_buffer'[q - cur_start_row]]
    BY <1>1 DEF view
  <2> HIDE DEF S
  <2> QED BY <1>1, <2>2, <2>3, <2>4
<1> QED BY <1>1, <1>4, <1>5 DEF PA!Store

LEMMA FreeRefines == ASSUME IInv, IInv', free_pool PROVE PA!Free
<1>1. /\ status # "freed" /\ status' = "freed" /\ strip' = NoStrip
      /\ first_undef_row' = 0 /\ pre_zero' = pre_zero
  BY DEF free_pool
<1>2. view' = PA!NoView
  BY <1>1, NothingInViewNext
<1>3. content' = PA!Blank
  BY <1>1 DEF content, PA!Blank, PA!Rows, Rows
<1> QED BY <1>1, <1>2, <1>3 DEF PA!Free, PA!NoStrip, NoStrip

LEMMA RequestRefines ==
    ASSUME IInv, IInv', request_virt_sarray PROVE PA!Request
<1>1. /\ status = "freed" /\ status' = "requested"
      /\ strip' = strip /\ strip = NoStrip /\ pre_zero' \in BOOLEAN
      /\ cur_start_row' = cur_start_row /\ mem_buffer' = mem_buffer
      /\ backing' = backing /\ first_undef_row' = first_undef_row
      /\ rows_in_mem' = rows_in_mem
  BY DEF request_virt_sarray, window, IInv, NothingOpen
<1>2. view = PA!NoView /\ view' = PA!NoView
  BY <1>1, NothingInView, NothingInViewNext
<1>3. content' = content
  BY <1>1 DEF content, RowAt
<1> QED BY <1>1, <1>2, <1>3 DEF PA!Request

LEMMA StutterRefines == UNCHANGED vars => UNCHANGED PA!vars
<1> SUFFICES ASSUME UNCHANGED vars PROVE UNCHANGED PA!vars
  OBVIOUS
<1>1. /\ status' = status /\ strip' = strip /\ pre_zero' = pre_zero
      /\ cur_start_row' = cur_start_row /\ mem_buffer' = mem_buffer
      /\ backing' = backing /\ first_undef_row' = first_undef_row
      /\ rows_in_mem' = rows_in_mem
  BY DEF vars, window
<1>2. content' = content /\ view' = view
  BY <1>1 DEF content, view, RowAt
<1> QED BY <1>1, <1>2 DEF PA!vars

(* The virtual array implements the plain one: whatever window the memory  *)
(* manager keeps and however it moves, clients read what they stored.      *)
THEOREM Refinement == Spec => ImplementsPlainArray
<1>1. IInv /\ IInv' /\ [Next]_vars => [PA!Next]_(PA!vars)
  <2> SUFFICES ASSUME IInv, IInv', [Next]_vars PROVE [PA!Next]_(PA!vars)
    OBVIOUS
  <2>1. CASE request_virt_sarray
    BY <2>1, RequestRefines DEF PA!Next
  <2>2. ASSUME NEW m \in 1 .. minheights,
               NEW enough \in BOOLEAN, NEW opened \in BOOLEAN,
               realize_virt_arrays(m, enough, opened)
        PROVE  PA!Next
    <3>1. first_undef_row = 0
      BY <2>2 DEF realize_virt_arrays, IInv, NothingOpen
    <3> QED BY <2>2, <3>1, RealizeRefines DEF PA!Next
  <2>3. ASSUME NEW s \in Rows, NEW n \in 1 .. maxaccess + 1,
               NEW w \in BOOLEAN, access_virt_sarray(s, s + n, w)
        PROVE  PA!Next
    BY <2>3, AccessRefines DEF PA!Next, PA!Rows, Rows
  <2>4. ASSUME NEW r \in Rows, NEW v \in Data, StoreRow(r, v)
        PROVE  PA!Next
    BY <2>4, StoreRefines DEF PA!Next, PA!Rows, Rows
  <2>5. CASE free_pool
    BY <2>5, FreeRefines DEF PA!Next
  <2>6. CASE UNCHANGED vars
    BY <2>6, StutterRefines
  <2> QED BY <2>1, <2>2, <2>3, <2>4, <2>5, <2>6 DEF Next
<1> QED BY <1>1, InitRefines, Invariance, PTL
        DEF Spec, ImplementsPlainArray, PA!Spec
=============================================================================
