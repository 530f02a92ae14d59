------------------------------ MODULE MemPools ------------------------------
(***************************************************************************)
(* The memory manager's pools (jmemmgr.c over jmemnobs.c).  Objects live   *)
(* as long as their pool.  Small ones share the blocks that are gotten     *)
(* from malloc(), large ones have a block each, and so have the chunks of  *)
(* rows of a two-dimensional array; the memory that virtual arrays may     *)
(* take is shared out among all that wait for it.                          *)
(*                                                                         *)
(* Nobody knows where malloc() places a block: base, the address of its    *)
(* first byte modulo ALIGN_SIZE, is any number of Misalignments.  What     *)
(* VirtArray has, the contents and the window of one virtual array, is     *)
(* left out.                                                               *)
(***************************************************************************)
EXTENDS Integers, Sequences

CONSTANTS
    ALIGN_SIZE, MAX_ALLOC_CHUNK, MIN_SLOP,
    first_pool_slop, extra_pool_slop,
    HeaderSize,      \* sizeof(small_pool_hdr), sizeof(large_pool_hdr)
    ControlSize,     \* sizeof(my_memory_mgr)
    ArrayControl,    \* sizeof(struct jvirt_sarray_control)
    PointerSize,     \* sizeof(JSAMPROW), sizeof(JBLOCKROW)
    BlockSize,       \* sizeof(JBLOCK)
    SystemMemory,    \* the bytes that malloc() has
    Misalignments,
    Limits,          \* of max_memory_to_use, 0 for none
    Objects,         \* what clients ask alloc_small() and alloc_large() for
    Arrays,          \* and alloc_sarray() and alloc_barray()
    VirtualArrays    \* and request_virt_sarray() and request_virt_barray()

JPOOL_PERMANENT == 0
JPOOL_IMAGE == 1
Pools == {JPOOL_PERMANENT, JPOOL_IMAGE}

\* What jinit_memory_mgr() and alloc_barray() check, and the types of the rest.
ASSUME PoolsAssumption ==
    /\ ALIGN_SIZE \in {2, 4, 8, 16, 32}
    /\ MAX_ALLOC_CHUNK \in Nat /\ MAX_ALLOC_CHUNK % ALIGN_SIZE = 0
    /\ HeaderSize \in Nat
    /\ MIN_SLOP \in Nat \ {0}
    /\ first_pool_slop \in [Pools -> Nat] /\ extra_pool_slop \in [Pools -> Nat]
    /\ ControlSize \in Nat /\ ArrayControl \in Nat /\ PointerSize \in Nat
    /\ BlockSize \in Nat \ {0} /\ BlockSize % ALIGN_SIZE = 0
    /\ SystemMemory \in Nat /\ ControlSize <= SystemMemory
    /\ Misalignments \subseteq 0 .. ALIGN_SIZE - 1
    /\ Limits \subseteq Nat
    /\ Objects \subseteq [of : {"small", "large"}, pool : Pools, size : Nat]
    /\ Arrays \subseteq [of : {"samples", "blocks"}, pool : Pools,
                         width : Nat \ {0}, rows : Nat \ {0}]
    /\ VirtualArrays \subseteq [of : {"samples", "blocks"}, width : Nat \ {0},
                                rows : Nat \ {0}, maxaccess : Nat \ {0}]

VARIABLES
    small_list,        \* the blocks of each pool, in the order of the list
    large_list,        \* the blocks of each pool, the head of the list being the last
    total_space_allocated,
    max_memory_to_use,
    virt_list,         \* the virtual arrays, the heads of the lists being the last
    last_rowsperchunk,
    available,         \* what malloc() has left
    doing              \* the call under way
poolVars == <<small_list, large_list, total_space_allocated, max_memory_to_use, virt_list,
              last_rowsperchunk, available, doing>>

lists == <<small_list, large_list>>
space == <<total_space_allocated, available>>

Idle == [at |-> "idle"]
Failed == [at |-> "failed"]
Closed == [at |-> "closed"]

round_up_pow2(n, unit) == ((n + unit - 1) \div unit) * unit
Overhead == HeaderSize + ALIGN_SIZE - 1

-----------------------------------------------------------------------------
(* Objects *)

\* The first byte behind the header that is aligned.
DataStart(block) ==
    LET behind == block.base + HeaderSize
    IN  IF behind % ALIGN_SIZE # 0 THEN behind + ALIGN_SIZE - (behind % ALIGN_SIZE) ELSE behind

Block(base, size, left) ==
    [base |-> base, size |-> size, bytes_used |-> 0, bytes_left |-> left, objects |-> <<>>]

\* Mutant of WithObject: the next object is placed there again.
WithObject_KeepingUsed(block, n) ==
    [block EXCEPT !.bytes_left = @ - n,
                  !.objects = Append(@, [start |-> DataStart(block) + block.bytes_used,
                                         size |-> n])]

\* The place of an object of n bytes.
WithObject(block, n) ==
    [block EXCEPT !.bytes_used = @ + n, !.bytes_left = @ - n,
                  !.objects = Append(@, [start |-> DataStart(block) + block.bytes_used,
                                         size |-> n])]

TooBig(size) ==
    \/ size > MAX_ALLOC_CHUNK
    \/ HeaderSize + round_up_pow2(size, ALIGN_SIZE) + ALIGN_SIZE - 1 > MAX_ALLOC_CHUNK

\* What is tried to have left over in a new block: half as much again and again.
Tried(slop) ==
    {s \in 0 .. slop : \/ s = slop
                       \/ s >= MIN_SLOP /\ \E k \in 1 .. 16 : s = slop \div (2 ^ k)}

SlopFor(pool, min_request) ==
    LET slop == IF small_list[pool] = <<>> THEN first_pool_slop[pool] ELSE extra_pool_slop[pool]
    IN  Tried(IF slop > MAX_ALLOC_CHUNK - min_request THEN MAX_ALLOC_CHUNK - min_request
              ELSE slop)

\* malloc() and free(): all that is left can be had.
Got(size) ==
    /\ size <= available
    /\ available' = available - size
    /\ total_space_allocated' = total_space_allocated + size

\* alloc_small(): from the first block with enough left, or from a new one.
FromBlock(pool, n) ==
    \E i \in DOMAIN small_list[pool] :
        /\ small_list[pool][i].bytes_left >= n
        /\ \A j \in 1 .. i - 1 : small_list[pool][j].bytes_left < n
        /\ small_list' = [small_list EXCEPT ![pool][i] = WithObject(@, n)]
        /\ UNCHANGED space

NoneHas(pool, n) == \A i \in DOMAIN small_list[pool] : small_list[pool][i].bytes_left < n

FromNewBlock(pool, n) ==
    /\ NoneHas(pool, n)
    /\ \E slop \in SlopFor(pool, Overhead + n), base \in Misalignments :
           /\ \A more \in SlopFor(pool, Overhead + n) :
                  more > slop => Overhead + n + more > available
           /\ Got(Overhead + n + slop)
           /\ small_list' = [small_list EXCEPT ![pool] =
                  Append(@, WithObject(Block(base, Overhead + n + slop, n + slop), n))]

alloc_small(pool, size) ==
    /\ ~TooBig(size)
    /\ \/ FromBlock(pool, round_up_pow2(size, ALIGN_SIZE))
       \/ FromNewBlock(pool, round_up_pow2(size, ALIGN_SIZE))

\* out_of_memory()
CannotAllocSmall(pool, size) ==
    LET n == round_up_pow2(size, ALIGN_SIZE)
    IN  \/ TooBig(size)
        \/ /\ NoneHas(pool, n)
           /\ \A slop \in SlopFor(pool, Overhead + n) : Overhead + n + slop > available

\* alloc_large(), for an object that consists of rows of the same length.
LargeBlock(base, n, rows, length) ==
    LET block == Block(base, Overhead + n, n)
    IN  [block EXCEPT !.bytes_used = n, !.bytes_left = 0,
                      !.objects = [k \in 1 .. rows |->
                          [start |-> DataStart(block) + (k - 1) * length, size |-> length]]]

alloc_large(pool, rows, length) ==
    LET n == round_up_pow2(rows * length, ALIGN_SIZE)
    IN  /\ ~TooBig(rows * length)
        /\ Got(Overhead + n)
        /\ \E base \in Misalignments :
               large_list' = [large_list EXCEPT ![pool] =
                                  Append(@, LargeBlock(base, n, rows, length))]

CannotAllocLarge(size) ==
    TooBig(size) \/ Overhead + round_up_pow2(size, ALIGN_SIZE) > available

-----------------------------------------------------------------------------
(* Arrays *)

\* Rows of samples are padded so that upsampling by two may go beyond their ends.
RowBytes(array) ==
    IF array.of = "samples" THEN round_up_pow2(array.width, 2 * ALIGN_SIZE)
    ELSE array.width * BlockSize

MaxRows(array) == (MAX_ALLOC_CHUNK - HeaderSize) \div RowBytes(array)

\* JERR_WIDTH_OVERFLOW, or out_of_memory().
TooWide(array) == (array.of = "samples" /\ array.width > MAX_ALLOC_CHUNK) \/ MaxRows(array) <= 0

Smaller(a, b) == IF a < b THEN a ELSE b

\* alloc_sarray(), alloc_barray(): the row pointers, and then the rows in chunks.
BeginArray(pool, array, rows, number, max_minheights) ==
    /\ ~TooWide(array)
    /\ alloc_small(pool, rows * PointerSize)
    /\ last_rowsperchunk' = Smaller(MaxRows(array), rows)
    /\ doing' = [at |-> "rows", pool |-> pool, length |-> RowBytes(array), numrows |-> rows,
                 rowsperchunk |-> Smaller(MaxRows(array), rows), chunks |-> <<>>,
                 number |-> number, max_minheights |-> max_minheights]

NoArray(pool, array, rows) ==
    /\ TooWide(array) \/ CannotAllocSmall(pool, rows * PointerSize)
    /\ last_rowsperchunk' = IF TooWide(array) THEN last_rowsperchunk
                            ELSE Smaller(MaxRows(array), rows)
    /\ doing' = Failed
    /\ UNCHANGED <<small_list, space>>

AllocRows ==
    /\ doing.at = "rows" /\ doing.numrows > 0
    /\ LET rows == Smaller(doing.rowsperchunk, doing.numrows)
       IN  /\ alloc_large(doing.pool, rows, doing.length)
           /\ doing' = [doing EXCEPT !.numrows = @ - rows, !.rowsperchunk = rows,
                                     !.chunks = Append(@, rows)]
    /\ UNCHANGED <<small_list, max_memory_to_use, virt_list, last_rowsperchunk>>

\* The array is returned, to a client or to realize_virt_arrays().
EndArray ==
    /\ doing.at = "rows" /\ doing.numrows = 0
    /\ IF doing.number = 0
       THEN doing' = Idle /\ UNCHANGED virt_list
       ELSE /\ virt_list' = [virt_list EXCEPT ![doing.number].mem_buffer = doing.chunks,
                                              ![doing.number].rowsperchunk = last_rowsperchunk]
            /\ doing' = [at |-> "realize", max_minheights |-> doing.max_minheights]
    /\ UNCHANGED <<lists, space, max_memory_to_use, last_rowsperchunk>>

-----------------------------------------------------------------------------
(* Virtual arrays *)

NULL == <<>>

request_virt_array(array) ==
    /\ alloc_small(JPOOL_IMAGE, ArrayControl)
    /\ virt_list' = Append(virt_list,
           [array |-> array, mem_buffer |-> NULL, rows_in_mem |-> 0, rowsperchunk |-> 0,
            b_s_open |-> FALSE])
    /\ UNCHANGED <<large_list, max_memory_to_use, last_rowsperchunk, doing>>

Unrealized == {i \in DOMAIN virt_list : virt_list[i].mem_buffer = NULL}

\* The array whose turn it is: those of samples first, and of these the latest.
Due(i) ==
    /\ i \in Unrealized
    /\ \A j \in Unrealized \ {i} :
           LET samples(k) == virt_list[k].array.of = "samples"
           IN  IF samples(i) = samples(j) THEN i > j ELSE samples(i)

\* jpeg_mem_available()
jpeg_mem_available(max_bytes_needed) ==
    IF max_memory_to_use = 0 THEN max_bytes_needed
    ELSE IF max_memory_to_use > total_space_allocated
         THEN max_memory_to_use - total_space_allocated
    ELSE 0

\* realize_virt_arrays() first adds up the space for the rows of all arrays that wait, and for
\* as many as are accessed at a time, without any padding, ...
MeasureArray ==
    /\ doing.at = "measure" /\ doing.next \in DOMAIN virt_list
    /\ LET array == virt_list[doing.next].array
           row == array.width * (IF array.of = "samples" THEN 1 ELSE BlockSize)
           waits == doing.next \in Unrealized
       IN  doing' = [at |-> "measure", next |-> doing.next + 1,
                     space_per_minheight |->
                         doing.space_per_minheight + IF waits THEN array.maxaccess * row ELSE 0,
                     maximum_space |->
                         doing.maximum_space + IF waits THEN array.rows * row ELSE 0]
    /\ UNCHANGED <<lists, space, max_memory_to_use, virt_list, last_rowsperchunk>>

\* ... and then shares out what there is.
ShareOut ==
    /\ doing.at = "measure" /\ doing.next \notin DOMAIN virt_list
    /\ LET avail_mem == jpeg_mem_available(doing.maximum_space)
           share == avail_mem \div doing.space_per_minheight
       IN  doing' = IF doing.space_per_minheight <= 0 THEN Idle
                    ELSE [at |-> "realize",
                          max_minheights |->
                              IF avail_mem >= doing.maximum_space THEN 1000000000
                              ELSE IF share <= 0 THEN 1 ELSE share]
    /\ UNCHANGED <<lists, space, max_memory_to_use, virt_list, last_rowsperchunk>>

minheightsOf(array) == (array.rows - 1) \div array.maxaccess + 1

\* One turn of the loops of realize_virt_arrays().
RealizeArray ==
    /\ doing.at = "realize"
    /\ \E i \in DOMAIN virt_list, opened \in BOOLEAN :
           /\ Due(i)
           /\ LET array == virt_list[i].array
                  fits == minheightsOf(array) <= doing.max_minheights
                  rows == IF fits THEN array.rows ELSE doing.max_minheights * array.maxaccess
              IN  /\ opened => ~fits
                  /\ virt_list' = [virt_list EXCEPT ![i].rows_in_mem = rows,
                                                    ![i].b_s_open = opened]
                  /\ IF fits \/ opened
                     THEN \/ BeginArray(JPOOL_IMAGE, array, rows, i, doing.max_minheights)
                          \/ NoArray(JPOOL_IMAGE, array, rows)
                     ELSE /\ doing' = Failed
                          /\ UNCHANGED <<small_list, space, last_rowsperchunk>>
    /\ UNCHANGED <<large_list, max_memory_to_use>>

EndRealize ==
    /\ doing.at = "realize" /\ Unrealized = {}
    /\ doing' = Idle
    /\ UNCHANGED <<lists, space, max_memory_to_use, virt_list, last_rowsperchunk>>

-----------------------------------------------------------------------------
(* free_pool(), self_destruct() *)

Free(pools) ==
    /\ doing.at \in {"idle", "failed"}
    /\ doing' = [at |-> "freeing", pools |-> pools]
    /\ virt_list' = IF \E i \in DOMAIN pools : pools[i] = JPOOL_IMAGE THEN <<>> ELSE virt_list
    /\ UNCHANGED <<lists, space, max_memory_to_use, last_rowsperchunk>>

\* Mutant of FreedSpace: what is left in the block is forgotten.
FreedSpace_InUse(block) == block.bytes_used + Overhead

FreedSpace(block) == block.bytes_used + block.bytes_left + Overhead

GiveBack(block) ==
    /\ total_space_allocated' = total_space_allocated - FreedSpace(block)
    /\ available' = available + block.size

FreeLarge ==
    /\ doing.at = "freeing" /\ doing.pools # <<>>
    /\ LET blocks == large_list[Head(doing.pools)]
       IN  /\ blocks # <<>>
           /\ GiveBack(blocks[Len(blocks)])
           /\ large_list' = [large_list EXCEPT ![Head(doing.pools)] =
                                 SubSeq(@, 1, Len(@) - 1)]
    /\ UNCHANGED <<small_list, max_memory_to_use, virt_list, last_rowsperchunk, doing>>

FreeSmall ==
    /\ doing.at = "freeing" /\ doing.pools # <<>>
    /\ large_list[Head(doing.pools)] = <<>>
    /\ LET blocks == small_list[Head(doing.pools)]
       IN  /\ blocks # <<>>
           /\ GiveBack(Head(blocks))
           /\ small_list' = [small_list EXCEPT ![Head(doing.pools)] = Tail(@)]
    /\ UNCHANGED <<large_list, max_memory_to_use, virt_list, last_rowsperchunk, doing>>

PoolFreed ==
    /\ doing.at = "freeing" /\ doing.pools # <<>>
    /\ large_list[Head(doing.pools)] = <<>> /\ small_list[Head(doing.pools)] = <<>>
    /\ IF Tail(doing.pools) # <<>>
       THEN doing' = [doing EXCEPT !.pools = Tail(@)] /\ UNCHANGED available
       ELSE IF Head(doing.pools) = JPOOL_PERMANENT
       THEN doing' = Closed /\ available' = available + ControlSize
       ELSE doing' = Idle /\ UNCHANGED available
    /\ UNCHANGED <<lists, total_space_allocated, max_memory_to_use, virt_list,
                   last_rowsperchunk>>

-----------------------------------------------------------------------------
(* The calls of clients, any of which may end in an error.                 *)
Fail ==
    /\ doing' = Failed
    /\ UNCHANGED <<lists, space, max_memory_to_use, virt_list, last_rowsperchunk>>

AllocSmall(object) ==
    /\ doing = Idle /\ object.of = "small"
    /\ \/ /\ alloc_small(object.pool, object.size)
          /\ UNCHANGED <<large_list, max_memory_to_use, virt_list, last_rowsperchunk, doing>>
       \/ CannotAllocSmall(object.pool, object.size) /\ Fail

AllocLarge(object) ==
    /\ doing = Idle /\ object.of = "large"
    /\ \/ /\ alloc_large(object.pool, 1, object.size)
          /\ UNCHANGED <<small_list, max_memory_to_use, virt_list, last_rowsperchunk, doing>>
       \/ CannotAllocLarge(object.size) /\ Fail

AllocArray(array) ==
    /\ doing = Idle
    /\ BeginArray(array.pool, array, array.rows, 0, 0) \/ NoArray(array.pool, array, array.rows)
    /\ UNCHANGED <<large_list, max_memory_to_use, virt_list>>

NoRows ==
    /\ doing.at = "rows" /\ doing.numrows > 0
    /\ CannotAllocLarge(Smaller(doing.rowsperchunk, doing.numrows) * doing.length)
    /\ Fail

RequestArray(array) ==
    /\ doing = Idle
    /\ \/ request_virt_array(array)
       \/ CannotAllocSmall(JPOOL_IMAGE, ArrayControl) /\ Fail

RealizeArrays ==
    /\ doing = Idle
    /\ doing' = [at |-> "measure", next |-> 1, space_per_minheight |-> 0, maximum_space |-> 0]
    /\ UNCHANGED <<lists, space, max_memory_to_use, virt_list, last_rowsperchunk>>

\* jpeg_abort() after an error or instead of the rest; jpeg_destroy(); another object.
FreePool(pool) == Free(<<pool>>)
SelfDestruct == Free(<<JPOOL_IMAGE, JPOOL_PERMANENT>>)

PoolsInit ==
    /\ small_list = [pool \in Pools |-> <<>>]
    /\ large_list = [pool \in Pools |-> <<>>]
    /\ total_space_allocated = ControlSize
    /\ max_memory_to_use = 0
    /\ virt_list = <<>>
    /\ last_rowsperchunk = 0
    /\ available = SystemMemory - ControlSize
    /\ doing = Idle

jinit_memory_mgr ==
    /\ doing = Closed
    /\ total_space_allocated' = ControlSize
    /\ max_memory_to_use' = 0
    /\ virt_list' = <<>>
    /\ last_rowsperchunk' = 0
    /\ available' = available - ControlSize
    /\ doing' = Idle
    /\ UNCHANGED lists

\* The application, or JPEGMEM in the environment.
SetLimit(limit) ==
    /\ doing = Idle
    /\ max_memory_to_use' = limit
    /\ UNCHANGED <<lists, space, virt_list, last_rowsperchunk, doing>>

PoolsNext ==
    \/ \E object \in Objects : AllocSmall(object) \/ AllocLarge(object)
    \/ \E array \in Arrays : AllocArray(array)
    \/ \E array \in VirtualArrays : RequestArray(array)
    \/ AllocRows \/ NoRows \/ EndArray
    \/ RealizeArrays \/ MeasureArray \/ ShareOut \/ RealizeArray \/ EndRealize
    \/ FreePool(JPOOL_IMAGE) \/ SelfDestruct
    \/ FreeLarge \/ FreeSmall \/ PoolFreed
    \/ \E limit \in Limits : SetLimit(limit)
    \/ jinit_memory_mgr

PoolsSpec == PoolsInit /\ [][PoolsNext]_poolVars

-----------------------------------------------------------------------------
Blocks(pool) ==
    {small_list[pool][i] : i \in DOMAIN small_list[pool]}
        \cup {large_list[pool][i] : i \in DOMAIN large_list[pool]}

\* Every object lies in its block, behind the header, and every row of an array too; it is
\* aligned, wherever malloc() placed the block; and no two share a byte.
ObjectsInPlace ==
    \A pool \in Pools : \A block \in Blocks(pool) : \A i \in DOMAIN block.objects :
        LET o == block.objects[i]
        IN  /\ o.start % ALIGN_SIZE = 0
            /\ block.base + HeaderSize <= o.start
            /\ o.start + o.size <= block.base + block.size
            /\ \A j \in DOMAIN block.objects \ {i} :
                   LET p == block.objects[j]
                   IN  o.start + o.size <= p.start \/ p.start + p.size <= o.start

\* What the manager believes it holds is what malloc() has given, through every error, and
\* nothing is left when it closes.
SpaceAccounted ==
    /\ doing # Closed => total_space_allocated + available = SystemMemory
    /\ doing = Closed => available = SystemMemory

\* A chunk of rows is never too big for alloc_large(), if the rows were not too wide.
RowsFitChunks ==
    doing.at = "rows" => ~TooBig(Smaller(doing.rowsperchunk, doing.numrows) * doing.length)

\* The buffer of a virtual array is as do_sarray_io() goes through it: rowsperchunk rows
\* together, and then the rest; and as VirtArray has it, whole or so many times maxaccess.
BuffersAsUsed ==
    \A i \in DOMAIN virt_list \ Unrealized :
        LET v == virt_list[i]
        IN  /\ \A k \in DOMAIN v.mem_buffer :
                  v.mem_buffer[k] =
                      Smaller(v.rowsperchunk, v.rows_in_mem - (k - 1) * v.rowsperchunk)
            /\ (Len(v.mem_buffer) - 1) * v.rowsperchunk < v.rows_in_mem
            /\ v.rows_in_mem <= Len(v.mem_buffer) * v.rowsperchunk
            /\ IF v.b_s_open
               THEN \E m \in 1 .. minheightsOf(v.array) - 1 :
                        v.rows_in_mem = m * v.array.maxaccess
               ELSE v.rows_in_mem = v.array.rows

MemoryAccounted == SpaceAccounted /\ RowsFitChunks /\ BuffersAsUsed
=============================================================================
