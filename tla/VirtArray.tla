------------------------------ MODULE VirtArray ------------------------------
(***************************************************************************)
(* One virtual array of the memory manager (jmemmgr.c): a window of        *)
(* rows_in_mem rows in memory over an array of rows_in_array rows, the     *)
(* rest of which is kept in backing store.  The control block of a sample  *)
(* array is modelled; block arrays run the same code on wider rows.        *)
(*                                                                         *)
(* jpeg_open_backing_store of the jmemsys.h implementation that is linked  *)
(* may fail: the one in the tree (jmemnobs.c) always does, others open a   *)
(* temporary file.                                                         *)
(***************************************************************************)
EXTENDS Integers

CONSTANTS rows_in_array, maxaccess,   \* the client's request
          Data,            \* what a row can hold
          Zero,            \* a zeroed row
          Junk             \* what fresh memory and fresh files hold

ASSUME VirtArrayAssumption ==
    /\ rows_in_array \in Nat \ {0}
    /\ maxaccess \in 1 .. rows_in_array
    /\ Zero \in Data /\ Junk \in Data

VARIABLES status,           \* life of the control block, see TypeOK
          pre_zero,         \* does the client want zeroes to begin with?
          rows_in_mem,      \* height of mem_buffer
          b_s_open,         \* is there a backing store?
          mem_buffer,       \* the window, by buffer row
          backing,          \* the backing store, by array row
          cur_start_row,    \* array row held in buffer row 0
          first_undef_row,  \* rows from here on were never opened for writing
          dirty,            \* may mem_buffer differ from backing?
          strip             \* the access the client made last

window == <<cur_start_row, mem_buffer, backing, dirty>>
vars == <<status, pre_zero, rows_in_mem, b_s_open, window, first_undef_row, strip>>

Rows == 0 .. rows_in_array - 1
BufferRows == 0 .. rows_in_mem - 1
NoStrip == [start |-> 0, end |-> 0, writable |-> FALSE]

(* request_virt_sarray: an unrealized control block.  mem_buffer is NULL   *)
(* here; the empty buffer stands for it.                                   *)
Init ==
    /\ status = "requested"
    /\ pre_zero \in BOOLEAN
    /\ rows_in_mem = 0
    /\ b_s_open = FALSE
    /\ mem_buffer = [i \in BufferRows |-> Junk]
    /\ backing = [r \in Rows |-> Junk]
    /\ cur_start_row = 0
    /\ first_undef_row = 0
    /\ dirty = FALSE
    /\ strip = NoStrip

request_virt_sarray ==
    /\ status = "freed"
    /\ status' = "requested"
    /\ pre_zero' \in BOOLEAN
    /\ UNCHANGED <<rows_in_mem, b_s_open, window, first_undef_row, strip>>

(* realize_virt_arrays: how many strips of maxaccess rows the window may   *)
(* hold (max_minheights) depends on the memory the system reports, and     *)
(* the allocation that follows may still fail (~enough), and so may the    *)
(* opening of a backing store.  An array that could not be realized keeps  *)
(* a NULL mem_buffer nobody gets to see.                                   *)
minheights == (rows_in_array - 1) \div maxaccess + 1

CanRealize_NoStoreNeeded(fits, enough, opened) == enough
CanRealize(fits, enough, opened) == enough /\ (fits \/ opened)

realize_virt_arrays(max_minheights, enough, opened) ==
    LET fits == minheights <= max_minheights
    IN  /\ status = "requested"
        /\ status' = IF CanRealize(fits, enough, opened) THEN "realized"
                                                         ELSE "error"
        /\ rows_in_mem' = IF fits THEN rows_in_array
                                  ELSE max_minheights * maxaccess
        /\ b_s_open' = (~fits /\ opened)
        /\ mem_buffer' = [i \in BufferRows' |-> Junk]
        /\ cur_start_row' = 0
        /\ first_undef_row' = 0
        /\ dirty' = FALSE
        /\ UNCHANGED <<pre_zero, backing, strip>>

(* do_sarray_io moves the rows of the window that are defined and inside   *)
(* the array; a chunk boundary in mem_buffer changes nothing about which.  *)
IoRows(start) ==
    {r \in Rows : /\ start <= r
                  /\ r < start + rows_in_mem
                  /\ r < first_undef_row}

write_backing_store(start) ==
    [r \in Rows |-> IF r \in IoRows(start) THEN mem_buffer[r - start]
                                           ELSE backing[r]]

read_backing_store(start, store) ==
    [i \in BufferRows |-> IF start + i \in IoRows(start) THEN store[start + i]
                                                         ELSE mem_buffer[i]]

(* Where access_virt_sarray puts the window: at the strip on a forward     *)
(* scan, so that the strip is the top of the window on a backward one.     *)
NewStart(s, e) ==
    IF s > cur_start_row THEN s
    ELSE IF e - rows_in_mem < 0 THEN 0 ELSE e - rows_in_mem

InWindow(s, e) == s >= cur_start_row /\ e <= cur_start_row + rows_in_mem

MoveWindow(s, e) ==
    LET store == IF dirty THEN write_backing_store(cur_start_row) ELSE backing
    IN  [cur   |-> NewStart(s, e),
         store |-> store,
         buf   |-> read_backing_store(NewStart(s, e), store),
         dirty |-> FALSE]

HoldWindow == [cur   |-> cur_start_row,
               store |-> backing,
               buf   |-> mem_buffer,
               dirty |-> dirty]

WindowFor(s, e) ==
    IF InWindow(s, e) \/ ~b_s_open THEN HoldWindow ELSE MoveWindow(s, e)

jzero_rows(buf, from, to) ==
    [i \in BufferRows |-> IF from <= i /\ i < to THEN Zero ELSE buf[i]]

(* The first row of the strip to prezero, for a strip that starts at s.    *)
undef_row_WholeStrip(s) == s
undef_row(s) == IF first_undef_row < s THEN s ELSE first_undef_row

(* access_virt_sarray opens rows s .. e-1.  The first failed check leaves  *)
(* everything alone; the later ones leave the window where it was moved.   *)
BadRequest(s, e) == e > rows_in_array \/ e - s > maxaccess

MustFail(s, e, w) ==
    \/ ~InWindow(s, e) /\ ~b_s_open                     \* JERR_VIRTUAL_BUG
    \/ w /\ first_undef_row < s                         \* writer left a gap
    \/ ~w /\ first_undef_row < e /\ ~pre_zero           \* undefined data

RefuseAccess(s, e) ==
    /\ \/ status = "requested"
       \/ status = "realized" /\ BadRequest(s, e)
    /\ status' = "error"
    /\ UNCHANGED <<window, first_undef_row>>

FailAccess(s, e, w, m) ==
    /\ MustFail(s, e, w)
    /\ status' = "error"
    /\ mem_buffer' = m.buf
    /\ dirty' = m.dirty
    /\ UNCHANGED first_undef_row

GrantAccess(s, e, w, m) ==
    /\ ~MustFail(s, e, w)
    /\ first_undef_row' =
            IF w /\ first_undef_row < e THEN e ELSE first_undef_row
    /\ mem_buffer' =
            IF pre_zero /\ first_undef_row < e
              THEN jzero_rows(m.buf, undef_row(s) - m.cur, e - m.cur)
              ELSE m.buf
    /\ dirty' = (m.dirty \/ w)
    /\ UNCHANGED status

MoveAndAccess(s, e, w) ==
    LET m == WindowFor(s, e)
    IN  /\ status = "realized"
        /\ ~BadRequest(s, e)
        /\ cur_start_row' = m.cur
        /\ backing' = m.store
        /\ FailAccess(s, e, w, m) \/ GrantAccess(s, e, w, m)

access_virt_sarray(s, e, w) ==
    /\ RefuseAccess(s, e) \/ MoveAndAccess(s, e, w)
    /\ strip' = [start |-> s, end |-> e, writable |-> w]
    /\ UNCHANGED <<pre_zero, rows_in_mem, b_s_open>>

(* The client stores through the pointer it was given.                     *)
StoreRow(r, v) ==
    /\ status = "realized"
    /\ strip.writable
    /\ r \in strip.start .. strip.end - 1
    /\ mem_buffer' = [mem_buffer EXCEPT ![r - cur_start_row] = v]
    /\ UNCHANGED <<status, pre_zero, rows_in_mem, b_s_open, cur_start_row,
                   backing, dirty, first_undef_row, strip>>

(* free_pool(JPOOL_IMAGE) closes the backing store and drops the control   *)
(* block with the pool it lives in.                                        *)
free_pool ==
    /\ status # "freed"
    /\ status' = "freed"
    /\ rows_in_mem' = 0
    /\ b_s_open' = FALSE
    /\ mem_buffer' = [i \in BufferRows' |-> Junk]
    /\ backing' = [r \in Rows |-> Junk]
    /\ cur_start_row' = 0
    /\ first_undef_row' = 0
    /\ dirty' = FALSE
    /\ strip' = NoStrip
    /\ UNCHANGED pre_zero

Next ==
    \/ request_virt_sarray
    \/ \E m \in 1 .. minheights, enough, opened \in BOOLEAN :
          realize_virt_arrays(m, enough, opened)
    \/ \E s \in Rows, n \in 1 .. maxaccess + 1, w \in BOOLEAN :
          access_virt_sarray(s, s + n, w)
    \/ \E r \in Rows, v \in Data : StoreRow(r, v)
    \/ free_pool

Spec == Init /\ [][Next]_vars
-----------------------------------------------------------------------------
Strips == [start : Rows, end : 0 .. rows_in_array + maxaccess,
           writable : BOOLEAN]

(* Type invariant: the control block's fields (struct jvirt_sarray_control) *)
(* stay in range; mem_buffer is as tall as rows_in_mem says.                *)
TypeOK ==
    /\ status \in {"requested", "realized", "error", "freed"}
    /\ pre_zero \in BOOLEAN
    /\ rows_in_mem \in 0 .. rows_in_array
    /\ b_s_open \in BOOLEAN
    /\ mem_buffer \in [BufferRows -> Data]
    /\ backing \in [Rows -> Data]
    /\ cur_start_row \in Rows
    /\ first_undef_row \in 0 .. rows_in_array
    /\ dirty \in BOOLEAN
    /\ strip \in Strips

(* The pointer access_virt_sarray returned, mem_buffer + (start_row -      *)
(* cur_start_row), and the rows the client may use behind it lie inside    *)
(* mem_buffer, even when the window hangs over the end of the array.       *)
StripInWindow ==
    status = "realized" =>
        /\ cur_start_row <= strip.start
        /\ strip.end <= cur_start_row + rows_in_mem
        /\ strip.end <= rows_in_array

(* Nothing is lost when a clean window is dropped: the backing store holds *)
(* every defined row of a window that is not dirty.                        *)
CleanWindowSaved ==
    status = "realized" /\ b_s_open /\ ~dirty =>
        \A r \in IoRows(cur_start_row) :
            backing[r] = mem_buffer[r - cur_start_row]

(* The window can hold any strip a client may ask for.                     *)
WindowHoldsStrip == status = "realized" => maxaccess <= rows_in_mem

(* An array that was not realized yet has no strip open.                   *)
NothingOpen ==
    status \in {"requested", "freed"} => strip = NoStrip /\ first_undef_row = 0

(* Whoever may store into the window has marked it dirty, and the rows he  *)
(* may store into as defined: both are what makes them be written back.    *)
WritersMarkDirty ==
    status = "realized" /\ strip.writable =>
        dirty /\ strip.end <= first_undef_row

(* ERREXIT(cinfo, JERR_VIRTUAL_BUG) is unreachable: an array without a     *)
(* backing store is in memory as a whole and its window never moves.       *)
NoVirtualBug ==
    status = "realized" /\ ~b_s_open =>
        rows_in_mem = rows_in_array /\ cur_start_row = 0

(* The inductive invariant.                                                *)
IInv ==
    /\ TypeOK
    /\ StripInWindow
    /\ CleanWindowSaved
    /\ WindowHoldsStrip
    /\ NothingOpen
    /\ WritersMarkDirty
    /\ NoVirtualBug

(* Where row r of the array is found.                                      *)
RowAt(r) ==
    IF cur_start_row <= r /\ r < cur_start_row + rows_in_mem
      THEN mem_buffer[r - cur_start_row]
      ELSE backing[r]

(* The array the clients see (module PlainArray): defined rows live in the *)
(* window if they are there and in the backing store otherwise; the client *)
(* works on the window itself.                                             *)
content == [r \in Rows |-> IF r < first_undef_row THEN RowAt(r) ELSE Zero]

view == [r \in IF status = "realized" THEN strip.start .. strip.end - 1 ELSE {}
            |-> mem_buffer[r - cur_start_row]]

PA == INSTANCE PlainArray WITH
    NumRows   <- rows_in_array,
    MaxAccess <- maxaccess,
    defined   <- first_undef_row

(* However the window moves, the array behaves as one that is wholly in    *)
(* memory: accesses return what was last stored, and are refused only when *)
(* the client asks for what it is not entitled to.                         *)
ImplementsPlainArray == PA!Spec
=============================================================================
