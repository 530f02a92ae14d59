----------------------------- MODULE PlainArray -----------------------------
(***************************************************************************)
(* What a virtual array promises to its clients (jmemmgr.c, "About virtual *)
(* array management"): an array of NumRows rows that keeps what was last   *)
(* written to each row, however little of it is in memory.  A client opens *)
(* a strip of at most MaxAccess rows and works on `view', the rows behind  *)
(* the pointer it was given, until it opens the next strip.  Writers have  *)
(* to fill the array without gaps; readers of a pre-zeroed array may look  *)
(* ahead of the writers and see zeroes.                                    *)
(***************************************************************************)
EXTENDS Integers

CONSTANTS NumRows,    \* height of the array
          MaxAccess,  \* most rows a client may open at once
          Data,       \* what a row can hold
          Zero        \* the contents of a zeroed row

VARIABLES status,     \* "requested", "realized", "error" or "freed"
          pre_zero,   \* were the rows requested pre-zeroed?
          content,    \* the array; Zero where nothing was opened yet
          defined,    \* rows below this one have been opened for writing
          strip,      \* the strip last asked for: rows start .. end-1
          view        \* the rows behind the client's pointer

vars == <<status, pre_zero, content, defined, strip, view>>

Rows == 0 .. NumRows - 1
NoStrip == [start |-> 0, end |-> 0, writable |-> FALSE]
NoView == [r \in {} |-> Zero]
Blank == [r \in Rows |-> Zero]

(* The accesses a client is entitled to.                                   *)
WellFormed(s, e, w) ==
    /\ e <= NumRows
    /\ e - s <= MaxAccess
    /\ IF w THEN s <= defined ELSE pre_zero \/ e <= defined

Init ==
    /\ status = "requested"
    /\ pre_zero \in BOOLEAN
    /\ content = Blank
    /\ defined = 0
    /\ strip = NoStrip
    /\ view = NoView

(* When the array is realized there may turn out to be no room for it.     *)
Realize ==
    /\ status = "requested"
    /\ status' \in {"realized", "error"}
    /\ UNCHANGED <<pre_zero, content, defined, strip, view>>

(* A well-formed access hands out exactly the rows of the array.  Rows of  *)
(* an array that is not pre-zeroed hold anything when they are first       *)
(* opened for writing; no other access changes the contents.               *)
Open(s, e, w) ==
    /\ status = "realized"
    /\ WellFormed(s, e, w)
    /\ strip' = [start |-> s, end |-> e, writable |-> w]
    /\ defined' = IF w /\ defined < e THEN e ELSE defined
    /\ content' \in [Rows -> Data]
    /\ \A r \in Rows :
          pre_zero \/ r \notin defined .. defined' - 1 => content'[r] = content[r]
    /\ view' = [r \in s .. e - 1 |-> content'[r]]
    /\ UNCHANGED <<status, pre_zero>>

(* Any other access, and every access before the array is realized, ends   *)
(* in ERREXIT: the array is unusable until its pool is freed.              *)
Refuse(s, e, w) ==
    /\ \/ status = "requested"
       \/ status = "realized" /\ ~WellFormed(s, e, w)
    /\ status' = "error"
    /\ strip' = [start |-> s, end |-> e, writable |-> w]
    /\ view' = NoView
    /\ UNCHANGED <<pre_zero, content, defined>>

(* The client stores v into a row of the strip it opened for writing.      *)
Store(r, v) ==
    /\ status = "realized"
    /\ strip.writable
    /\ r \in strip.start .. strip.end - 1
    /\ content' = [content EXCEPT ![r] = v]
    /\ view' = [view EXCEPT ![r] = v]
    /\ UNCHANGED <<status, pre_zero, defined, strip>>

(* The pool goes away; the next image requests the array afresh.           *)
Free ==
    /\ status # "freed"
    /\ status' = "freed"
    /\ strip' = NoStrip
    /\ view' = NoView
    /\ defined' = 0
    /\ content' = Blank
    /\ UNCHANGED pre_zero

Request ==
    /\ status = "freed"
    /\ status' = "requested"
    /\ pre_zero' \in BOOLEAN
    /\ UNCHANGED <<content, defined, strip, view>>

Next ==
    \/ Realize
    \/ \E s \in Rows, n \in 1 .. MaxAccess + 1, w \in BOOLEAN :
          \/ Open(s, s + n, w)
          \/ Refuse(s, s + n, w)
    \/ \E r \in Rows, v \in Data : Store(r, v)
    \/ Free
    \/ Request

Spec == Init /\ [][Next]_vars
=============================================================================
