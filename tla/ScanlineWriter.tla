--------------------------- MODULE ScanlineWriter ---------------------------
(***************************************************************************)
(* What jpeg_write_scanlines promises (libjpeg.txt): the application hands *)
(* over lines until next_scanline is image_height, submitting again what a *)
(* call did not take; by then the compressor has had every iMCU row of the *)
(* image once, in order, and each only when all its lines were there.      *)
(***************************************************************************)
EXTENDS Integers

VARIABLES height,    \* lines of the image
          per_row,   \* lines of an iMCU row
          supplied,  \* lines the application has handed over
          line,      \* lines it was told were taken
          done,      \* iMCU rows compressed
          out        \* the number of the last of them

iMCU_rows == (height + per_row - 1) \div per_row
fixed == <<height, per_row>>

Init == supplied = 0 /\ line = 0 /\ done = 0

(* A call begins with the first line that was not taken.                   *)
Supply ==
    /\ supplied' \in supplied .. height
    /\ UNCHANGED <<fixed, line, done, out>>

Compress ==
    /\ supplied >= (done + 1) * per_row \/ supplied = height
    /\ done < iMCU_rows
    /\ done' = done + 1
    /\ out' = done
    /\ UNCHANGED <<fixed, supplied, line>>

(* When all lines are taken, all iMCU rows are compressed.                 *)
Return ==
    /\ line' \in line .. supplied
    /\ line' = height => done = iMCU_rows
    /\ UNCHANGED <<fixed, supplied, done, out>>

Next == Supply \/ Compress \/ Return

Spec == Init /\ [][Next]_<<fixed, supplied, line, done, out>>
=============================================================================
