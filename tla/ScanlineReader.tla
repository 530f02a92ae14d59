--------------------------- MODULE ScanlineReader ---------------------------
(***************************************************************************)
(* What jpeg_read_scanlines and jpeg_skip_scanlines promise (libjpeg.txt): *)
(* the lines of the image, in order and each once, whatever number the     *)
(* application asks for at a time; skipped lines are the only ones left    *)
(* out, and nothing lies below the bottom of the image.                    *)
(***************************************************************************)
EXTENDS Integers, Sequences

CONSTANT MaxLines    \* most lines read at a time

VARIABLES height,     \* lines of the image
          line,       \* the next line
          given       \* the lines handed out by the last call

Init == height \in Nat /\ line = 0 /\ given = << >>

(* A call may hand out fewer lines than it has room for, or none if the    *)
(* data source suspends.                                                   *)
Read ==
    \E n \in 0 .. MaxLines :
        /\ line + n <= height
        /\ given' = [i \in 1 .. n |-> line + i - 1]
        /\ line' = line + n
        /\ UNCHANGED height

Skip ==
    /\ line' \in line .. height
    /\ given' = << >>
    /\ UNCHANGED height

(* Buffered-image mode: another output pass.                               *)
StartPass == line' = 0 /\ given' = << >> /\ UNCHANGED height

Next == Read \/ Skip \/ StartPass

Spec == Init /\ [][Next]_<<height, line, given>>
=============================================================================
