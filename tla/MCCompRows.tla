----------------------------- MODULE MCCompRows -----------------------------
(* Instances of CompRows for TLC.                                          *)
EXTENDS CompRows

Setup(v, rows, height, context) ==
    [V |-> v, rgroup |-> rows, image_height |-> height, context |-> context]

(* One to four lines in a row group, two to eight in an iMCU row; images   *)
(* that end anywhere in the first three iMCU rows.                         *)
AllSetups ==
    {Setup(2, 1, h, k) : h \in 1 .. 12, k \in BOOLEAN}
      \cup {Setup(2, 2, h, k) : h \in {3, 8}, k \in BOOLEAN}
      \cup {Setup(1, 1, h, k) : h \in 1 .. 6, k \in BOOLEAN}
      \cup {Setup(3, 1, h, k) : h \in 10 .. 13, k \in BOOLEAN}
      \cup {Setup(4, 2, h, k) : h \in 15 .. 18, k \in BOOLEAN}
=============================================================================
