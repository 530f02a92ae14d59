---------------------------- MODULE MCDecompRows ----------------------------
(* Instances of DecompRows for TLC.                                        *)
EXTENDS DecompRows

Setup(kind, m, v, rows, height, quant) ==
    [kind |-> kind, M |-> m, V |-> v, rgroup |-> rows,
     output_height |-> height, quant |-> quant]

(* Fancy 1:2 upsampling with iMCU rows of 4, 6 and 8 lines: less than one  *)
(* iMCU row, a row group more or a line less than whole ones.              *)
ContextSetups ==
    {Setup("context", 2, 2, 1, h, "none") : h \in {1, 3, 4, 5, 9, 16}}
      \cup {Setup("context", 2, 2, 1, h, "two") : h \in {1, 4, 11}}
      \cup {Setup("context", 3, 2, 1, h, "one") : h \in {7, 13}}
      \cup {Setup("context", 2, 4, 2, h, "none") : h \in {5, 18}}

(* The last row group, and the last strip, are cut by the bottom.          *)
CutSetup == {Setup("simple", 3, 2, 1, 7, "none")}
CutStripSetup == {Setup("simple", 1, 3, 1, 5, "two")}

(* Full-size and replicated rows, with down to one row group in an iMCU    *)
(* row.                                                                    *)
SimpleSetups ==
    {Setup("simple", 1, 2, 1, h, "none") : h \in {1, 6, 7}}
      \cup {Setup("simple", 2, 2, 1, 9, q) : q \in {"none", "one", "two"}}
      \cup {Setup("simple", 3, 1, 1, 8, "one"),
            Setup("simple", 2, 3, 1, 14, "none")}
      \cup CutSetup \cup CutStripSetup

MergedSetups ==
    {Setup("merged", 2, 2, 1, h, "none") : h \in {1, 8, 9, 14}}
      \cup {Setup("merged", 2, 2, 1, 9, q) : q \in {"one", "two"}}
      \cup {Setup("merged", 1, 1, 1, 3, "none")}

AllSetups == ContextSetups \cup SimpleSetups \cup MergedSetups

(* Two iMCU rows of two full-size lines.                                   *)
FullSizeSetup == {Setup("simple", 2, 1, 1, 4, "none")}
=============================================================================
