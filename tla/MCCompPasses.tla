---------------------------- MODULE MCCompPasses ----------------------------
(* Instances of CompPasses for TLC.                                        *)
EXTENDS CompPasses

Scan(comps, Ss, Se, Ah) == [comps |-> comps, Ss |-> Ss, Se |-> Se, Ah |-> Ah]
Comp(h, v, n) == [h |-> h, v |-> v, dc |-> n, ac |-> n]
Image(comps, width, height, script, optimize, arith, transcode, rows) ==
    [comps |-> comps, width |-> width, height |-> height, scan_info |-> script,
     optimize |-> optimize, arith |-> arith, transcode |-> transcode,
     restart_in_rows |-> rows]

YC == <<Comp(2, 2, 0), Comp(1, 1, 1)>>
Shared == <<Comp(1, 2, 0), Comp(2, 1, 0)>>
Gray == <<Comp(2, 2, 0)>>
EachAlone == <<Scan(<<1>>, 0, 63, 0), Scan(<<2>>, 0, 63, 0)>>
Progression == <<Scan(<<1, 2>>, 0, 0, 0), Scan(<<1>>, 1, 63, 0),
                 Scan(<<1, 2>>, 0, 0, 1), Scan(<<1>>, 1, 63, 1)>>

(* One or two iMCU rows, whole or not; one pass or several, with and       *)
(* without tables to compute.                                              *)
SomeImages == {
    Image(YC, 3, 3, << >>, FALSE, FALSE, FALSE, 0),
    Image(Shared, 3, 3, << >>, TRUE, FALSE, FALSE, 1),
    Image(YC, 3, 4, EachAlone, FALSE, FALSE, FALSE, 1),
    Image(YC, 2, 3, EachAlone, TRUE, FALSE, FALSE, 0),
    Image(Gray, 3, 3, << >>, FALSE, FALSE, FALSE, 0),
    Image(YC, 3, 1, Progression, FALSE, FALSE, FALSE, 1),
    Image(YC, 1, 3, Progression, FALSE, TRUE, FALSE, 0),
    Image(YC, 3, 3, << >>, TRUE, TRUE, FALSE, 0),
    Image(YC, 3, 3, << >>, FALSE, FALSE, TRUE, 0),
    Image(Shared, 3, 3, Progression, FALSE, FALSE, TRUE, 0),
    Image(Gray, 2, 2, << >>, TRUE, TRUE, TRUE, 0)}

TwoImages == {
    Image(Gray, 2, 1, << >>, TRUE, FALSE, FALSE, 0),
    Image(Gray, 2, 1, << >>, FALSE, FALSE, FALSE, 0)}
=============================================================================
