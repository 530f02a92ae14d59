----------------------------- MODULE MCDecompAPI -----------------------------
(* Instances of DecompAPI for TLC: the files and the applications that     *)
(* libjpeg.txt describes.                                                  *)
EXTENDS DecompAPI

File(scans, multi, suspends) ==
    [scans |-> scans, multi |-> multi, suspends |-> suspends]
(* A progressive file, and one that announces less than it has.            *)
ThreeScans == {File(3, TRUE, TRUE), File(2, FALSE, TRUE)}
TwoScansInMemory == {File(2, TRUE, FALSE)}
(* Tables only, one scan, announced and unannounced further scans.         *)
AllKinds ==
    {File(f[1], f[2], s) : f \in {<<0, FALSE>>, <<1, FALSE>>, <<1, TRUE>>,
                                  <<2, TRUE>>, <<2, FALSE>>},
                           s \in BOOLEAN}
AllFiles == ThreeScans \cup AllKinds

Setting(buffered, raw, two_pass) ==
    [buffered_image |-> buffered, raw_data_out |-> raw,
     two_pass_quantize |-> two_pass]
Buffered == {Setting(TRUE, FALSE, two_pass) : two_pass \in BOOLEAN}
Direct == {Setting(FALSE, raw, two_pass) : raw, two_pass \in BOOLEAN}
BothSettings ==
    [f \in AllFiles |-> (IF f \in ThreeScans THEN Buffered ELSE {})
                          \cup (IF f \in AllKinds THEN Direct ELSE {})]
PlainBuffered == [f \in TwoScansInMemory |-> {Setting(TRUE, FALSE, FALSE)}]

DecodeCalls == {"read_header", "consume_input", "start_decompress",
                "read_scanlines", "read_raw_data", "finish_decompress",
                "abort"}
DirectCalls == DecodeCalls \cup {"skip_scanlines"}
BufferedCalls == DecodeCalls \cup {"start_output", "finish_output",
                                   "read_coefficients"}
AllCalls == [buffered \in BOOLEAN |->
               BufferedCalls \cup IF buffered THEN {} ELSE DirectCalls]
CallsWithSkips == [buffered \in BOOLEAN |-> BufferedCalls \cup DirectCalls]
=============================================================================
