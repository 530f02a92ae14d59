----------------------------- MODULE Datastream -----------------------------
(***************************************************************************)
(* What the compressor puts into a JPEG datastream, as the decoder needs   *)
(* it: the file header, special markers only there, one frame header, then *)
(* the scans of the script in order, each with all its MCUs, and the       *)
(* trailer.                                                                *)
(***************************************************************************)
EXTENDS Integers, Sequences

VARIABLES phase,    \* "none", "header", "frame" or "ended"
          sizes,    \* MCUs of each scan of the script
          scans,    \* scans begun
          written,  \* MCUs of the last of them
          marked    \* has a special marker been written?

vars == <<phase, sizes, scans, written, marked>>

Init == phase = "none"

WriteFileHeader ==
    /\ phase \in {"none", "ended"}
    /\ phase' = "header" /\ scans' = 0 /\ written' = 0 /\ marked' = FALSE

WriteMarker ==
    /\ phase = "header"
    /\ marked' = TRUE
    /\ UNCHANGED <<phase, sizes, scans, written>>

ScanComplete == scans > 0 => written = sizes[scans]

(* The first scan header comes right after the frame header.               *)
WriteScanHeader ==
    /\ \/ phase = "header" /\ scans = 0
       \/ phase = "frame" /\ scans > 0 /\ ScanComplete
    /\ scans < Len(sizes)
    /\ phase' = "frame"
    /\ scans' = scans + 1
    /\ written' = 0
    /\ UNCHANGED <<sizes, marked>>

WriteMCU ==
    /\ phase = "frame" /\ written < sizes[scans]
    /\ written' = written + 1
    /\ UNCHANGED <<phase, sizes, scans, marked>>

WriteTrailer ==
    /\ phase = "frame" /\ scans = Len(sizes) /\ ScanComplete
    /\ phase' = "ended"
    /\ UNCHANGED <<sizes, scans, written, marked>>

(* The application gives the image up.                                     *)
Abort == phase' = "none"

Next == WriteFileHeader \/ WriteMarker \/ WriteScanHeader \/ WriteMCU
           \/ WriteTrailer \/ Abort

Spec == Init /\ [][Next]_vars
=============================================================================
