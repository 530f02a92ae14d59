SPECIFICATION Spec
CONSTANTS
    DCTSIZE2 = 20
    LastK = 19
    EOBRUN_BITS = 2
    MAX_CORR_BITS = 37
    MAX_AH_AL = 10
    MaxArriving = 6
    ARITH_DC_L = 0
    ARITH_DC_U = 1
    ARITH_AC_K = 5
    Jobs <- AllJobs
INVARIANTS
    DecodedAsEncoded
    CountedAsEncoded
    CorrectionBitsFit
    ScriptsAgree
    BytesDecode
CHECK_DEADLOCK FALSE
