CONSTANTS
    Jobs <- AllJobs
    NextJobs <- Seconds
    APP0_DATA_LEN = 3
    APP14_DATA_LEN = 2
    MIN_GET_BYTES = 3
SPECIFICATION Spec
INVARIANTS
    ReadInPlace
    MarkersAsWritten
PROPERTY
    AllRead
