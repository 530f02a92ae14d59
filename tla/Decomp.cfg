SPECIFICATION FairSpec
CONSTANTS
    total_iMCU_rows = 3
    Files <- AllFiles
    Settings <- BothSettings
    Calls <- AllCalls
    BlockSmoothing = TRUE
    DCScans = {1}
    MaxScanNumber = 4
    SameScanOnRetry = TRUE
INVARIANTS ShownInStep FreshRows ScanWillCome
PROPERTY CallsComplete
