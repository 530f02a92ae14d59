SPECIFICATION FairSpec
CONSTANTS
    DCTSIZE = 2
    Setups <- AllSetups
    MaxLines = 5
    Suspending = TRUE
INVARIANT CountersAgree
PROPERTIES ImplementsWriter LinesTaken
