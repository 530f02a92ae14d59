SPECIFICATION FairSpec
CONSTANTS
    Images <- SomeImages
    MaxImages = 2
    Suspending = TRUE
    FreshTables = TRUE
INVARIANTS MCUsFormed CodedAsTold
PROPERTIES ImplementsDatastream FinishCompletes
