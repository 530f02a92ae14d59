SPECIFICATION Spec
CONSTANTS
    Images <- SomeImages
    Jobs <- SomeJobs
    DropImage <- SmallImage
INVARIANTS
    OptionsHold
    ShowsTurned
PROPERTY Answered
CHECK_DEADLOCK FALSE
