SPECIFICATION Spec
CONSTANTS
    Setups <- AllSetups
    MaxLines = 5
    AnyCalls = FALSE
INVARIANT TypeOK
PROPERTIES ImplementsReader CallsAsAsked
