SPECIFICATION Spec
CONSTANTS
    Max = 5
INVARIANTS TypeOK PassedTaken
PROPERTIES ImplementsPool ScanReturns
