CONSTANTS
    Shared = FALSE
    MaxLen = 2
    MaxBytes = 6
SPECIFICATION Spec
INVARIANTS TypeOK
PROPERTY ImplementsByteQueue
