CONSTANTS
    Shared = TRUE
    MaxLen = 2
    MaxBytes = 6
SPECIFICATION Spec
PROPERTY ImplementsByteQueue
