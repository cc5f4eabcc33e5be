CONSTANTS
    PAGE_SIZE = 16
    MaxPages = 2
    a = a
    b = b
    c = c
    none = none
    Record = {a, b, c}
    NoRecord = NoRecord
    Length <- MCLength
SPECIFICATION Spec
VIEW LiveView
INVARIANTS
    TypeOK
    DiskSound
    AckedReadable
    AtMostOneUnusedPage
PROPERTIES
    GrowsOnlyWhenFull
    ImplementsRecordStore
