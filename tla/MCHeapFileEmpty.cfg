CONSTANTS
    PAGE_SIZE = 16
    MaxPages = 2
    a = a
    b = b
    c = c
    none = none
    Record = {none, a}
    NoRecord = NoRecord
    Length <- MCLength
SPECIFICATION Spec
VIEW LiveView
PROPERTY GrowsOnlyWhenFull
