CONSTANTS
    PAGE_SIZE = 22
    none = none
    a = a
    b = b
    Record = {none, a, b}
    NoRecord = NoRecord
    Length <- MCLength
SPECIFICATION Spec
VIEW LiveView
INVARIANT RecordsSurvive
