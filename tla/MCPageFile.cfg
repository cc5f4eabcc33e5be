CONSTANTS
    Parts = 2
    Room = 5
    Data = {d, e}
SYMMETRY Perms
SPECIFICATION PagesSpec
INVARIANTS
    PagesTypeOK
    ReadsBack
PROPERTY AllocatesFresh
