CONSTANTS
    Ids = {a, b, c, d}
    NULL = NULL
    MaxNICR = 3
    ReordersNICRs = FALSE
SPECIFICATION Spec
SYMMETRY Symmetry
INVARIANTS Descending
PROPERTIES ImplementsSortedList
