SPECIFICATION Spec
CONSTANTS
    Elem = {e1, e2, e3, e4, e5, e6, e7}
    Key = {0, 1, 2}
    Capacity = 6
    SIZE_MAX = 255
    NULL = NULL
INVARIANTS IndexConsistent HeapValid SiftInv
PROPERTIES ImplementsQueue SiftEnds
VIEW LiveView
