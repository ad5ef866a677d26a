SPECIFICATION Spec
CONSTANTS
    Addr = {a1, a2, a3, a4}
    Names = {n1, n2}
    Null = null
    Free = free
    NoFile = noFile
    NoName = noName
    AfterFailure = TRUE
    ReadErrors = FALSE
INVARIANTS
    Reinitialised
CHECK_DEADLOCK FALSE
