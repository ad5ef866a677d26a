SPECIFICATION Spec
CONSTANTS
    Addr = {a1, a2, a3, a4}
    Names = {n1, n2}
    Null = null
    Free = free
    NoFile = noFile
    NoName = noName
    AfterFailure = FALSE
    ReadErrors = TRUE
INVARIANTS
    TypeOK
    Paired
    CleanSlate
PROPERTIES
    ImplementsArchive
CHECK_DEADLOCK FALSE
SYMMETRY Symmetry
