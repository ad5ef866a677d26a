SPECIFICATION Spec
CONSTANTS
    Feet = {f1, f2}
    Side = 4
    Width = 8
    Height = 8
    MapCells <- Strip
    Ranges = {1, 5}
INVARIANTS
    TypeOK
    ListedOnce
    FlyersFound
SYMMETRY Symmetry
