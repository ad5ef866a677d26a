SPECIFICATION Spec
CONSTANTS
    Players = {p1, p2}
    MaxPlayers = 4
    MaxComputers = 1
    MaxSearch = 2
    PrePlacedConYards = FALSE
    Natives = 1
    Cells = {0, 1, 3, 7}
    NoCell = NoCell
    Computer = Computer
    Native = Native
INVARIANTS
    TypeOK
    SameGame
    OwnHouse
    ColorsDiffer
    FurthestApart
    SpawnHouseFound
SYMMETRY Symmetry
