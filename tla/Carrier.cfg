SPECIFICATION Spec
CONSTANTS
    SpawnCount = 2
    SpawnedMissile = FALSE
    MissileSpawn = FALSE
    Aircraft = {a1, a2, a3, a4}
    Targets = {t1, t2}
    Houses = {h1, h2}
    Owner = owner1
    None = none
    MaxAmmo = 1
    RegenRate = 2
    ReloadRate = 1
    SpawnRate = 1
    LogicRate = 1
    TakeoffFrames = 1
INVARIANTS
    TypeOK
    SlotsSound
    NoneForgotten
    TargetsPresent
    Allegiance
PROPERTY ImplementsHangar
SYMMETRY Symmetry
