SPECIFICATION FlightSpec
CONSTANTS
    SpawnCount = 2
    SpawnedMissile = FALSE
    MissileSpawn = TRUE
    Aircraft = {a1, a2, a3}
    Targets = {t1}
    Houses = {h1}
    Owner = owner1
    None = none
    MaxAmmo = 1
    RegenRate = 1
    ReloadRate = 1
    SpawnRate = 0
    LogicRate = 1
    TakeoffFrames = 1
PROPERTIES
    KamikazesEnd
    Regenerates
INVARIANTS
    TrackerSound
