SPECIFICATION FairSpec
CONSTANTS
    t1 = t1
    t2 = t2
    b1 = b1
    b2 = b2
    Types = {t1, t2}
    Buildings = {b1, b2}
    CanBuild <- SomeBuild
    Cost = 2
    Steps = 3
    Nobody = nobody
    CreationFails = FALSE
    MaxMoney = 4
    MaxOrders = 2
    MaxEvents = 2
INVARIANTS
    TypeOK
    MoneyKept
    StillBuildable
PROPERTIES
    OrdersKept
    HeldLeaves
CHECK_DEADLOCK FALSE
