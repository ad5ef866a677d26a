SPECIFICATION FairSpec
CONSTANT RocketTypes <- Types
INVARIANT TypeOK
PROPERTIES
    LetGoWhenDone
    WaitEnds
CHECK_DEADLOCK FALSE
