CONSTANTS
    NPROC = 4
    MaxPid = 4
    KillArgs <- TheirPids
    Workloads <- Families
SPECIFICATION LifeFairSpec
INVARIANTS
    LifeTypeOK
    EverybodyHasParent
    SleeperHasNoZombie
PROPERTIES
    ImplementsProcessTree
    OrphansAreReaped
    KilledExits
CHECK_DEADLOCK FALSE
