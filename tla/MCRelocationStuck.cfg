\* One fault is enough to leave a rollback that never ends.
CONSTANT MaxFaults = 1
SPECIFICATION FairSpec
PROPERTIES
    RecoveryConverges
CHECK_DEADLOCK FALSE
