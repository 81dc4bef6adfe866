\* up to four faults, of any kind and anywhere, and one reader.
CONSTANT MaxFaults = 4
SPECIFICATION ViewSpec
INVARIANTS
    TypeOK
    
    
    
    
    ViewIsRegular
    
PROPERTIES
    RecoveryConvergesUnlessHeadless
CHECK_DEADLOCK FALSE
