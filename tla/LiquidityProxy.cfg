\* Two sources, a path of two swaps either of which has one or both of them.
CONSTANTS
    Users = {u1, u2}
    u1 = u1
    NumSources = 2
    Transit = transit
    Base = base
    a = a
    b = b
    Others = {a, b}
    Unit = 2
    Markets <- MCMarkets
    Selections <- MCSelections
    Amounts = {3}
    Limits = {2}
    Endowments <- MCEndowments
    Idle = Idle
    MaxCommitted = 2
SPECIFICATION Spec
CHECK_DEADLOCK FALSE
INVARIANTS
    TypeOK
    TransitKeepsWhatItHad
    

    
    
