\* Two users who provide to one pool, trade with it and donate to it, while the
\* marker asset's owner mints, holders burn and trade marker tokens outside the
\* pool, and minting is switched off.
CONSTANTS
    Unit = 4
    Modulus = 65536
    Err = Err
    FeeNum = 1
    FeeDen = 5
    MinLiquidity = 1
    PriceGuard = 6
    Users = {u1, u2}
    Dexes = {d1}
    NoOwner = NoOwner
    ED = 2
    InitialBase = 4
    InitialTarget = 4
    DepositAmounts = {4}
    SwapAmounts = {2}
    Receivers <- UsersAndPools
    Limits = {0}
    MaxInputs = {12}
    BurnAmounts = {1}
    TransferAmounts = {4}
    MarkerAmounts = {2}
    MaxMarker = 4
SYMMETRY UserSymmetry
SPECIFICATION Spec
CHECK_DEADLOCK FALSE
INVARIANTS
    TypeOK
    IssuanceIsBacked
    CacheNeverOverstates
PROPERTIES
    NeverDrained
    SharesNeverDiluted
    SwapKeepsProduct
    
