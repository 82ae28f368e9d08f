\* A first deposit worth between half of MIN_LIQUIDITY and MIN_LIQUIDITY.
CONSTANTS
    Unit = 10
    Modulus = 65536
    Err = Err
    FeeNum = 1
    FeeDen = 5
    MinLiquidity = 2
    PriceGuard = 6
    Users = {u1}
    Dexes = {d1}
    NoOwner = NoOwner
    ED = 2
    InitialBase = 12
    InitialTarget = 12
    DepositAmounts = {2, 3, 7}
    SwapAmounts = {2, 5}
    Receivers <- UsersAndPools
    Limits = {0}
    MaxInputs = {12}
    BurnAmounts = {1, 3}
    TransferAmounts = {3}
    MarkerAmounts = {}
    MaxMarker = 12
SPECIFICATION Spec
CHECK_DEADLOCK FALSE
PROPERTY
    FirstDepositSubtractionIsSafe
