\* Selling the target asset with a minimum output.
CONSTANTS
    Unit = 10
    Modulus = 65536
    Err = Err
    FeeNum = 1
    FeeDen = 5
    MinLiquidity = 2
    PriceGuard = 6
    Users = {u1}
    Dexes = {d1}
    NoOwner = NoOwner
    ED = 2
    InitialBase = 40
    InitialTarget = 40
    DepositAmounts = {18}
    SwapAmounts = {8, 12}
    Receivers <- UsersAndPools
    Limits = {0, 5, 6}
    MaxInputs = {12}
    BurnAmounts = {1, 3}
    TransferAmounts = {}
    MarkerAmounts = {}
    MaxMarker = 12
SPECIFICATION Spec
CHECK_DEADLOCK FALSE
PROPERTY
    MinOutIsHonoured
