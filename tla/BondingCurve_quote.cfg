SPECIFICATION Spec
CONSTANTS
    Unit = 100
    Modulus = 1000000
    Err = Err
    Users = {u1}
    ReserveAccounts = {r1, r2}
    RegisteredAccounts = {r1, r2}
    b1 = b1
    Beneficiaries = {b1, b2}
    Market = market
    Coefficient <- MCCoefficient
    ValCoefficient = 10
    InitialPrice = 100
    PriceChangeStep = 100
    PriceChangeRate = 100
    SellPriceCoefficient = 80
    FreeCoefficient = 20
    Fee = 1
    Endowment = 300
    InitialIssuances = {0, 150}
    InitialReserves = {0, 250}
    MarketLiquidity = 100
    Amounts = {100, 150}
    Returns = {0, 50}
    MaxExchanges = 3
INVARIANT QuoteBuysWhatExchangeComputes
CHECK_DEADLOCK FALSE
