\* Aggregations of up to three sources with four samples, whose shares do not
\* divide one evenly; pools whose reserves are around one unit of fixed point, in
\* a width small enough that products overflow and subtractions wrap; splits over
\* reserves and prices whose roots are exact and whose roots are not; paths of two
\* pools whose reserves are on both sides of one unit of fixed point.
CONSTANTS
    Unit = 10
    Modulus = 256
    Err = Err
    NumSamples = 4
    MaxOutcome = 2
    MaxSources = 3
    MaxAmount = 24
    PoolUnit = 4
    FeeNum = 1
    FeeDen = 5
    MinLiquidity = 2
    PriceGuard = 6
    MaxReserve = 12
    MaxSupply = 12
    MaxPoolAmount = 8
    ReserveMargin = 3
    Fee = 1
    MaxSplitReserve = 16
    SplitPrices = {0, 4, 9, 16}
    SplitAmounts = {1, 5, 9, 40}
    SplitReserves = {0, 3}
    PathUnit = 10
    PathModulus = 1048576
    PathPriceGuard = 100
    QuoteFunds = 300
    ProbeAmount = 1
    MaxPathReserve = 20
    PathReserves = {5, 14, 20, 60}
    PathOutputs = {1, 2, 3, 5, 9, 20, 30}
SPECIFICATION AlgorithmsSpec
CHECK_DEADLOCK FALSE
INVARIANTS
    SplitIsOptimal
    PartsStayWithinTrade
    PartsWereQuoted
    FeesAreOfSamples
    ExactInput
    ExactOutput
    DepositRange
    Shares
    NoRoundTripGain
    PrimaryCanPay
    SplitStopsAtPrimaryPrice
    MockKeepsProduct
    PathIsShortByRounding
