\* Two users, a public and a private DEX: registrations, pools, reaping.
CONSTANTS
    Users = {alice, bob}
    Alice = alice
    Bob = bob
    Dexes = {public, private}
    PublicDexes = {public}
    PublicDex = public
    PrivateDex = private
    Managers <- AliceManagesPrivate
    Forbidden <- NobodyIsForbidden
    NoOwner = NoOwner
    XOR = XOR
    Val = val
    Pswap = pswap
    Predefined = {val, pswap}
    GenesisConfigs <- SomeGenesis
    NoPair = NoPair
    NoPool = NoPool
    XYKPool = XYKPool
    TRANSFER = TRANSFER
    MINT = MINT
    BURN = BURN
    MANAGE_DEX = MANAGE_DEX
    Unlimited = Unlimited
    Permit = Permit
    Forbid = Forbid
    NoMode = NoMode
    MaxNonce = 4
    MaxSupply = 1
    MaxProviders = 1
SPECIFICATION Spec
CHECK_DEADLOCK FALSE
INVARIANTS
    TypeOK
    IdsAreFresh
    OwnersHaveTheirRoles
    PoolsAreComplete
    PathsHavePools
    MintersAreKnown
PROPERTIES
    NonMintableNeverGrows
    PropertiesNameAPool
