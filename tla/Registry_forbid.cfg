\* Bob holds TRANSFER, which forbids, in the scope of an asset.
CONSTANTS
    Users = {alice, bob}
    Alice = alice
    Bob = bob
    Dexes = {public, private}
    PublicDexes = {public}
    PublicDex = public
    PrivateDex = private
    Managers <- AliceManagesPrivate
    Forbidden <- BobIsForbidden
    NoOwner = NoOwner
    XOR = XOR
    Val = val
    Pswap = pswap
    Predefined = {val, pswap}
    GenesisConfigs <- EmptyGenesis
    NoPair = NoPair
    NoPool = NoPool
    XYKPool = XYKPool
    TRANSFER = TRANSFER
    MINT = MINT
    BURN = BURN
    MANAGE_DEX = MANAGE_DEX
    Unlimited = Unlimited
    Permit = Permit
    Forbid = Forbid
    NoMode = NoMode
    MaxNonce = 4
    MaxSupply = 1
    MaxProviders = 1
SPECIFICATION Spec
CHECK_DEADLOCK FALSE
PROPERTY
    ForbiddenCannotTransfer
