\* Two accounts, one permission from the genesis and one created later.
CONSTANTS
    Accounts = {alice, bob}
    Alice = alice
    Bob = bob
    PermissionIds = {mint, custom}
    Mint = mint
    LimitedScopes = {asset}
    Unlimited = Unlimited
    Permit = Permit
    Forbid = Forbid
    NoMode = NoMode
    GenesisOwners <- OwnersAtGenesis
    GenesisHeld <- HeldAtGenesis
    GenesisModes <- ModesAtGenesis
    MaxConsumers = 3
    MaxProviders = 1
    MaxOwners = 2
SPECIFICATION Spec
INVARIANTS
    TypeOK
    HeldHasOwner
PROPERTIES
    RolesAreReferenced
