----------------------------- MODULE Registry -----------------------------
(***************************************************************************)
(* How assets, trading pairs and pools come into being: the assets,        *)
(* trading-pair, dex-manager and technical pallets and pool-xyk's          *)
(* initialize_pool, over the permissions pallet and the reference counts   *)
(* and nonces of frame_system.                                             *)
(*                                                                         *)
(* Every signed extrinsic raises its signer's nonce before it runs, failed *)
(* or not.  The extrinsics that write several entries run in a             *)
(* with_transaction, so that a failure leaves nothing but that nonce.      *)
(*                                                                         *)
(* XOR, the base asset of every DEX, exists from the genesis; its          *)
(* balances are seen here only as providers that accounts gain and lose.   *)
(***************************************************************************)
EXTENDS Integers, Sequences, FiniteSets

CONSTANTS
    Users,
    Dexes,           \* DEXInfos is filled by the genesis only
    PublicDexes,     \* DEXs whose is_public is set
    Managers,        \* <<account, dex>>: who holds MANAGE_DEX from the genesis
    Forbidden,       \* <<account, scope>>: who holds TRANSFER from the genesis
    NoOwner,         \* AccountId::default(): the owner of an unregistered asset
    XOR,             \* the base asset
    Predefined,      \* ids of assets that a genesis may register
    GenesisConfigs,  \* assets: the sequence of <<asset, owner>>, pairs: the set
                     \* of <<dex, asset>> that it registers
    NoPair,          \* a pair with no entry in EnabledSources
    NoPool,          \* a pair with no entry in Properties
    XYKPool,         \* LiquiditySourceType::XYKPool
    TRANSFER, MINT, BURN, MANAGE_DEX,
    Unlimited, Permit, Forbid, NoMode,
    MaxNonce,        \* cap on nonces, and so on the extrinsics of a user
    MaxSupply,       \* cap on an asset's issuance
    MaxProviders     \* cap on an account's providers

\* Generated ids hash the account and its nonce; a marker id hashes the pool's
\* technical account.  Marker assets do not become targets of a pair here.
Generated == Users \X (1 .. MaxNonce)
Targets == Generated \cup Predefined
Marker(d, t) == <<"marker", d, t>>
Markers == {Marker(d, t) : d \in Dexes, t \in Targets}
AssetIds == Targets \cup Markers

PoolAccount(d, t) == <<"pool", d, t>>
FeesAccount(d, t) == <<"fees", d, t>>
TechAccounts == {PoolAccount(d, t) : d \in Dexes, t \in Targets}
                \cup {FeesAccount(d, t) : d \in Dexes, t \in Targets}

Account == Users \cup TechAccounts
Permission == {TRANSFER, MINT, BURN, MANAGE_DEX}

P == INSTANCE PermissionCalls
        WITH Accounts <- Account, PermissionIds <- Permission,
             LimitedScopes <- AssetIds \cup Dexes

ASSUME DexAssumption ==
    /\ PublicDexes \subseteq Dexes
    /\ Managers \subseteq Users \X Dexes
    /\ Forbidden \subseteq Users \X (AssetIds \cup Dexes \cup {Unlimited})
ASSUME OwnerAssumption == NoOwner \notin Account
ASSUME FiniteAssumption ==
    IsFiniteSet(Users) /\ IsFiniteSet(Dexes) /\ IsFiniteSet(Predefined)
ASSUME CapAssumption == MaxNonce \in Nat /\ MaxSupply \in Nat

\* What the hashes keep apart: accounts, ids and scopes; the permissions and modes.
ASSUME DistinctAssumption ==
    /\ Users \cap TechAccounts = {}
    /\ Predefined \cap (Generated \cup Markers) = {}
    /\ Unlimited \notin AssetIds \cup Dexes
    /\ MINT \notin {TRANSFER, BURN, MANAGE_DEX} /\ TRANSFER # BURN
    /\ Permit # Forbid /\ NoMode \notin {Permit, Forbid}

\* A genesis registers no asset twice, which would panic, and no pair of an asset that
\* it does not register, which trading-pair does not look at.
ASSUME GenesisAssumption ==
    \A g \in GenesisConfigs :
        LET assets == g.assets
        IN  /\ assets \in Seq(Predefined \X Users) /\ Len(assets) <= MaxNonce
            /\ \A i, j \in DOMAIN assets : assets[i][1] = assets[j][1] => i = j
            /\ g.pairs \subseteq Dexes \X {assets[i][1] : i \in DOMAIN assets}
ASSUME SourceAssumption ==
    /\ NoPair # {} /\ NoPair # {XYKPool} /\ NoPool \notin Dexes
    /\ XOR \notin Targets

VARIABLES
    st,          \* Owners, Modes, Permissions and the reference counts
    nonce,       \* per user
    assetOwner,  \* AssetOwners
    mintable,    \* is_mintable of AssetInfos
    balance,     \* per registered asset, the balances of the users
    issuance,    \* per asset
    registered,  \* TechAccounts of the technical pallet
    sources,     \* EnabledSources, per DEX and target asset
    properties   \* Properties: per target asset, the DEX of the pool it names

assetVars == <<assetOwner, mintable, balance, issuance>>
poolVars == <<registered, sources, properties>>
vars == <<st, nonce, assetVars, poolVars>>

-----------------------------------------------------------------------------
AssetExists(a) == assetOwner[a] # NoOwner

\* check_permission_maybe_with_parameters: the asset's scope or else Unlimited.
MayAct(who, p, a) ==
    \/ P!CheckPermissionWithScope(st, who, p, a)
    \/ P!CheckPermissionWithScope(st, who, p, Unlimited)

\* Fault: is_mintable is not looked at.
MayMintAnyAsset(who, a) == AssetExists(a) /\ MayAct(who, MINT, a)

MayMint(who, a) == AssetExists(a) /\ MayAct(who, MINT, a) /\ mintable[a]

MayTransfer(who, a) == AssetExists(a) /\ MayAct(who, TRANSFER, a)
MayBurn(who, of, a) == AssetExists(a) /\ (who = of \/ MayAct(who, BURN, a))

\* Fault: the amount is compared with the issuance, not with the tokens burned.
CanBurnOfIssuance(who, of, a, amount) == MayBurn(who, of, a) /\ issuance[a] >= amount

CanBurn(who, of, a, amount) == MayBurn(who, of, a) /\ balance[a][of] >= amount

\* ensure_can_manage(Public)
CanManage(who, d) ==
    d \in PublicDexes \/ P!CheckPermissionWithScope(st, who, MANAGE_DEX, d)

\* An account that exists can pay for an extrinsic; CheckNonce then raises its
\* nonce before the call runs.
Signs(u) == st.providers[u] > 0 /\ nonce[u] < MaxNonce
NonceInCall(u) == nonce[u] + 1

SpendNonce(u) == nonce' = [nonce EXCEPT ![u] = NonceInCall(u)]

\* Fault: the id does not depend on the nonce.
GenAssetIdOfAccount(u) == <<u, 1>>

\* gen_asset_id, inside a call.
GenAssetId(u) == <<u, NonceInCall(u)>>

\* Fault: the last permission is left out.
RegisterRolesWithoutBurn(s, who, a) ==
    LET assign(r, p) == IF r.ok THEN P!AssignPermission(r.st, who, who, p, a) ELSE r
    IN  assign(assign(P!Ok(P!IncConsumers(s, who)), TRANSFER), MINT)

\* What register_asset_id leaves in the storage of permissions and references:
\* each step runs only if the one before it succeeded.
RegisterRoles(s, who, a) ==
    LET assign(r, p) == IF r.ok THEN P!AssignPermission(r.st, who, who, p, a) ELSE r
        counted == IF P!CanIncConsumers(s, who) THEN P!Ok(P!IncConsumers(s, who))
                                                ELSE P!Failed(s)
    IN  assign(assign(assign(counted, TRANSFER), MINT), BURN)

\* What register_asset_id writes of the asset itself; it raises the nonce again.
WriteAsset(u, a, supply, isMintable) ==
    /\ assetOwner' = [assetOwner EXCEPT ![a] = u]
    /\ mintable' = [mintable EXCEPT ![a] = isMintable]
    /\ balance' = [balance EXCEPT ![a][u] = @ + supply]
    /\ issuance' = [issuance EXCEPT ![a] = @ + supply]
    /\ nonce' = [nonce EXCEPT ![u] = NonceInCall(u) + 1]

-----------------------------------------------------------------------------
Genesis ==
    LET held == {<<m[1], m[2], MANAGE_DEX>> : m \in Managers}
                \cup {<<f[1], f[2], TRANSFER>> : f \in Forbidden}
        entries(u) == {scope \in P!Scopes : \E p \in Permission : <<u, scope, p>> \in held}
    IN  [owners |-> [key \in Permission \X P!Scopes |-> <<>>],
         modes |-> [p \in Permission |-> IF p = TRANSFER THEN Forbid ELSE Permit],
         held |-> held,
         consumers |-> [a \in Account |->
             IF a \in Users THEN Cardinality(entries(a)) ELSE 0],
         providers |-> [a \in Account |-> IF a \in Users THEN 1 ELSE 0]]

\* The genesis of assets registers its assets one after the other.
EndowedRoles(assets) ==
    LET after[n \in 0 .. Len(assets)] ==
            IF n = 0 THEN P!Ok(Genesis)
            ELSE IF after[n - 1].ok
                 THEN RegisterRoles(after[n - 1].st, assets[n][2], assets[n][1])
                 ELSE after[n - 1]
    IN  after[Len(assets)]

\* The genesis of permissions, assets and trading-pair, which expects no failure; here
\* an asset begins without supply and not mintable, its owner with a nonce for each.
InitFrom(g) ==
    LET endowed == EndowedRoles(g.assets)
        isOwner(u, a) == \E i \in DOMAIN g.assets : g.assets[i] = <<a, u>>
    IN  /\ endowed.ok
        /\ st = endowed.st
        /\ nonce = [u \in Users |->
               Cardinality({i \in DOMAIN g.assets : g.assets[i][2] = u})]
        /\ assetOwner = [a \in AssetIds |->
               IF \E u \in Users : isOwner(u, a)
               THEN CHOOSE u \in Users : isOwner(u, a) ELSE NoOwner]
        /\ mintable = [a \in AssetIds |-> FALSE]
        /\ balance = [a \in AssetIds |-> [u \in Users |-> 0]]
        /\ issuance = [a \in AssetIds |-> 0]
        /\ registered = {}
        /\ sources = [d \in Dexes |-> [t \in Targets |->
               IF <<d, t>> \in g.pairs THEN {} ELSE NoPair]]
        /\ properties = [t \in Targets |-> NoPool]

Init == \E g \in GenesisConfigs : InitFrom(g)

\* assets::register
RegisterAsset(u, supply, isMintable) ==
    LET a == GenAssetId(u)
        roles == RegisterRoles(st, u, a)
    IN  /\ Signs(u) /\ NonceInCall(u) < MaxNonce
        /\ ~AssetExists(a)
        /\ roles.ok
        /\ st' = roles.st
        /\ WriteAsset(u, a, supply, isMintable)
        /\ UNCHANGED poolVars

\* assets::transfer, of a balance to another user.
TransferAsset(u, v, a, amount) ==
    /\ Signs(u)
    /\ MayTransfer(u, a)
    /\ u # v /\ balance[a][u] >= amount
    /\ balance' = [balance EXCEPT ![a][u] = @ - amount, ![a][v] = @ + amount]
    /\ SpendNonce(u)
    /\ UNCHANGED <<st, assetOwner, mintable, issuance, poolVars>>

\* assets::mint
MintAsset(u, to, a, amount) ==
    /\ Signs(u)
    /\ MayMint(u, a)
    /\ balance' = [balance EXCEPT ![a][to] = @ + amount]
    /\ issuance' = [issuance EXCEPT ![a] = @ + amount]
    /\ SpendNonce(u)
    /\ UNCHANGED <<st, assetOwner, mintable, poolVars>>

\* assets::burn, always of the signer's own tokens.
BurnAsset(u, a, amount) ==
    /\ Signs(u)
    /\ CanBurn(u, u, a, amount)
    /\ balance' = [balance EXCEPT ![a][u] = @ - amount]
    /\ issuance' = [issuance EXCEPT ![a] = @ - amount]
    /\ SpendNonce(u)
    /\ UNCHANGED <<st, assetOwner, mintable, poolVars>>

\* assets::set_non_mintable
SetNonMintable(u, a) ==
    /\ Signs(u)
    /\ assetOwner[a] = u
    /\ mintable[a]
    /\ mintable' = [mintable EXCEPT ![a] = FALSE]
    /\ SpendNonce(u)
    /\ UNCHANGED <<st, assetOwner, balance, issuance, poolVars>>

\* trading_pair::register, of XOR and a target asset.
RegisterPair(u, d, t) ==
    /\ Signs(u)
    /\ CanManage(u, d)
    /\ AssetExists(t)
    /\ sources[d][t] = NoPair
    /\ sources' = [sources EXCEPT ![d][t] = {}]
    /\ SpendNonce(u)
    /\ UNCHANGED <<st, assetVars, registered, properties>>

\* register_tech_account_id, for the pool's account and its fee account.
RegisterTechAccounts(s, d, t) ==
    P!IncProviders(P!IncProviders(s, PoolAccount(d, t)), FeesAccount(d, t))

\* Fault: the pool may mint its marker asset but not burn it.
InitializeRolesToMint(s, u, d, t) ==
    P!GrantPermission(RegisterRoles(RegisterTechAccounts(s, d, t), u, Marker(d, t)).st,
                      u, PoolAccount(d, t), MINT, Marker(d, t))

\* Fault: the permissions on the marker asset go to Unlimited.
InitializeRolesUnlimited(s, u, d, t) ==
    LET asset == RegisterRoles(RegisterTechAccounts(s, d, t), u, Marker(d, t)).st
    IN  P!HoldCounted(P!HoldCounted(asset, PoolAccount(d, t), MINT, Unlimited).st,
                      PoolAccount(d, t), BURN, Unlimited)

\* What initialize_pool leaves in the storage of permissions and references.
InitializeRoles(s, u, d, t) ==
    LET m == Marker(d, t)
        grant(r, p) == IF r.ok THEN P!GrantPermission(r.st, u, PoolAccount(d, t), p, m)
                               ELSE r
        asset == RegisterRoles(RegisterTechAccounts(s, d, t), u, m)
    IN  grant(grant(asset, MINT), BURN)

\* Fault: the entry names a DEX that lists the pair, whichever has its pool.
PropertiesOfListing(d, t) ==
    [properties EXCEPT ![t] = CHOOSE e \in Dexes : sources[e][t] # NoPair]

\* initialize_pool_properties: the key has the assets and not the DEX.
PropertiesOf(d, t) == [properties EXCEPT ![t] = d]

\* What enable_source_for_trading_pair asks for first.
IsTradingPairEnabled(d, t) == sources[d][t] # NoPair

\* pool_xyk::initialize_pool: the technical accounts, the marker asset, the
\* pool's permissions on it, the source of the pair and Properties.
InitializePool(u, d, t) ==
    LET roles == InitializeRoles(st, u, d, t)
    IN  /\ Signs(u) /\ NonceInCall(u) < MaxNonce
        /\ CanManage(u, d)
        /\ PoolAccount(d, t) \notin registered
        /\ ~AssetExists(Marker(d, t))
        /\ roles.ok
        /\ IsTradingPairEnabled(d, t)
        /\ st' = roles.st
        /\ WriteAsset(u, Marker(d, t), 0, TRUE)
        /\ registered' = registered \cup {PoolAccount(d, t), FeesAccount(d, t)}
        /\ sources' = [sources EXCEPT ![d][t] = @ \cup {XYKPool}]
        /\ properties' = PropertiesOf(d, t)

\* Any other extrinsic, and any of the above that fails.
OtherCall(u) ==
    /\ Signs(u)
    /\ SpendNonce(u)
    /\ UNCHANGED <<st, assetVars, poolVars>>

\* A balance that appears or disappears; with its last provider an account is
\* reaped, nonce and all.  A technical account keeps the provider of its
\* registration.
AddProvider(u) ==
    /\ st.providers[u] < MaxProviders
    /\ st' = P!IncProviders(st, u)
    /\ UNCHANGED <<nonce, assetVars, poolVars>>

RemoveProvider(u) ==
    /\ P!CanDecProviders(st, u)
    /\ st' = P!DecProviders(st, u)
    /\ nonce' = IF st.providers[u] = 1 THEN [nonce EXCEPT ![u] = 0] ELSE nonce
    /\ UNCHANGED <<assetVars, poolVars>>

AssetCall(u) ==
    \/ \E supply \in 0 .. MaxSupply, isMintable \in BOOLEAN :
          RegisterAsset(u, supply, isMintable)
    \/ \E a \in AssetIds, v \in Users, amount \in 1 .. MaxSupply :
          \/ TransferAsset(u, v, a, amount)
          \/ issuance[a] + amount <= MaxSupply /\ MintAsset(u, v, a, amount)
    \/ \E a \in AssetIds : SetNonMintable(u, a)
    \/ \E a \in AssetIds, amount \in 1 .. MaxSupply : BurnAsset(u, a, amount)

PairCall(u) ==
    \E d \in Dexes, t \in Targets : RegisterPair(u, d, t) \/ InitializePool(u, d, t)

Next ==
    \E u \in Users :
        \/ AssetCall(u)
        \/ PairCall(u)
        \/ OtherCall(u)
        \/ AddProvider(u)
        \/ RemoveProvider(u)

Spec == Init /\ [][Next]_vars

-----------------------------------------------------------------------------
(* What liquidity-proxy answers about the paths between two assets.        *)

PathEnds == Targets \cup {XOR}

\* list_enabled_sources_for_trading_pair; NoPair is TradingPairDoesntExist.
ListEnabledSources(d, base, target) ==
    IF base = XOR /\ target \in Targets THEN sources[d][target] ELSE NoPair

\* XOR comes first if it is one of the two.
WeakSortPair(input, output) == IF input = XOR THEN <<input, output>> ELSE <<output, input>>

\* construct_trivial_path, as the pairs whose sources are listed: the pair itself if
\* it has XOR, else the pairs of XOR with each of the two.
PairsOnPath(input, output) ==
    IF XOR \in {input, output} THEN {WeakSortPair(input, output)}
                               ELSE {<<XOR, input>>, <<XOR, output>>}

SourcesOnPath(d, input, output) ==
    {ListEnabledSources(d, pair[1], pair[2]) : pair \in PairsOnPath(input, output)}

\* Fault: one of two swaps is enough for a path.
IsPathHalfAvailable(d, input, output) == SourcesOnPath(d, input, output) \ {NoPair, {}} # {}

\* The answer Ok(true); a pair that does not exist is an error, one without sources
\* Ok(false).
IsPathAvailable(d, input, output) == SourcesOnPath(d, input, output) \cap {NoPair, {}} = {}

\* The sources of both swaps, or NoPair for either error of the query.
ListEnabledSourcesForPath(d, input, output) ==
    LET lists == SourcesOnPath(d, input, output)
    IN  IF lists \cap {NoPair, {}} # {} THEN NoPair ELSE UNION lists

-----------------------------------------------------------------------------
\* The storage keeps its types, and an account that is referred to exists:
\* no order of registrations and reaping leaves a reference to a reaped account.
TypeOK ==
    /\ st \in P!Storage
    /\ nonce \in [Users -> 0 .. MaxNonce]
    /\ assetOwner \in [AssetIds -> Users \cup {NoOwner}]
    /\ mintable \in [AssetIds -> BOOLEAN]
    /\ balance \in [AssetIds -> [Users -> Nat]]
    /\ issuance \in [AssetIds -> Nat]
    /\ registered \subseteq TechAccounts
    /\ sources \in [Dexes -> [Targets -> {NoPair, {}, {XYKPool}}]]
    /\ properties \in [Targets -> Dexes \cup {NoPool}]
    /\ \A a \in Account : st.consumers[a] > 0 => st.providers[a] > 0

\* register_asset_id never meets an id that is taken: the nonce that the id is
\* made from grows with every call, and an account that owns an asset is never
\* reaped, so its nonce never starts again.
IdsAreFresh == \A u \in Users : Signs(u) => ~AssetExists(GenAssetId(u))

\* Registration is all or nothing: the owner of an asset is an account that
\* exists, owns TRANSFER, MINT and BURN in the asset's scope and holds the two
\* that are permits.
OwnersHaveTheirRoles ==
    \A a \in AssetIds : AssetExists(a) =>
        LET o == assetOwner[a]
        IN  /\ st.providers[o] > 0
            /\ \A p \in {TRANSFER, MINT, BURN} : P!Owns(st, o, p, a)
            /\ \A p \in {MINT, BURN} : P!AccountHasPermission(st, o, a, p)

\* Initialisation is all or nothing, over five pallets: a pool's account is
\* registered exactly when its fee account is, its marker asset exists, its pair
\* lists XYKPool and it may mint and burn its marker; so the pallet never
\* answers PoolInitializationIsInvalid.
PoolsAreComplete ==
    \A d \in Dexes, t \in Targets :
        LET isPool == PoolAccount(d, t) \in registered
        IN  /\ isPool <=> FeesAccount(d, t) \in registered
            /\ isPool <=> AssetExists(Marker(d, t))
            /\ isPool <=> XYKPool \in (IF sources[d][t] = NoPair THEN {} ELSE sources[d][t])
            /\ isPool <=> \A p \in {MINT, BURN} :
                              P!AccountHasPermission(st, PoolAccount(d, t), Marker(d, t), p)
            /\ isPool => AssetExists(t)

\* Properties has an entry for every asset with a pool, and although pools of
\* several DEXs share it, it always names the accounts and the marker of one that
\* is complete; no call changes the entry but the initialisation of the pool that
\* it then names.
PropertiesNameAPool ==
    [][\A t \in Targets :
          /\ (\E d \in Dexes : PoolAccount(d, t) \in registered) <=> properties[t] # NoPool
          /\ properties[t] # NoPool => /\ PoolAccount(properties[t], t) \in registered
                                       /\ AssetExists(Marker(properties[t], t))
          /\ properties'[t] # properties[t]
                => PoolAccount(properties'[t], t) \in registered' \ registered]_vars

\* A DEX offers the path between two assets, in both directions and with a source
\* to go through, exactly when each that is not XOR has a complete pool there:
\* what is_path_available and list_enabled_sources_for_path tell a user is what the
\* registrations of five pallets come to.
PathsHavePools ==
    \A d \in Dexes, input, output \in PathEnds : input # output =>
        /\ IsPathAvailable(d, input, output) <=>
              \A t \in {input, output} \ {XOR} : /\ PoolAccount(d, t) \in registered
                                                 /\ AssetExists(Marker(d, t))
        /\ IsPathAvailable(d, input, output) =>
              ListEnabledSourcesForPath(d, output, input) = {XYKPool}

\* Only an asset's owner, and for a marker its pool, can ever mint it: no
\* sequence of registrations and grants gives anyone else the permission.
MintersAreKnown ==
    \A a \in AssetIds, who \in Account : MayMint(who, a) =>
        \/ who = assetOwner[a]
        \/ \E d \in Dexes, t \in Targets :
              a = Marker(d, t) /\ who = PoolAccount(d, t)

\* set_non_mintable cannot be undone: an asset that "can no longer be minted, only
\* burned" never becomes mintable, its issuance never grows, and no holder ever
\* has more than that issuance.
NonMintableNeverGrows ==
    [][\A a \in AssetIds : AssetExists(a) /\ ~mintable[a] =>
          /\ ~mintable'[a]
          /\ issuance'[a] <= issuance[a]
          /\ \A u \in Users : balance'[a][u] <= issuance[a]]_vars

-----------------------------------------------------------------------------
(* A statement of the repository's comments that the code above does not   *)
(* meet.                                                                   *)

\* "The action associated with the permission is forbidden if the account has
\* the permission" (permissions/src/lib.rs): who holds TRANSFER in an asset's
\* scope cannot transfer the asset.
ForbiddenCannotTransfer ==
    [][\A f \in Forbidden, a \in AssetIds :
          f[2] = a /\ balance'[a][f[1]] < balance[a][f[1]]
          => issuance'[a] < issuance[a]]_vars
=============================================================================
