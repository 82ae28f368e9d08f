--------------------------- MODULE RegistryProofs ---------------------------
(***************************************************************************)
(* Theorems about Registry, for any users, DEXs, ids, geneses and caps:    *)
(* its types, that ids are fresh, that registration and initialisation are *)
(* all or nothing, who may mint, and what Properties and a path say.       *)
(***************************************************************************)
EXTENDS Registry, TotalsProofs, FiniteSetTheorems, TLAPS

\* The calls to permissions do not depend on its genesis, which hands out nothing here.
NoOwners == [key \in Permission \X (AssetIds \cup Dexes \cup {Unlimited}) |-> <<>>]
PC == INSTANCE PermissionsProofs
        WITH Accounts <- Account, PermissionIds <- Permission,
             LimitedScopes <- AssetIds \cup Dexes,
             GenesisOwners <- NoOwners, GenesisHeld <- {},
             GenesisModes <- [p \in Permission |-> Permit],
             MaxConsumers <- 0, MaxOwners <- 0

-----------------------------------------------------------------------------
(* Accounts and ids are finitely many.                                     *)

\* Things that the members of a finite set name are finitely many.
LEMMA FinitelyNamed ==
    ASSUME NEW D, IsFiniteSet(D), NEW T, NEW f,
           f \in [D -> T], \A t \in T : \E x \in D : f[x] = t
    PROVE  IsFiniteSet(T)
  <1>1. f \in Surjection(D, T)
    BY DEF Surjection
  <1> QED
    BY <1>1, FS_Surjection

\* Accounts, ids, permissions and scopes are finitely many.
LEMMA FiniteFacts ==
    /\ IsFiniteSet(Account) /\ IsFiniteSet(Permission)
    /\ IsFiniteSet(AssetIds \cup Dexes) /\ IsFiniteSet(P!Scopes)
  <1>1. IsFiniteSet(Generated) /\ IsFiniteSet(Targets)
    <2>1. IsFiniteSet(1 .. MaxNonce)
      BY CapAssumption, FS_Interval
    <2>2. IsFiniteSet(Generated)
      BY <2>1, FiniteAssumption, FS_Product DEF Generated
    <2> QED
      BY <2>2, FiniteAssumption, FS_Union DEF Targets
  <1>2. IsFiniteSet(Markers)
    <2> DEFINE f == [x \in Dexes \X Targets |-> Marker(x[1], x[2])]
    <2>1. f \in [Dexes \X Targets -> Markers]
      BY DEF Markers
    <2>2. \A m \in Markers : \E x \in Dexes \X Targets : f[x] = m
      <3> SUFFICES ASSUME NEW d \in Dexes, NEW t \in Targets
                   PROVE  \E x \in Dexes \X Targets : f[x] = Marker(d, t)
        BY DEF Markers
      <3>1. <<d, t>> \in Dexes \X Targets /\ f[<<d, t>>] = Marker(d, t)
        OBVIOUS
      <3> QED
        BY <3>1
    <2> HIDE DEF f
    <2>3. IsFiniteSet(Dexes \X Targets)
      BY <1>1, FiniteAssumption, FS_Product
    <2>4. PICK h : h \in [Dexes \X Targets -> Markers]
                   /\ \A m \in Markers : \E x \in Dexes \X Targets : h[x] = m
      BY <2>1, <2>2
    <2>5. PICK D, T : D = Dexes \X Targets /\ T = Markers
      OBVIOUS
    <2>6. /\ IsFiniteSet(D) /\ h \in [D -> T]
          /\ \A m \in T : \E x \in D : h[x] = m
      BY <2>3, <2>4, <2>5
    <2>7. IsFiniteSet(T)
      BY <2>6, FinitelyNamed
    <2> QED
      BY <2>5, <2>7
  <1>3. IsFiniteSet(TechAccounts)
    <2> DEFINE pools == {PoolAccount(d, t) : d \in Dexes, t \in Targets}
               feesAccounts == {FeesAccount(d, t) : d \in Dexes, t \in Targets}
               f == [x \in Dexes \X Targets |-> PoolAccount(x[1], x[2])]
               g == [x \in Dexes \X Targets |-> FeesAccount(x[1], x[2])]
    <2>1. f \in [Dexes \X Targets -> pools] /\ g \in [Dexes \X Targets -> feesAccounts]
      OBVIOUS
    <2>2. \A m \in pools : \E x \in Dexes \X Targets : f[x] = m
      <3> SUFFICES ASSUME NEW d \in Dexes, NEW t \in Targets
                   PROVE  \E x \in Dexes \X Targets : f[x] = PoolAccount(d, t)
        OBVIOUS
      <3>1. <<d, t>> \in Dexes \X Targets /\ f[<<d, t>>] = PoolAccount(d, t)
        OBVIOUS
      <3> QED
        BY <3>1
    <2>3. \A m \in feesAccounts : \E x \in Dexes \X Targets : g[x] = m
      <3> SUFFICES ASSUME NEW d \in Dexes, NEW t \in Targets
                   PROVE  \E x \in Dexes \X Targets : g[x] = FeesAccount(d, t)
        OBVIOUS
      <3>1. <<d, t>> \in Dexes \X Targets /\ g[<<d, t>>] = FeesAccount(d, t)
        OBVIOUS
      <3> QED
        BY <3>1
    <2>4. TechAccounts = pools \cup feesAccounts
      BY DEF TechAccounts
    <2> HIDE DEF f, g, pools, feesAccounts
    <2>5. IsFiniteSet(Dexes \X Targets)
      BY <1>1, FiniteAssumption, FS_Product
    <2>6. IsFiniteSet(pools)
      <3>1. PICK h : h \in [Dexes \X Targets -> pools]
                     /\ \A m \in pools : \E x \in Dexes \X Targets : h[x] = m
        BY <2>1, <2>2
      <3>2. PICK D, T : D = Dexes \X Targets /\ T = pools
        OBVIOUS
      <3>3. /\ IsFiniteSet(D) /\ h \in [D -> T]
            /\ \A m \in T : \E x \in D : h[x] = m
        BY <2>5, <3>1, <3>2
      <3>4. IsFiniteSet(T)
        BY <3>3, FinitelyNamed
      <3> QED
        BY <3>2, <3>4
    <2>7. IsFiniteSet(feesAccounts)
      <3>1. PICK h : h \in [Dexes \X Targets -> feesAccounts]
                     /\ \A m \in feesAccounts : \E x \in Dexes \X Targets : h[x] = m
        BY <2>1, <2>3
      <3>2. PICK D, T : D = Dexes \X Targets /\ T = feesAccounts
        OBVIOUS
      <3>3. /\ IsFiniteSet(D) /\ h \in [D -> T]
            /\ \A m \in T : \E x \in D : h[x] = m
        BY <2>5, <3>1, <3>2
      <3>4. IsFiniteSet(T)
        BY <3>3, FinitelyNamed
      <3> QED
        BY <3>2, <3>4
    <2> QED
      BY <2>4, <2>6, <2>7, FS_Union
  <1>4. IsFiniteSet(Account)
    BY <1>3, FiniteAssumption, FS_Union DEF Account
  <1>5. IsFiniteSet(AssetIds) /\ IsFiniteSet(AssetIds \cup Dexes)
    <2>1. IsFiniteSet(AssetIds)
      BY <1>1, <1>2, FS_Union DEF AssetIds
    <2> QED
      BY <2>1, FiniteAssumption, FS_Union
  <1>6. IsFiniteSet(Permission)
    <2>1. Permission = (({TRANSFER} \cup {MINT}) \cup {BURN}) \cup {MANAGE_DEX}
      BY DEF Permission
    <2>2. \A x : IsFiniteSet({x})
      BY FS_Singleton
    <2>3. IsFiniteSet({TRANSFER} \cup {MINT})
      BY <2>2, FS_Union
    <2>4. IsFiniteSet(({TRANSFER} \cup {MINT}) \cup {BURN})
      BY <2>2, <2>3, FS_Union
    <2> QED
      BY <2>1, <2>2, <2>4, FS_Union
  <1>7. IsFiniteSet(P!Scopes)
    <2>1. IsFiniteSet({Unlimited}) /\ P!Scopes = (AssetIds \cup Dexes) \cup {Unlimited}
      BY FS_Singleton DEF P!Scopes
    <2> QED
      BY <1>5, <2>1, FS_Union
  <1> QED
    BY <1>4, <1>5, <1>6, <1>7

\* The assumptions of Permissions hold of the accounts, ids and modes here.
LEMMA PermissionsApply ==
    /\ PC!ScopeAssumption /\ PC!ModeAssumption
    /\ PC!GenesisAssumption /\ PC!FiniteAssumption /\ PC!GenesisRolesAssumption
  <1>1. PC!ScopeAssumption /\ PC!ModeAssumption
    BY DistinctAssumption DEF PC!ScopeAssumption, PC!ModeAssumption
  <1>2. PC!FiniteAssumption
    BY FiniteFacts DEF PC!FiniteAssumption, IsFiniteSet, PC!IsFiniteSet
  <1>3. PC!GenesisAssumption
    BY DEF PC!GenesisAssumption, PC!Scopes, NoOwners
  <1>4. PC!GenesisRolesAssumption
    BY DEF PC!GenesisRolesAssumption, PC!Scopes, NoOwners
  <1> QED
    BY <1>1, <1>2, <1>3, <1>4

\* A call that adds something adds no more than anything larger.
LEMMA MoreIsAdded ==
    ASSUME NEW s, NEW t, NEW new, NEW more, PC!Adds(s, t, new), new \subseteq more
    PROVE  PC!Adds(s, t, more)
  BY DEF PC!Adds

\* What two calls in turn add is what each of them may add.
LEMMA AddedInTurn ==
    ASSUME NEW s \in PC!Storage, NEW t, NEW u, NEW new, PC!Adds(s, t, new), PC!Adds(t, u, new)
    PROVE  PC!Adds(s, u, new)
  BY PC!AddsThenAdds, PermissionsApply

-----------------------------------------------------------------------------
(* The calls to permissions, as its own proofs know them.                  *)

\* Both instances of the methods of permissions are the same.
LEMMA SameTypes ==
    /\ P!Storage = PC!Storage /\ P!Scopes = PC!Scopes
    /\ \A s, o, p, a : P!Owns(s, o, p, a) = PC!Owns(s, o, p, a)
  BY DEF P!Storage, PC!Storage, P!Scopes, PC!Scopes, P!Owns, PC!Owns

\* Both instances of the reference counters are the same.
LEMMA SameCounters ==
    \A s, u : /\ P!CanIncConsumers(s, u) = PC!CanIncConsumers(s, u)
              /\ P!IncConsumers(s, u) = PC!IncConsumers(s, u)
              /\ P!IncProviders(s, u) = PC!IncProviders(s, u)
              /\ P!CanDecProviders(s, u) = PC!CanDecProviders(s, u)
              /\ P!DecProviders(s, u) = PC!DecProviders(s, u)
  BY DEF P!CanIncConsumers, PC!CanIncConsumers, P!IncConsumers, PC!IncConsumers,
         P!IncProviders, PC!IncProviders, P!CanDecProviders, PC!CanDecProviders,
         P!DecProviders, PC!DecProviders

\* Both instances of assign_permission and grant_permission_with_scope are the same.
LEMMA SameCalls ==
    \A s, o, h, p, a :
        /\ P!AssignPermission(s, o, h, p, a) = PC!AssignPermission(s, o, h, p, a)
        /\ P!GrantPermission(s, o, h, p, a) = PC!GrantPermission(s, o, h, p, a)
  <1>1. \A s, h, p, a : P!HoldCounted(s, h, p, a) = PC!HoldCounted(s, h, p, a)
    BY DEF P!HoldCounted, PC!HoldCounted, P!HoldsAny, PC!HoldsAny, P!Ok, PC!Ok,
           P!Failed, PC!Failed, P!Hold, PC!Hold, P!CanIncConsumers, PC!CanIncConsumers,
           P!IncConsumers, PC!IncConsumers
  <1>2. \A s, o, p, a : P!PushOwner(s, o, p, a) = PC!PushOwner(s, o, p, a)
    BY DEF P!PushOwner, PC!PushOwner
  <1>3. \A s, o, h, p, a :
            P!AssignPermission(s, o, h, p, a) = PC!AssignPermission(s, o, h, p, a)
    <2> TAKE s, o, h, p, a
    <2>1. /\ \A z : P!Ok(z) = PC!Ok(z) /\ P!Failed(z) = PC!Failed(z)
          /\ \A z : P!AccountHasPermission(z, h, a, p) = PC!AccountHasPermission(z, h, a, p)
      BY DEF P!Ok, PC!Ok, P!Failed, PC!Failed, P!AccountHasPermission,
             PC!AccountHasPermission
    <2> QED
      BY <1>1, <1>2, <2>1, SameTypes, SameCounters
         DEF P!AssignPermission, PC!AssignPermission
  <1>4. \A s, o, h, p, a :
            P!GrantPermission(s, o, h, p, a) = PC!GrantPermission(s, o, h, p, a)
    BY <1>1 DEF P!GrantPermission, PC!GrantPermission, P!Owns, PC!Owns, P!Failed, PC!Failed
  <1> QED
    BY <1>3, <1>4

-----------------------------------------------------------------------------
(* What registration leaves in the storage of permissions.                 *)

\* The storage has its types and modes, and whoever is referred to exists.
Sound(s) ==
    /\ s \in P!Storage
    /\ \A u \in Account : s.consumers[u] > 0 => s.providers[u] > 0
    /\ \A p \in Permission : s.modes[p] = IF p = TRANSFER THEN Forbid ELSE Permit

\* o is referred to, owns the permissions on a and holds those that are permits.
Roles(s, o, a) ==
    /\ s.consumers[o] > 0
    /\ \A p \in {TRANSFER, MINT, BURN} : P!Owns(s, o, p, a)
    /\ \A p \in {MINT, BURN} : <<o, a, p>> \in s.held

AssetEntries(o, a) == {<<o, a, p>> : p \in {TRANSFER, MINT, BURN}}

\* The fields of the storage and their types.
LEMMA FieldFacts ==
    ASSUME NEW s \in P!Storage
    PROVE  /\ \A u \in Account : s.consumers[u] \in Nat /\ s.providers[u] \in Nat
           /\ s.held \subseteq Account \X P!Scopes \X Permission
           /\ DOMAIN s.providers = Account
  BY DEF P!Storage

\* A call that only hands out keeps the storage sound and everybody's roles.
LEMMA AddsKeep ==
    ASSUME NEW s, NEW t, NEW new, Sound(s), PC!Adds(s, t, new)
    PROVE  /\ Sound(t)
           /\ t.providers = s.providers
           /\ s.held \subseteq t.held /\ t.held \subseteq s.held \cup new
           /\ \A o \in Account, a \in P!Scopes : Roles(s, o, a) => Roles(t, o, a)
  <1>1. /\ t \in P!Storage /\ t.providers = s.providers /\ t.modes = s.modes
        /\ s.held \subseteq t.held /\ t.held \subseteq s.held \cup new
    BY SameTypes DEF PC!Adds
  <1>2. \A u \in Account : /\ t.consumers[u] >= s.consumers[u]
                           /\ t.consumers[u] > s.consumers[u] => s.providers[u] > 0
    BY DEF PC!Adds
  <1>3. \A o \in Account, p \in Permission, a \in P!Scopes :
            P!Owns(s, o, p, a) => P!Owns(t, o, p, a)
    BY SameTypes DEF PC!Adds
  <1>4. \A u \in Account : s.consumers[u] \in Nat /\ t.consumers[u] \in Nat
    BY <1>1, FieldFacts DEF Sound
  <1>5. \A u \in Account : t.consumers[u] > 0 => t.providers[u] > 0
    <2> TAKE u \in Account
    <2>1. s.consumers[u] > 0 => s.providers[u] > 0
      BY DEF Sound
    <2> QED
      BY <1>1, <1>2, <1>4, <2>1
  <1>6. Sound(t)
    BY <1>1, <1>5 DEF Sound
  <1>7. ASSUME NEW o \in Account, NEW a \in P!Scopes, Roles(s, o, a)
        PROVE  Roles(t, o, a)
    <2>1. s.consumers[o] > 0 /\ t.consumers[o] >= s.consumers[o]
      BY <1>2, <1>7 DEF Roles
    <2>2. t.consumers[o] > 0
      BY <1>4, <2>1
    <2>3. \A p \in {TRANSFER, MINT, BURN} : P!Owns(t, o, p, a)
      BY <1>3, <1>7 DEF Roles, Permission
    <2>4. \A p \in {MINT, BURN} : <<o, a, p>> \in t.held
      BY <1>1, <1>7 DEF Roles
    <2> QED
      BY <2>2, <2>3, <2>4 DEF Roles
  <1> QED
    BY <1>1, <1>6, <1>7

\* assign_permission as registration calls it.
LEMMA AssignOne ==
    ASSUME NEW s, Sound(s), NEW o \in Account, NEW p \in Permission,
           NEW a \in P!Scopes, P!AssignPermission(s, o, o, p, a).ok
    PROVE  LET t == P!AssignPermission(s, o, o, p, a).st
           IN  /\ PC!Adds(s, t, {<<o, a, p>>})
               /\ P!Owns(t, o, p, a)
               /\ p # TRANSFER => <<o, a, p>> \in t.held
  <1>1. s \in PC!Storage /\ a \in PC!Scopes
    BY SameTypes DEF Sound
  <1>2. p # TRANSFER => s.modes[p] = Permit
    BY DEF Sound
  <1> DEFINE r == P!AssignPermission(s, o, o, p, a)
  <1>3. r = PC!AssignPermission(s, o, o, p, a)
    BY SameCalls
  <1> DEFINE q == PC!AssignPermission(s, o, o, p, a)
  <1>4. /\ PC!Adds(s, q.st, {<<o, a, p>>})
        /\ q.ok => PC!Owns(q.st, o, p, a)
        /\ q.ok /\ s.modes[p] = Permit => <<o, a, p>> \in q.st.held
    BY <1>1, PC!AssignAdds, PermissionsApply
  <1> HIDE DEF q
  <1>5. r.ok /\ r = q
    BY <1>3 DEF q
  <1> QED
    BY <1>2, <1>4, <1>5, SameTypes

\* register_asset_id gives the owner its reference and its permissions.
LEMMA RegisterRolesAdds ==
    ASSUME NEW s, Sound(s), NEW o \in Account, NEW a \in P!Scopes,
           RegisterRoles(s, o, a).ok
    PROVE  LET t == RegisterRoles(s, o, a).st
           IN  PC!Adds(s, t, AssetEntries(o, a)) /\ Roles(t, o, a)
  <1> DEFINE new == AssetEntries(o, a)
             assign(r, p) == IF r.ok THEN P!AssignPermission(r.st, o, o, p, a) ELSE r
             counted == IF P!CanIncConsumers(s, o) THEN P!Ok(P!IncConsumers(s, o))
                                                   ELSE P!Failed(s)
             r1 == assign(counted, TRANSFER)
             r2 == assign(r1, MINT)
             r3 == assign(r2, BURN)
  <1>1. RegisterRoles(s, o, a) = r3
    BY DEF RegisterRoles
  <1>2. /\ r3.ok => r2.ok /\ r3 = P!AssignPermission(r2.st, o, o, BURN, a)
        /\ r2.ok => r1.ok /\ r2 = P!AssignPermission(r1.st, o, o, MINT, a)
        /\ r1.ok => counted.ok /\ r1 = P!AssignPermission(counted.st, o, o, TRANSFER, a)
    <2> HIDE DEF counted
    <2>1. r1.ok => counted.ok /\ r1 = P!AssignPermission(counted.st, o, o, TRANSFER, a)
      OBVIOUS
    <2> HIDE DEF r1
    <2>2. r2.ok => r1.ok /\ r2 = P!AssignPermission(r1.st, o, o, MINT, a)
      OBVIOUS
    <2> HIDE DEF r2
    <2>3. r3.ok => r2.ok /\ r3 = P!AssignPermission(r2.st, o, o, BURN, a)
      OBVIOUS
    <2> QED
      BY <2>1, <2>2, <2>3
  <1>3. counted.ok => P!CanIncConsumers(s, o) /\ counted.st = P!IncConsumers(s, o)
    BY DEF P!Ok, P!Failed
  <1> HIDE DEF counted, r1, r2, r3
  <1>4. /\ r3.ok /\ r2.ok /\ r1.ok /\ counted.ok
        /\ r3 = P!AssignPermission(r2.st, o, o, BURN, a)
        /\ r2 = P!AssignPermission(r1.st, o, o, MINT, a)
        /\ r1 = P!AssignPermission(counted.st, o, o, TRANSFER, a)
    BY <1>1, <1>2
  <1>5. /\ {TRANSFER, MINT, BURN} \subseteq Permission
        /\ MINT # TRANSFER /\ BURN # TRANSFER
        /\ \A p \in {TRANSFER, MINT, BURN} : {<<o, a, p>>} \subseteq new
    BY DistinctAssumption DEF Permission, AssetEntries
  <1> HIDE DEF new
  <1>6. PC!Adds(s, counted.st, new) /\ counted.st.consumers[o] > 0
    <2>1. s \in PC!Storage /\ PC!CanIncConsumers(s, o)
      BY <1>3, <1>4, SameTypes, SameCounters DEF Sound
    <2>2. counted.st = PC!IncConsumers(s, o)
      BY <1>3, <1>4, SameCounters
    <2>3. /\ PC!Adds(s, PC!IncConsumers(s, o), new)
          /\ PC!IncConsumers(s, o).consumers[o] > 0
      BY <2>1, PC!IncConsumersAdds, PermissionsApply
    <2> QED
      BY <2>2, <2>3
  <1>7. Sound(counted.st)
    BY <1>6, AddsKeep
  <1>8. /\ PC!Adds(counted.st, r1.st, new) /\ Sound(r1.st)
        /\ P!Owns(r1.st, o, TRANSFER, a)
    <2>1. /\ PC!Adds(counted.st, r1.st, {<<o, a, TRANSFER>>})
          /\ P!Owns(r1.st, o, TRANSFER, a)
      BY <1>4, <1>5, <1>7, AssignOne
    <2>2. PC!Adds(counted.st, r1.st, new)
      BY <1>5, <2>1, MoreIsAdded
    <2> QED
      BY <1>7, <2>1, <2>2, AddsKeep
  <1>9. /\ PC!Adds(r1.st, r2.st, new) /\ Sound(r2.st)
        /\ P!Owns(r2.st, o, MINT, a) /\ <<o, a, MINT>> \in r2.st.held
    <2>1. /\ PC!Adds(r1.st, r2.st, {<<o, a, MINT>>})
          /\ P!Owns(r2.st, o, MINT, a) /\ <<o, a, MINT>> \in r2.st.held
      BY <1>4, <1>5, <1>8, AssignOne
    <2>2. PC!Adds(r1.st, r2.st, new)
      BY <1>5, <2>1, MoreIsAdded
    <2> QED
      BY <1>8, <2>1, <2>2, AddsKeep
  <1>10. /\ PC!Adds(r2.st, r3.st, new) /\ Sound(r3.st)
         /\ P!Owns(r3.st, o, BURN, a) /\ <<o, a, BURN>> \in r3.st.held
    <2>1. /\ PC!Adds(r2.st, r3.st, {<<o, a, BURN>>})
          /\ P!Owns(r3.st, o, BURN, a) /\ <<o, a, BURN>> \in r3.st.held
      BY <1>4, <1>5, <1>9, AssignOne
    <2>2. PC!Adds(r2.st, r3.st, new)
      BY <1>5, <2>1, MoreIsAdded
    <2> QED
      BY <1>9, <2>1, <2>2, AddsKeep
  <1>11. /\ PC!Adds(s, r1.st, new) /\ PC!Adds(s, r2.st, new) /\ PC!Adds(s, r3.st, new)
         /\ PC!Adds(counted.st, r3.st, new) /\ PC!Adds(r1.st, r3.st, new)
    <2>1. s \in PC!Storage /\ counted.st \in PC!Storage /\ r1.st \in PC!Storage
      BY <1>7, <1>8, SameTypes DEF Sound
    <2>2. PC!Adds(s, r1.st, new)
      BY <1>6, <1>8, <2>1, AddedInTurn
    <2>3. PC!Adds(s, r2.st, new)
      BY <1>9, <2>1, <2>2, AddedInTurn
    <2>4. PC!Adds(s, r3.st, new)
      BY <1>10, <2>1, <2>3, AddedInTurn
    <2>5. PC!Adds(r1.st, r3.st, new)
      BY <1>9, <1>10, <2>1, AddedInTurn
    <2>6. PC!Adds(counted.st, r3.st, new)
      BY <1>8, <2>1, <2>5, AddedInTurn
    <2> QED
      BY <2>2, <2>3, <2>4, <2>5, <2>6
  <1>12. r3.st.consumers[o] > 0
    <2>1. /\ r3.st.consumers[o] >= counted.st.consumers[o]
      BY <1>11 DEF PC!Adds
    <2>2. r3.st.consumers[o] \in Nat /\ counted.st.consumers[o] \in Nat
      BY <1>7, <1>10, FieldFacts DEF Sound
    <2> QED
      BY <1>6, <2>1, <2>2
  <1>13. P!Owns(r3.st, o, TRANSFER, a) /\ P!Owns(r3.st, o, MINT, a)
    <2>1. \A x, y : PC!Adds(x, y, new) =>
              \A p \in Permission : P!Owns(x, o, p, a) => P!Owns(y, o, p, a)
      BY SameTypes DEF PC!Adds
    <2> QED
      BY <1>5, <1>8, <1>9, <1>10, <1>11, <2>1
  <1>14. <<o, a, MINT>> \in r3.st.held
    BY <1>9, <1>10 DEF PC!Adds
  <1>15. Roles(r3.st, o, a)
    BY <1>10, <1>12, <1>13, <1>14 DEF Roles
  <1> QED
    BY <1>1, <1>11, <1>15 DEF new

\* Other providers change nothing else, as long as whoever is referred to keeps one.
LEMMA ProvidersKeep ==
    ASSUME NEW s, Sound(s), NEW u \in Account, NEW n \in Nat,
           s.consumers[u] > 0 => n > 0
    PROVE  LET t == [s EXCEPT !.providers[u] = n]
           IN  /\ Sound(t)
               /\ t.held = s.held /\ t.consumers = s.consumers
               /\ \A o \in Account, a \in P!Scopes : Roles(s, o, a) => Roles(t, o, a)
  <1> DEFINE t == [s EXCEPT !.providers[u] = n]
  <1>1. /\ t \in PC!Storage
        /\ t.owners = s.owners /\ t.modes = s.modes /\ t.held = s.held
        /\ t.consumers = s.consumers
        /\ t.providers[u] = n
        /\ \A b \in Account \ {u} : t.providers[b] = s.providers[b]
    <2>1. s \in PC!Storage
      BY SameTypes DEF Sound
    <2> QED
      BY <2>1, PC!ProviderFacts, PermissionsApply
  <1> HIDE DEF t
  <1>2. \A b \in Account : t.consumers[b] > 0 => t.providers[b] > 0
    BY <1>1 DEF Sound
  <1>3. Sound(t)
    BY <1>1, <1>2, SameTypes DEF Sound
  <1>4. \A o \in Account, a \in P!Scopes : Roles(s, o, a) => Roles(t, o, a)
    BY <1>1 DEF Roles, P!Owns
  <1> QED
    BY <1>1, <1>3, <1>4 DEF t

\* A provider more.
LEMMA IncProvidersKeep ==
    ASSUME NEW s, Sound(s), NEW u \in Account
    PROVE  LET t == P!IncProviders(s, u)
           IN  /\ Sound(t)
               /\ t.held = s.held /\ t.consumers = s.consumers
               /\ \A o \in Account, a \in P!Scopes : Roles(s, o, a) => Roles(t, o, a)
  <1>1. s.providers[u] \in Nat
    BY FieldFacts DEF Sound
  <1> DEFINE n == s.providers[u] + 1
  <1>2. n \in Nat /\ n > 0 /\ P!IncProviders(s, u) = [s EXCEPT !.providers[u] = n]
    BY <1>1 DEF P!IncProviders
  <1> HIDE DEF n
  <1> QED
    BY <1>2, ProvidersKeep

\* A provider fewer: the last one leaves only an account that nothing refers to.
LEMMA DecProvidersKeep ==
    ASSUME NEW s, Sound(s), NEW u \in Account, P!CanDecProviders(s, u)
    PROVE  LET t == P!DecProviders(s, u)
           IN  /\ Sound(t)
               /\ t.held = s.held /\ t.consumers = s.consumers
               /\ \A o \in Account, a \in P!Scopes : Roles(s, o, a) => Roles(t, o, a)
  <1>1. s.providers[u] \in Nat /\ s.consumers[u] \in Nat
    BY FieldFacts DEF Sound
  <1> DEFINE n == s.providers[u] - 1
  <1>2. P!DecProviders(s, u) = [s EXCEPT !.providers[u] = n]
    BY DEF P!DecProviders
  <1>3. n \in Nat /\ (s.consumers[u] > 0 => n > 0)
    BY <1>1 DEF P!CanDecProviders
  <1> HIDE DEF n
  <1> QED
    BY <1>2, <1>3, ProvidersKeep

\* grant_permission_with_scope as initialize_pool calls it.
LEMMA GrantOne ==
    ASSUME NEW s, Sound(s), NEW o \in Account, NEW h \in Account, NEW p \in Permission,
           NEW a \in P!Scopes, P!GrantPermission(s, o, h, p, a).ok
    PROVE  LET t == P!GrantPermission(s, o, h, p, a).st
           IN  PC!Adds(s, t, {<<h, a, p>>}) /\ <<h, a, p>> \in t.held
  <1>1. s \in PC!Storage /\ a \in PC!Scopes
    BY SameTypes DEF Sound
  <1> DEFINE r == P!GrantPermission(s, o, h, p, a)
             q == PC!GrantPermission(s, o, h, p, a)
  <1>2. PC!Adds(s, q.st, {<<h, a, p>>}) /\ (q.ok => <<h, a, p>> \in q.st.held)
    BY <1>1, PC!GrantAdds, PermissionsApply
  <1>3. r = q
    BY SameCalls
  <1> QED
    BY <1>2, <1>3

\* The ids of markers and the accounts of pools.
LEMMA PoolFacts ==
    ASSUME NEW d \in Dexes, NEW t \in Targets
    PROVE  /\ Marker(d, t) \in AssetIds /\ Marker(d, t) \in P!Scopes
           /\ PoolAccount(d, t) \in Account /\ FeesAccount(d, t) \in Account
           /\ PoolAccount(d, t) \in TechAccounts /\ FeesAccount(d, t) \in TechAccounts
  BY DEF AssetIds, Markers, P!Scopes, Account, TechAccounts

\* What initialize_pool hands out: the roles of the marker asset to the caller, and
\* minting and burning it to the pool.
InitEntries(u, d, t) ==
    AssetEntries(u, Marker(d, t))
    \cup {<<PoolAccount(d, t), Marker(d, t), p>> : p \in {MINT, BURN}}

\* initialize_pool hands that out and takes nothing.
LEMMA InitializeRolesKeep ==
    ASSUME NEW s, Sound(s), NEW u \in Users, NEW d \in Dexes, NEW t \in Targets,
           InitializeRoles(s, u, d, t).ok
    PROVE  LET r == InitializeRoles(s, u, d, t).st
           IN  /\ Sound(r)
               /\ s.held \subseteq r.held /\ r.held \subseteq s.held \cup InitEntries(u, d, t)
               /\ Roles(r, u, Marker(d, t))
               /\ \A p \in {MINT, BURN} : <<PoolAccount(d, t), Marker(d, t), p>> \in r.held
               /\ \A o \in Account, a \in P!Scopes : Roles(s, o, a) => Roles(r, o, a)
  <1> DEFINE m == Marker(d, t)
             pool == PoolAccount(d, t)
             grant(r, p) == IF r.ok THEN P!GrantPermission(r.st, u, pool, p, m) ELSE r
             s1 == P!IncProviders(s, pool)
             tech == RegisterTechAccounts(s, d, t)
             asset == RegisterRoles(tech, u, m)
             r1 == grant(asset, MINT)
             r2 == grant(r1, BURN)
  <1>1. InitializeRoles(s, u, d, t) = r2
    BY DEF InitializeRoles
  <1>2. /\ r2.ok => r1.ok /\ r2 = P!GrantPermission(r1.st, u, pool, BURN, m)
        /\ r1.ok => asset.ok /\ r1 = P!GrantPermission(asset.st, u, pool, MINT, m)
    <2> HIDE DEF asset
    <2>1. r1.ok => asset.ok /\ r1 = P!GrantPermission(asset.st, u, pool, MINT, m)
      OBVIOUS
    <2> HIDE DEF r1
    <2>2. r2.ok => r1.ok /\ r2 = P!GrantPermission(r1.st, u, pool, BURN, m)
      OBVIOUS
    <2> QED
      BY <2>1, <2>2
  <1>3. tech = P!IncProviders(s1, FeesAccount(d, t))
    BY DEF RegisterTechAccounts
  <1>4. asset = RegisterRoles(tech, u, m)
    OBVIOUS
  <1>5. /\ m \in P!Scopes /\ pool \in Account /\ FeesAccount(d, t) \in Account
        /\ u \in Account /\ MINT \in Permission /\ BURN \in Permission
    BY PoolFacts DEF Account, Permission
  <1>6. s1 = P!IncProviders(s, pool)
    OBVIOUS
  <1>7. /\ AssetEntries(u, m) \subseteq InitEntries(u, d, t)
        /\ {<<pool, m, MINT>>} \subseteq InitEntries(u, d, t)
        /\ {<<pool, m, BURN>>} \subseteq InitEntries(u, d, t)
    BY DEF InitEntries
  <1> HIDE DEF tech, asset, r1, r2, s1, m, pool
  <1>8. /\ Sound(s1) /\ s1.held = s.held
        /\ \A o \in Account, a \in P!Scopes : Roles(s, o, a) => Roles(s1, o, a)
    BY <1>5, <1>6, IncProvidersKeep
  <1>9. /\ Sound(tech) /\ tech.held = s.held
        /\ \A o \in Account, a \in P!Scopes : Roles(s, o, a) => Roles(tech, o, a)
    <2>1. /\ Sound(tech) /\ tech.held = s1.held
          /\ \A o \in Account, a \in P!Scopes : Roles(s1, o, a) => Roles(tech, o, a)
      BY <1>3, <1>5, <1>8, IncProvidersKeep
    <2> QED
      BY <1>8, <2>1
  <1>10. /\ r2.ok /\ r1.ok /\ asset.ok
         /\ r2 = P!GrantPermission(r1.st, u, pool, BURN, m)
         /\ r1 = P!GrantPermission(asset.st, u, pool, MINT, m)
    BY <1>1, <1>2
  <1>11. /\ Sound(asset.st) /\ Roles(asset.st, u, m)
         /\ s.held \subseteq asset.st.held
         /\ asset.st.held \subseteq s.held \cup AssetEntries(u, m)
         /\ \A o \in Account, a \in P!Scopes : Roles(s, o, a) => Roles(asset.st, o, a)
    <2>1. PC!Adds(tech, asset.st, AssetEntries(u, m)) /\ Roles(asset.st, u, m)
      BY <1>4, <1>5, <1>9, <1>10, RegisterRolesAdds
    <2>2. /\ Sound(asset.st)
          /\ tech.held \subseteq asset.st.held
          /\ asset.st.held \subseteq tech.held \cup AssetEntries(u, m)
          /\ \A o \in Account, a \in P!Scopes : Roles(tech, o, a) => Roles(asset.st, o, a)
      BY <1>9, <2>1, AddsKeep
    <2> QED
      BY <1>9, <2>1, <2>2
  <1>12. /\ Sound(r1.st) /\ <<pool, m, MINT>> \in r1.st.held
         /\ asset.st.held \subseteq r1.st.held
         /\ r1.st.held \subseteq asset.st.held \cup {<<pool, m, MINT>>}
         /\ \A o \in Account, a \in P!Scopes : Roles(asset.st, o, a) => Roles(r1.st, o, a)
    <2>1. PC!Adds(asset.st, r1.st, {<<pool, m, MINT>>}) /\ <<pool, m, MINT>> \in r1.st.held
      BY <1>5, <1>10, <1>11, GrantOne
    <2> QED
      BY <1>11, <2>1, AddsKeep
  <1>13. /\ Sound(r2.st) /\ <<pool, m, BURN>> \in r2.st.held
         /\ r1.st.held \subseteq r2.st.held
         /\ r2.st.held \subseteq r1.st.held \cup {<<pool, m, BURN>>}
         /\ \A o \in Account, a \in P!Scopes : Roles(r1.st, o, a) => Roles(r2.st, o, a)
    <2>1. PC!Adds(r1.st, r2.st, {<<pool, m, BURN>>}) /\ <<pool, m, BURN>> \in r2.st.held
      BY <1>5, <1>10, <1>12, GrantOne
    <2> QED
      BY <1>12, <2>1, AddsKeep
  <1>14. /\ s.held \subseteq r2.st.held
         /\ r2.st.held \subseteq s.held \cup InitEntries(u, d, t)
    BY <1>7, <1>11, <1>12, <1>13
  <1>15. /\ Roles(r2.st, u, m)
         /\ \A o \in Account, a \in P!Scopes : Roles(s, o, a) => Roles(r2.st, o, a)
    BY <1>5, <1>11, <1>12, <1>13
  <1>16. \A p \in {MINT, BURN} : <<pool, m, p>> \in r2.st.held
    BY <1>12, <1>13
  <1> QED
    BY <1>1, <1>13, <1>14, <1>15, <1>16 DEF m, pool

-----------------------------------------------------------------------------
(* The genesis.                                                            *)

\* The genesis of permissions is sound, and nobody may mint yet.
LEMMA GenesisSound ==
    /\ Sound(Genesis)
    /\ \A u, a : <<u, a, MINT>> \notin Genesis.held
  <1> DEFINE held == {<<m[1], m[2], MANAGE_DEX>> : m \in Managers}
                     \cup {<<f[1], f[2], TRANSFER>> : f \in Forbidden}
             entries(u) == {scope \in P!Scopes : \E p \in Permission : <<u, scope, p>> \in held}
             consumers == [a \in Account |-> IF a \in Users THEN Cardinality(entries(a)) ELSE 0]
             providers == [a \in Account |-> IF a \in Users THEN 1 ELSE 0]
  <1>1. /\ Genesis.owners = [key \in Permission \X P!Scopes |-> <<>>]
        /\ Genesis.modes = [p \in Permission |-> IF p = TRANSFER THEN Forbid ELSE Permit]
        /\ Genesis.held = held
        /\ Genesis.consumers = consumers
        /\ Genesis.providers = providers
        /\ Genesis = [owners |-> Genesis.owners, modes |-> Genesis.modes,
                      held |-> Genesis.held, consumers |-> Genesis.consumers,
                      providers |-> Genesis.providers]
    BY DEF Genesis
  <1>2. held \subseteq Account \X P!Scopes \X Permission
    BY DexAssumption DEF Account, P!Scopes, Permission
  <1>3. consumers \in [Account -> Nat] /\ providers \in [Account -> Nat]
    <2>1. \A u \in Users : Cardinality(entries(u)) \in Nat
      <3> TAKE u \in Users
      <3>1. entries(u) \in SUBSET P!Scopes
        OBVIOUS
      <3> QED
        BY <3>1, FiniteFacts, FS_Subset, FS_CardinalityType
    <2> HIDE DEF entries
    <2> QED
      BY <2>1
  <1>4. \A u \in Account : consumers[u] > 0 => providers[u] > 0
    <2> HIDE DEF entries
    <2> QED
      OBVIOUS
  <1>5. \A u, a : <<u, a, MINT>> \notin held
    BY DistinctAssumption
  <1> HIDE DEF held, consumers, providers
  <1>6. Genesis.owners \in [Permission \X P!Scopes -> Seq(Account)]
    BY <1>1
  <1>7. Genesis.modes \in [Permission -> {Permit, Forbid, NoMode}]
    BY <1>1
  <1>8. Genesis \in P!Storage
    BY <1>1, <1>2, <1>3, <1>6, <1>7 DEF P!Storage
  <1>9. \A p \in Permission : Genesis.modes[p] = IF p = TRANSFER THEN Forbid ELSE Permit
    BY <1>1
  <1> QED
    BY <1>1, <1>4, <1>5, <1>8, <1>9 DEF Sound

\* One registration of the genesis, after those before it succeeded.
Endow(assets, r, n) ==
    IF r.ok THEN RegisterRoles(r.st, assets[n][2], assets[n][1]) ELSE r

\* f[n] is what the first n of the registrations leave.
IsRun(assets, last, f) ==
    f = [n \in 0 .. last |-> IF n = 0 THEN P!Ok(Genesis) ELSE Endow(assets, f[n - 1], n)]

\* What any number of registrations leaves is defined.
LEMMA RunExists ==
    ASSUME NEW assets, NEW last \in Nat
    PROVE  \E f : IsRun(assets, last, f)
  <1> DEFINE bad == {n \in Nat : ~ \E f : IsRun(assets, n, f)}
  <1>1. SUFFICES ASSUME bad # {} PROVE FALSE
    OBVIOUS
  <1>2. PICK n \in bad : \A k \in bad : n <= k
    <2>1. bad \in SUBSET Nat
      OBVIOUS
    <2> HIDE DEF bad
    <2> QED
      BY <1>1, <2>1, LeastElement
  <1>3. n \in Nat /\ ~ \E f : IsRun(assets, n, f)
    BY <1>2
  <1>4. n # 0
    <2> DEFINE f == [k \in 0 .. 0 |-> P!Ok(Genesis)]
    <2>1. \A k \in 0 .. 0 : k = 0
      OBVIOUS
    <2>2. IsRun(assets, 0, f)
      BY <2>1 DEF IsRun
    <2> QED
      BY <1>3, <2>2
  <1>5. PICK g : IsRun(assets, n - 1, g)
    <2>1. n - 1 \in Nat /\ ~ (n <= n - 1)
      BY <1>3, <1>4
    <2> QED
      BY <1>2, <2>1
  <1> DEFINE f == [k \in 0 .. n |-> IF k < n THEN g[k] ELSE Endow(assets, g[n - 1], n)]
  <1>6. \A k \in 0 .. n - 1 :
            g[k] = IF k = 0 THEN P!Ok(Genesis) ELSE Endow(assets, g[k - 1], k)
    BY <1>5 DEF IsRun
  <1>7. \A k \in 0 .. n :
            f[k] = IF k = 0 THEN P!Ok(Genesis) ELSE Endow(assets, f[k - 1], k)
    <2> TAKE k \in 0 .. n
    <2>1. CASE k < n
      <3>1. k \in 0 .. n - 1 /\ f[k] = g[k]
        BY <1>3, <2>1
      <3>2. k # 0 => f[k - 1] = g[k - 1]
        BY <1>3, <2>1
      <3> HIDE DEF f
      <3> QED
        BY <1>6, <3>1, <3>2
    <2>2. CASE k = n
      <3>1. f[k] = Endow(assets, g[n - 1], n) /\ f[n - 1] = g[n - 1]
        BY <1>3, <1>4, <2>2
      <3> HIDE DEF f
      <3> QED
        BY <1>4, <2>2, <3>1
    <2> QED
      BY <1>3, <2>1, <2>2
  <1>8. f = [k \in 0 .. n |-> IF k = 0 THEN P!Ok(Genesis) ELSE Endow(assets, f[k - 1], k)]
    <2>1. f = [k \in 0 .. n |-> f[k]]
      OBVIOUS
    <2> HIDE DEF f
    <2> QED
      BY <1>7, <2>1
  <1> HIDE DEF f
  <1> QED
    BY <1>3, <1>8 DEF IsRun

\* The genesis of assets is such a run.
LEMMA EndowedRun ==
    ASSUME NEW assets, Len(assets) \in Nat
    PROVE  \E f : IsRun(assets, Len(assets), f) /\ EndowedRoles(assets) = f[Len(assets)]
  BY RunExists DEF EndowedRoles, IsRun, Endow

\* After registrations 1 .. n of the genesis their owners have their roles, and
\* nobody else may mint.
Endowed(assets, s, n) ==
    /\ Sound(s)
    /\ \A i \in 1 .. n : Roles(s, assets[i][2], assets[i][1])
    /\ \A u, a : <<u, a, MINT>> \in s.held =>
           \E i \in 1 .. n : u = assets[i][2] /\ a = assets[i][1]

\* One more registration of the genesis.
LEMMA EndowOne ==
    ASSUME NEW assets \in Seq(Predefined \X Users), NEW n \in 1 .. Len(assets), NEW r,
           r.ok => Endowed(assets, r.st, n - 1), Endow(assets, r, n).ok
    PROVE  Endowed(assets, Endow(assets, r, n).st, n)
  <1> DEFINE o == assets[n][2]
             a == assets[n][1]
             t == RegisterRoles(r.st, o, a).st
  <1>1. r.ok /\ Endow(assets, r, n) = RegisterRoles(r.st, o, a)
    BY DEF Endow
  <1>2. /\ Sound(r.st)
        /\ \A i \in 1 .. (n - 1) : Roles(r.st, assets[i][2], assets[i][1])
        /\ \A v, b : <<v, b, MINT>> \in r.st.held =>
               \E i \in 1 .. (n - 1) : v = assets[i][2] /\ b = assets[i][1]
    BY <1>1 DEF Endowed
  <1>3. /\ n \in Nat /\ n > 0 /\ n <= Len(assets) /\ Len(assets) \in Nat
        /\ \A i \in 1 .. n : assets[i] \in Predefined \X Users
    OBVIOUS
  <1>4. \A i \in 1 .. n : assets[i][2] \in Account /\ assets[i][1] \in P!Scopes
    BY <1>3 DEF Account, P!Scopes, AssetIds, Targets
  <1>5. o \in Account /\ a \in P!Scopes /\ RegisterRoles(r.st, o, a).ok
    BY <1>1, <1>3, <1>4
  <1>6. PC!Adds(r.st, t, AssetEntries(o, a)) /\ Roles(t, o, a)
    <2> HIDE DEF o, a
    <2> QED
      BY <1>2, <1>5, RegisterRolesAdds
  <1>7. /\ Sound(t) /\ t.held \subseteq r.st.held \cup AssetEntries(o, a)
        /\ \A v \in Account, b \in P!Scopes : Roles(r.st, v, b) => Roles(t, v, b)
    <2> HIDE DEF o, a, t
    <2> QED
      BY <1>2, <1>6, AddsKeep
  <1>8. \A i \in 1 .. n : i \in 1 .. (n - 1) \/ i = n
    BY <1>3
  <1>9. \A i \in 1 .. n : Roles(t, assets[i][2], assets[i][1])
    <2> TAKE i \in 1 .. n
    <2>1. CASE i \in 1 .. (n - 1)
      <3>1. Roles(r.st, assets[i][2], assets[i][1])
        BY <1>2, <2>1
      <3> HIDE DEF t
      <3> QED
        BY <1>4, <1>7, <3>1
    <2>2. CASE i = n
      BY <1>6, <2>2
    <2> QED
      BY <1>8, <2>1, <2>2
  <1>10. ASSUME NEW v, NEW b, <<v, b, MINT>> \in t.held
         PROVE  \E i \in 1 .. n : v = assets[i][2] /\ b = assets[i][1]
    <2>1. CASE <<v, b, MINT>> \in r.st.held
      <3>1. PICK i \in 1 .. (n - 1) : v = assets[i][2] /\ b = assets[i][1]
        BY <1>2, <2>1
      <3> QED
        BY <1>3, <3>1
    <2>2. CASE <<v, b, MINT>> \in AssetEntries(o, a)
      <3>1. v = o /\ b = a
        BY <2>2 DEF AssetEntries
      <3> QED
        BY <1>3, <3>1
    <2> HIDE DEF t, o, a
    <2> QED
      BY <1>7, <1>10, <2>1, <2>2
  <1> HIDE DEF t, o, a
  <1>11. Endowed(assets, t, n)
    BY <1>7, <1>9, <1>10 DEF Endowed
  <1> QED
    BY <1>1, <1>11 DEF t

\* A genesis that does not fail leaves the owners with their roles, and nobody else
\* may mint.
LEMMA EndowedSound ==
    ASSUME NEW assets \in Seq(Predefined \X Users), EndowedRoles(assets).ok
    PROVE  Endowed(assets, EndowedRoles(assets).st, Len(assets))
  <1> DEFINE last == Len(assets)
  <1>1. last \in Nat
    OBVIOUS
  <1>2. PICK f : IsRun(assets, last, f) /\ EndowedRoles(assets) = f[last]
    BY <1>1, EndowedRun
  <1> HIDE DEF last
  <1>3. \A n \in 0 .. last :
            f[n] = IF n = 0 THEN P!Ok(Genesis) ELSE Endow(assets, f[n - 1], n)
    BY <1>2 DEF IsRun
  <1> DEFINE Good(n) == f[n].ok => Endowed(assets, f[n].st, n)
             bad == {n \in 0 .. last : ~ Good(n)}
  <1>4. bad = {}
    <2> SUFFICES ASSUME bad # {} PROVE FALSE
      OBVIOUS
    <2>1. PICK n \in bad : \A k \in bad : n <= k
      <3>1. bad \in SUBSET Nat
        BY <1>1
      <3> HIDE DEF bad
      <3> QED
        BY <3>1, LeastElement
    <2>2. n \in 0 .. last /\ ~ Good(n)
      BY <2>1
    <2>3. n # 0
      <3> SUFFICES ASSUME n = 0 PROVE FALSE
        OBVIOUS
      <3>1. f[0] = P!Ok(Genesis)
        BY <1>1, <1>3
      <3>2. f[0].st = Genesis
        BY <3>1 DEF P!Ok
      <3>3. \A i \in 1 .. 0 : FALSE
        OBVIOUS
      <3>4. Endowed(assets, Genesis, 0)
        BY <3>3, GenesisSound DEF Endowed
      <3> QED
        BY <2>2, <3>2, <3>4
    <2>4. Good(n - 1)
      <3>1. n - 1 \in 0 .. last /\ ~ (n <= n - 1)
        BY <1>1, <2>2, <2>3
      <3> QED
        BY <2>1, <3>1
    <2>5. f[n] = Endow(assets, f[n - 1], n) /\ n \in 1 .. Len(assets)
      BY <1>1, <1>3, <2>2, <2>3 DEF last
    <2>6. f[n].ok => Endowed(assets, f[n].st, n)
      BY <2>4, <2>5, EndowOne
    <2> QED
      BY <2>2, <2>6
  <1>5. last \in 0 .. last
    BY <1>1
  <1>6. Good(last)
    BY <1>4, <1>5
  <1> QED
    BY <1>2, <1>6 DEF last

-----------------------------------------------------------------------------
(* The inductive invariant, in parts.                                      *)

\* Every variable but the storage has its type.
Types ==
    /\ nonce \in [Users -> 0 .. MaxNonce]
    /\ assetOwner \in [AssetIds -> Users \cup {NoOwner}]
    /\ mintable \in [AssetIds -> BOOLEAN]
    /\ balance \in [AssetIds -> [Users -> Nat]]
    /\ issuance \in [AssetIds -> Nat]
    /\ registered \subseteq TechAccounts
    /\ sources \in [Dexes -> [Targets -> {NoPair, {}, {XYKPool}}]]
    /\ properties \in [Targets -> Dexes \cup {NoPool}]

\* An id made from a nonce belongs to the account that it was made for, whose nonce
\* is past it.
Ids ==
    \A u \in Users, n \in 1 .. MaxNonce :
        AssetExists(<<u, n>>) => assetOwner[<<u, n>>] = u /\ n <= nonce[u]

\* Whoever owns an asset has its roles.
Owners == \A a \in AssetIds : AssetExists(a) => Roles(st, assetOwner[a], a)

\* MINT is held in the scopes of assets only, by the owner or the pool of the marker.
Minters ==
    \A who \in Account, a \in P!Scopes : <<who, a, MINT>> \in st.held =>
        /\ a \in AssetIds /\ AssetExists(a)
        /\ \/ who = assetOwner[a]
           \/ \E d \in Dexes, t \in Targets : a = Marker(d, t) /\ who = PoolAccount(d, t)

\* A pool is registered, listed and has its marker asset, or none of it.
Pools ==
    \A d \in Dexes, t \in Targets :
        /\ PoolAccount(d, t) \in registered <=> FeesAccount(d, t) \in registered
        /\ PoolAccount(d, t) \in registered <=> AssetExists(Marker(d, t))
        /\ PoolAccount(d, t) \in registered <=> sources[d][t] = {XYKPool}
        /\ PoolAccount(d, t) \in registered =>
               \A p \in {MINT, BURN} : <<PoolAccount(d, t), Marker(d, t), p>> \in st.held

\* A pair with an entry in EnabledSources is of an existing asset.
Listed == \A d \in Dexes, t \in Targets : sources[d][t] # NoPair => AssetExists(t)

\* Properties has an entry for what has a pool, and names a pool.
Named ==
    \A t \in Targets :
        /\ (\E d \in Dexes : PoolAccount(d, t) \in registered) <=> properties[t] # NoPool
        /\ properties[t] # NoPool => PoolAccount(properties[t], t) \in registered

\* An asset's issuance is the total of its balances.
Backed ==
    \A a \in AssetIds : /\ IsFiniteSet(UnitsOf(balance[a]))
                        /\ Cardinality(UnitsOf(balance[a])) = issuance[a]

\* The inductive invariant.
IInv ==
    /\ Sound(st) /\ Types
    /\ Ids /\ Owners /\ Minters /\ Pools /\ Listed /\ Named /\ Backed

-----------------------------------------------------------------------------
(* Ids and accounts are told apart.                                        *)

\* A generated id is no marker and no predefined asset.
LEMMA IdFacts ==
    /\ \A u \in Users, n \in 1 .. MaxNonce :
          /\ <<u, n>> \in AssetIds /\ <<u, n>> \in Targets /\ <<u, n>> \in P!Scopes
          /\ <<u, n>> \notin Markers /\ <<u, n>> \notin Predefined
    /\ Targets \subseteq AssetIds /\ AssetIds \subseteq P!Scopes
    /\ Users \subseteq Account /\ TechAccounts \subseteq Account
  <1>1. ASSUME NEW u \in Users, NEW n \in 1 .. MaxNonce
        PROVE  <<u, n>> \in Generated /\ <<u, n>> \notin Markers /\ <<u, n>> \notin Predefined
    <2>1. <<u, n>> \in Generated
      BY DEF Generated
    <2>2. <<u, n>> \notin Markers
      <3> SUFFICES ASSUME NEW d \in Dexes, NEW t \in Targets, <<u, n>> = Marker(d, t)
                   PROVE  FALSE
        BY DEF Markers
      <3>1. Len(<<u, n>>) = 2 /\ Len(Marker(d, t)) = 3
        BY DEF Marker
      <3> QED
        BY <3>1
    <2>3. <<u, n>> \notin Predefined
      BY <2>1, DistinctAssumption
    <2> QED
      BY <2>1, <2>2, <2>3
  <1> QED
    BY <1>1 DEF AssetIds, Targets, P!Scopes, Account

\* Markers and accounts of two pools differ.
LEMMA PoolsDiffer ==
    ASSUME NEW d \in Dexes, NEW t \in Targets, NEW e \in Dexes, NEW x \in Targets
    PROVE  /\ Marker(d, t) = Marker(e, x) => d = e /\ t = x
           /\ PoolAccount(d, t) = PoolAccount(e, x) => d = e /\ t = x
           /\ FeesAccount(d, t) = FeesAccount(e, x) => d = e /\ t = x
           /\ PoolAccount(d, t) # FeesAccount(e, x)
           /\ PoolAccount(d, t) \notin Users
           /\ Marker(d, t) \notin Targets
  <1>1. /\ Marker(d, t) = Marker(e, x) => d = e /\ t = x
        /\ PoolAccount(d, t) = PoolAccount(e, x) => d = e /\ t = x
        /\ FeesAccount(d, t) = FeesAccount(e, x) => d = e /\ t = x
        /\ PoolAccount(d, t) # FeesAccount(e, x)
    BY DEF Marker, PoolAccount, FeesAccount
  <1>2. PoolAccount(d, t) \notin Users
    BY PoolFacts, DistinctAssumption
  <1>3. Marker(d, t) \notin Targets
    <2>1. Marker(d, t) \in Markers
      BY DEF Markers
    <2>2. Marker(d, t) \notin Predefined
      BY <2>1, DistinctAssumption
    <2>3. Marker(d, t) \notin Generated
      <3> SUFFICES ASSUME Marker(d, t) \in Generated PROVE FALSE
        OBVIOUS
      <3>1. PICK u \in Users, n \in 1 .. MaxNonce : Marker(d, t) = <<u, n>>
        BY DEF Generated
      <3> QED
        BY <2>1, <3>1, IdFacts
    <2> QED
      BY <2>2, <2>3 DEF Targets
  <1> QED
    BY <1>1, <1>2, <1>3

-----------------------------------------------------------------------------
(* The invariant holds after the genesis.                                  *)

\* A genesis establishes the invariant.
LEMMA InitIInv ==
    Init => IInv
  <1> SUFFICES ASSUME NEW g \in GenesisConfigs, InitFrom(g) PROVE IInv
    BY DEF Init
  <1> DEFINE assets == g.assets
             last == Len(assets)
             isOwner(u, a) == \E i \in DOMAIN assets : assets[i] = <<a, u>>
             count(u) == {i \in DOMAIN assets : assets[i][2] = u}
  <1>1. /\ assets \in Seq(Predefined \X Users) /\ last <= MaxNonce
        /\ \A i, j \in DOMAIN assets : assets[i][1] = assets[j][1] => i = j
        /\ g.pairs \subseteq Dexes \X {assets[i][1] : i \in DOMAIN assets}
    BY GenesisAssumption
  <1>2. /\ EndowedRoles(assets).ok /\ st = EndowedRoles(assets).st
        /\ nonce = [u \in Users |-> Cardinality(count(u))]
        /\ assetOwner = [a \in AssetIds |->
               IF \E u \in Users : isOwner(u, a)
               THEN CHOOSE u \in Users : isOwner(u, a) ELSE NoOwner]
        /\ mintable = [a \in AssetIds |-> FALSE]
        /\ balance = [a \in AssetIds |-> [u \in Users |-> 0]]
        /\ issuance = [a \in AssetIds |-> 0]
        /\ registered = {}
        /\ sources = [d \in Dexes |-> [t \in Targets |->
               IF <<d, t>> \in g.pairs THEN {} ELSE NoPair]]
        /\ properties = [t \in Targets |-> NoPool]
    BY DEF InitFrom
  <1>3. /\ last \in Nat /\ DOMAIN assets = 1 .. last
        /\ \A i \in 1 .. last : /\ assets[i] \in Predefined \X Users
                                /\ assets[i] = <<assets[i][1], assets[i][2]>>
                                /\ assets[i][1] \in Predefined /\ assets[i][2] \in Users
    BY <1>1
  <1>4. Endowed(assets, st, last)
    BY <1>1, <1>2, EndowedSound
  <1> HIDE DEF assets, last
  <1>5. ASSUME NEW a \in AssetIds
        PROVE  /\ AssetExists(a) => /\ a \in Predefined
                                    /\ \E i \in 1 .. last : assets[i] = <<a, assetOwner[a]>>
               /\ assetOwner[a] \in Users \cup {NoOwner}
    <2>1. CASE \E u \in Users : isOwner(u, a)
      <3>1. assetOwner[a] \in Users /\ isOwner(assetOwner[a], a)
        BY <1>2, <2>1
      <3>2. PICK i \in 1 .. last : assets[i] = <<a, assetOwner[a]>>
        BY <1>3, <3>1
      <3>3. a \in Predefined
        BY <1>3, <3>2
      <3> QED
        BY <3>1, <3>2, <3>3
    <2>2. CASE ~ \E u \in Users : isOwner(u, a)
      <3>1. assetOwner[a] = NoOwner
        BY <1>2, <2>2
      <3> QED
        BY <3>1 DEF AssetExists
    <2> QED
      BY <2>1, <2>2
  <1>6. ASSUME NEW i \in 1 .. last
        PROVE  /\ assets[i][1] \in AssetIds /\ AssetExists(assets[i][1])
               /\ assetOwner[assets[i][1]] = assets[i][2]
    <2> DEFINE a == assets[i][1]
    <2>1. a \in AssetIds /\ a \in Predefined
      BY <1>3 DEF AssetIds, Targets
    <2>2. isOwner(assets[i][2], a) /\ assets[i][2] \in Users
      BY <1>3
    <2>3. assetOwner[a] \in Users /\ isOwner(assetOwner[a], a)
      <3> HIDE DEF a
      <3> QED
        BY <1>2, <2>1, <2>2
    <2>4. PICK j \in 1 .. last : assets[j] = <<a, assetOwner[a]>>
      BY <1>3, <2>3
    <2>5. j = i
      <3>1. assets[j][1] = assets[i][1]
        BY <2>4
      <3> QED
        BY <1>1, <1>3, <3>1
    <2>6. assetOwner[a] # NoOwner
      BY <2>3, OwnerAssumption DEF Account
    <2> QED
      BY <2>1, <2>4, <2>5, <2>6 DEF AssetExists
  <1>7. Sound(st)
    BY <1>4 DEF Endowed
  <1>8. Types
    <2>1. nonce \in [Users -> 0 .. MaxNonce]
      <3>1. \A u \in Users : Cardinality(count(u)) \in 0 .. MaxNonce
        <4> TAKE u \in Users
        <4>1. IsFiniteSet(1 .. last) /\ Cardinality(1 .. last) = last
          BY <1>3, FS_Interval
        <4>2. count(u) \in SUBSET (1 .. last)
          BY <1>3
        <4> HIDE DEF count
        <4>3. /\ IsFiniteSet(count(u)) /\ Cardinality(count(u)) <= last
              /\ Cardinality(count(u)) \in Nat
          BY <4>1, <4>2, FS_Subset, FS_CardinalityType
        <4> QED
          BY <1>1, <1>3, <4>3, CapAssumption
      <3> HIDE DEF count
      <3> QED
        BY <1>2, <3>1
    <2>2. assetOwner \in [AssetIds -> Users \cup {NoOwner}]
      BY <1>2, <1>5
    <2>3. /\ mintable \in [AssetIds -> BOOLEAN]
          /\ balance \in [AssetIds -> [Users -> Nat]]
          /\ issuance \in [AssetIds -> Nat]
          /\ registered \subseteq TechAccounts
          /\ properties \in [Targets -> Dexes \cup {NoPool}]
      BY <1>2
    <2>4. sources \in [Dexes -> [Targets -> {NoPair, {}, {XYKPool}}]]
      BY <1>2
    <2> QED
      BY <2>1, <2>2, <2>3, <2>4 DEF Types
  <1>9. Ids
    <2> SUFFICES ASSUME NEW u \in Users, NEW n \in 1 .. MaxNonce, AssetExists(<<u, n>>)
                 PROVE  FALSE
      BY DEF Ids
    <2> QED
      BY <1>5, IdFacts
  <1>10. Owners
    <2> SUFFICES ASSUME NEW a \in AssetIds, AssetExists(a)
                 PROVE  Roles(st, assetOwner[a], a)
      BY DEF Owners
    <2>1. PICK i \in 1 .. last : assets[i] = <<a, assetOwner[a]>>
      BY <1>5
    <2>2. Roles(st, assets[i][2], assets[i][1])
      BY <1>4 DEF Endowed
    <2> QED
      BY <2>1, <2>2
  <1>11. Minters
    <2> SUFFICES ASSUME NEW who \in Account, NEW a \in P!Scopes, <<who, a, MINT>> \in st.held
                 PROVE  a \in AssetIds /\ AssetExists(a) /\ who = assetOwner[a]
      BY DEF Minters
    <2>1. PICK i \in 1 .. last : who = assets[i][2] /\ a = assets[i][1]
      BY <1>4 DEF Endowed
    <2> QED
      BY <1>6, <2>1
  <1>12. Pools
    <2> SUFFICES ASSUME NEW d \in Dexes, NEW t \in Targets
                 PROVE  ~ AssetExists(Marker(d, t)) /\ sources[d][t] # {XYKPool}
      BY <1>2 DEF Pools
    <2>1. ~ AssetExists(Marker(d, t))
      <3>1. Marker(d, t) \in AssetIds /\ Marker(d, t) \notin Predefined
        BY PoolFacts, PoolsDiffer DEF Targets
      <3> QED
        BY <1>5, <3>1
    <2>2. sources[d][t] # {XYKPool}
      BY <1>2, SourceAssumption
    <2> QED
      BY <2>1, <2>2
  <1>13. Listed
    <2> SUFFICES ASSUME NEW d \in Dexes, NEW t \in Targets, sources[d][t] # NoPair
                 PROVE  AssetExists(t)
      BY DEF Listed
    <2>1. <<d, t>> \in g.pairs
      BY <1>2
    <2>2. PICK i \in 1 .. last : t = assets[i][1]
      BY <1>1, <1>3, <2>1
    <2> QED
      BY <1>6, <2>2
  <1>14. Named
    BY <1>2 DEF Named
  <1>15. Backed
    <2> SUFFICES ASSUME NEW a \in AssetIds
                 PROVE  /\ IsFiniteSet(UnitsOf(balance[a]))
                        /\ Cardinality(UnitsOf(balance[a])) = issuance[a]
      BY DEF Backed
    <2>1. UnitsOf(balance[a]) = {}
      BY <1>2 DEF UnitsOf
    <2> QED
      BY <1>2, <2>1, FS_EmptySet
  <1> QED
    BY <1>7, <1>8, <1>9, <1>10, <1>11, <1>12, <1>13, <1>14, <1>15 DEF IInv

-----------------------------------------------------------------------------
(* Each step keeps the invariant.                                          *)

\* An extrinsic raises its signer's nonce within the cap.
LEMMA NonceFacts ==
    ASSUME Types, NEW u \in Users, nonce[u] < MaxNonce
    PROVE  /\ nonce[u] \in Nat /\ nonce[u] + 1 \in 1 .. MaxNonce
           /\ SpendNonce(u) => /\ nonce' \in [Users -> 0 .. MaxNonce]
                               /\ \A v \in Users : nonce[v] <= nonce'[v]
  <1>1. nonce \in [Users -> 0 .. MaxNonce] /\ MaxNonce \in Nat
    BY CapAssumption DEF Types
  <1>2. nonce[u] \in Nat /\ nonce[u] + 1 \in 1 .. MaxNonce
    BY <1>1
  <1>3. ASSUME SpendNonce(u)
        PROVE  /\ nonce' \in [Users -> 0 .. MaxNonce]
               /\ \A v \in Users : nonce[v] <= nonce'[v]
    <2>1. nonce' = [nonce EXCEPT ![u] = nonce[u] + 1]
      BY <1>3 DEF SpendNonce, NonceInCall
    <2> QED
      BY <1>1, <1>2, <2>1
  <1> QED
    BY <1>2, <1>3

\* Nothing but types and totals is at stake where neither an owner nor a pool changes.
LEMMA RestKeeps ==
    ASSUME IInv, Types', Backed', \A u \in Users : nonce[u] <= nonce'[u],
           UNCHANGED <<st, assetOwner, registered, sources, properties>>
    PROVE  IInv'
  <1>1. Sound(st)'
    BY DEF IInv
  <1>2. Ids'
    <2> SUFFICES ASSUME NEW u \in Users, NEW n \in 1 .. MaxNonce, AssetExists(<<u, n>>)
                 PROVE  assetOwner[<<u, n>>] = u /\ n <= nonce'[u]
      BY DEF Ids, AssetExists
    <2>1. assetOwner[<<u, n>>] = u /\ n <= nonce[u]
      BY DEF IInv, Ids
    <2>2. n \in Nat /\ nonce[u] \in Int /\ nonce'[u] \in Int /\ nonce[u] <= nonce'[u]
      BY DEF IInv, Types
    <2> QED
      BY <2>1, <2>2
  <1>3. Owners' /\ Minters'
    BY DEF IInv, Owners, Minters, AssetExists
  <1>4. Pools' /\ Listed' /\ Named'
    BY DEF IInv, Pools, Listed, Named, AssetExists
  <1> QED
    BY <1>1, <1>2, <1>3, <1>4 DEF IInv

\* An account has no more of an asset than its issuance, and adding to or taking from
\* one balance and the issuance keeps the total.
LEMMA BalanceFacts ==
    ASSUME IInv, NEW a \in AssetIds, NEW u \in Users
    PROVE  /\ balance[a] \in [Users -> Nat] /\ balance[a][u] \in Nat
           /\ issuance[a] \in Nat /\ balance[a][u] <= issuance[a]
  <1> DEFINE g == [balance[a] EXCEPT ![u] = 0]
             n == balance[a][u]
  <1>1. balance[a] \in [Users -> Nat] /\ n \in Nat /\ issuance[a] \in Nat
    BY DEF IInv, Types
  <1>2. IsFiniteSet(UnitsOf(balance[a])) /\ Cardinality(UnitsOf(balance[a])) = issuance[a]
    BY DEF IInv, Backed
  <1>3. /\ g \in [Users -> Nat] /\ n <= balance[a][u]
        /\ g[u] = balance[a][u] - n /\ \A v \in Users \ {u} : g[v] = balance[a][v]
    BY <1>1
  <1> HIDE DEF g, n
  <1>4. /\ Cardinality(UnitsOf(balance[a])) = Cardinality(UnitsOf(g)) + n
        /\ Cardinality(UnitsOf(g)) \in Nat
    BY <1>1, <1>2, <1>3, RemoveUnits
  <1>5. n <= issuance[a]
    BY <1>1, <1>2, <1>4
  <1> QED
    BY <1>1, <1>5 DEF n

\* A transfer keeps the invariant: what one user loses the other gains.
LEMMA TransferKeeps ==
    ASSUME IInv, NEW u \in Users, NEW v \in Users, NEW a \in AssetIds, NEW amount \in Nat,
           TransferAsset(u, v, a, amount)
    PROVE  IInv'
  <1> DEFINE f == balance[a]
             less == f[u] - amount
             more == f[v] + amount
             mid == [f EXCEPT ![u] = less]
             g == [mid EXCEPT ![v] = more]
  <1>1. /\ Types /\ Backed
        /\ nonce[u] < MaxNonce /\ SpendNonce(u) /\ u # v /\ f[u] >= amount
        /\ balance' = [balance EXCEPT ![a] = g]
        /\ UNCHANGED <<st, assetOwner, mintable, issuance, poolVars>>
    <2>1. balance' = [balance EXCEPT ![a][u] = @ - amount, ![a][v] = @ + amount]
      BY DEF TransferAsset
    <2>2. balance' = [balance EXCEPT ![a] = g]
      BY <2>1 DEF TransferAsset, IInv, Types
    <2> QED
      BY <2>2 DEF TransferAsset, Signs, IInv
  <1>2. f \in [Users -> Nat] /\ f[u] \in Nat /\ f[v] \in Nat /\ less \in Nat /\ more \in Nat
    BY <1>1, BalanceFacts
  <1>3. /\ mid \in [Users -> Nat] /\ mid[u] = f[u] - amount /\ amount <= f[u]
        /\ \A w \in Users \ {u} : mid[w] = f[w]
    BY <1>1, <1>2
  <1>4. /\ g \in [Users -> Nat] /\ g[v] = mid[v] + amount
        /\ \A w \in Users \ {v} : g[w] = mid[w]
    BY <1>1, <1>2, <1>3
  <1>5. IsFiniteSet(UnitsOf(f)) /\ Cardinality(UnitsOf(f)) = issuance[a]
    BY <1>1 DEF Backed
  <1> HIDE DEF f, g, mid, less, more
  <1>6. /\ IsFiniteSet(UnitsOf(mid))
        /\ Cardinality(UnitsOf(f)) = Cardinality(UnitsOf(mid)) + amount
    BY <1>2, <1>3, <1>5, RemoveUnits
  <1>7. IsFiniteSet(UnitsOf(g)) /\ Cardinality(UnitsOf(g)) = issuance[a]
    BY <1>3, <1>4, <1>5, <1>6, AddUnits
  <1>8. /\ nonce' \in [Users -> 0 .. MaxNonce]
        /\ \A w \in Users : nonce[w] <= nonce'[w]
    BY <1>1, NonceFacts
  <1>9. Types'
    BY <1>1, <1>4, <1>8 DEF Types, poolVars
  <1>10. Backed'
    BY <1>1, <1>7 DEF Backed, Types
  <1> QED
    BY <1>1, <1>8, <1>9, <1>10, RestKeeps DEF poolVars

\* Minting keeps the invariant.
LEMMA MintKeeps ==
    ASSUME IInv, NEW u \in Users, NEW v \in Users, NEW a \in AssetIds, NEW amount \in Nat,
           MintAsset(u, v, a, amount)
    PROVE  IInv'
  <1> DEFINE f == balance[a]
             more == f[v] + amount
             g == [f EXCEPT ![v] = more]
             total == issuance[a] + amount
  <1>1. /\ Types /\ Backed
        /\ nonce[u] < MaxNonce /\ SpendNonce(u)
        /\ balance' = [balance EXCEPT ![a] = g]
        /\ issuance' = [issuance EXCEPT ![a] = total]
        /\ UNCHANGED <<st, assetOwner, mintable, poolVars>>
    BY DEF MintAsset, Signs, IInv, Types
  <1>2. f \in [Users -> Nat] /\ f[v] \in Nat /\ more \in Nat /\ total \in Nat
    BY BalanceFacts
  <1>3. /\ g \in [Users -> Nat] /\ g[v] = f[v] + amount
        /\ \A w \in Users \ {v} : g[w] = f[w]
    BY <1>2
  <1>4. IsFiniteSet(UnitsOf(f)) /\ Cardinality(UnitsOf(f)) = issuance[a]
    BY <1>1 DEF Backed
  <1> HIDE DEF f, g, more
  <1>5. IsFiniteSet(UnitsOf(g)) /\ Cardinality(UnitsOf(g)) = total
    BY <1>2, <1>3, <1>4, AddUnits
  <1> HIDE DEF total
  <1>6. /\ nonce' \in [Users -> 0 .. MaxNonce]
        /\ \A w \in Users : nonce[w] <= nonce'[w]
    BY <1>1, NonceFacts
  <1>7. Types'
    BY <1>1, <1>2, <1>3, <1>6 DEF Types, poolVars
  <1>8. Backed'
    BY <1>1, <1>5 DEF Backed, Types
  <1> QED
    BY <1>1, <1>6, <1>7, <1>8, RestKeeps DEF poolVars

\* Burning keeps the invariant: no more is burned than the signer has.
LEMMA BurnKeeps ==
    ASSUME IInv, NEW u \in Users, NEW a \in AssetIds, NEW amount \in Nat,
           BurnAsset(u, a, amount)
    PROVE  IInv'
  <1> DEFINE f == balance[a]
             less == f[u] - amount
             g == [f EXCEPT ![u] = less]
             total == issuance[a] - amount
  <1>1. /\ Types /\ Backed
        /\ nonce[u] < MaxNonce /\ SpendNonce(u) /\ f[u] >= amount
        /\ balance' = [balance EXCEPT ![a] = g]
        /\ issuance' = [issuance EXCEPT ![a] = total]
        /\ UNCHANGED <<st, assetOwner, mintable, poolVars>>
    BY DEF BurnAsset, CanBurn, Signs, IInv, Types
  <1>2. /\ f \in [Users -> Nat] /\ f[u] \in Nat /\ less \in Nat /\ total \in Nat
        /\ issuance[a] \in Nat
    BY <1>1, BalanceFacts
  <1>3. /\ g \in [Users -> Nat] /\ g[u] = f[u] - amount /\ amount <= f[u]
        /\ \A w \in Users \ {u} : g[w] = f[w]
    BY <1>1, <1>2
  <1>4. IsFiniteSet(UnitsOf(f)) /\ Cardinality(UnitsOf(f)) = issuance[a]
    BY <1>1 DEF Backed
  <1> HIDE DEF f, g, less
  <1>5. /\ IsFiniteSet(UnitsOf(g))
        /\ Cardinality(UnitsOf(f)) = Cardinality(UnitsOf(g)) + amount
        /\ Cardinality(UnitsOf(g)) \in Nat
    BY <1>2, <1>3, <1>4, RemoveUnits
  <1>6. Cardinality(UnitsOf(g)) = total
    BY <1>2, <1>4, <1>5
  <1> HIDE DEF total
  <1>7. /\ nonce' \in [Users -> 0 .. MaxNonce]
        /\ \A w \in Users : nonce[w] <= nonce'[w]
    BY <1>1, NonceFacts
  <1>8. Types'
    BY <1>1, <1>2, <1>3, <1>7 DEF Types, poolVars
  <1>9. Backed'
    BY <1>1, <1>5, <1>6 DEF Backed, Types
  <1> QED
    BY <1>1, <1>7, <1>8, <1>9, RestKeeps DEF poolVars

\* set_non_mintable and every other call keep the invariant.
LEMMA PlainCallsKeep ==
    ASSUME IInv, NEW u \in Users,
           OtherCall(u) \/ \E a \in AssetIds : SetNonMintable(u, a)
    PROVE  IInv'
  <1>1. /\ Types /\ nonce[u] < MaxNonce /\ SpendNonce(u)
        /\ mintable' \in [AssetIds -> BOOLEAN]
        /\ UNCHANGED <<st, assetOwner, balance, issuance, registered, sources, properties>>
    BY DEF OtherCall, SetNonMintable, Signs, IInv, Types, assetVars, poolVars
  <1>2. /\ nonce' \in [Users -> 0 .. MaxNonce]
        /\ \A w \in Users : nonce[w] <= nonce'[w]
    BY <1>1, NonceFacts
  <1>3. Types'
    BY <1>1, <1>2 DEF Types
  <1>4. Backed'
    BY <1>1 DEF Backed, IInv
  <1> QED
    BY <1>1, <1>2, <1>3, <1>4, RestKeeps

\* Listing a pair keeps the invariant: a pair that was not listed has no pool.
LEMMA RegisterPairKeeps ==
    ASSUME IInv, NEW u \in Users, NEW d \in Dexes, NEW t \in Targets,
           RegisterPair(u, d, t)
    PROVE  IInv'
  <1>1. /\ Types /\ nonce[u] < MaxNonce /\ SpendNonce(u)
        /\ AssetExists(t) /\ sources[d][t] = NoPair
        /\ sources' = [sources EXCEPT ![d][t] = {}]
        /\ UNCHANGED <<st, assetOwner, mintable, balance, issuance, registered, properties>>
    BY DEF RegisterPair, Signs, IInv, assetVars
  <1>2. /\ nonce' \in [Users -> 0 .. MaxNonce]
        /\ \A w \in Users : nonce[w] <= nonce'[w]
    BY <1>1, NonceFacts
  <1>3. /\ sources' \in [Dexes -> [Targets -> {NoPair, {}, {XYKPool}}]]
        /\ sources'[d][t] = {}
        /\ \A e \in Dexes, x \in Targets :
              e # d \/ x # t => sources'[e][x] = sources[e][x]
    BY <1>1 DEF Types
  <1>4. Types'
    BY <1>1, <1>2, <1>3 DEF Types
  <1>5. Sound(st)' /\ Owners' /\ Minters' /\ Backed' /\ Named'
    BY <1>1 DEF IInv, Owners, Minters, Backed, Named, AssetExists
  <1>6. Ids'
    <2> SUFFICES ASSUME NEW v \in Users, NEW n \in 1 .. MaxNonce, AssetExists(<<v, n>>)
                 PROVE  assetOwner[<<v, n>>] = v /\ n <= nonce'[v]
      BY <1>1 DEF Ids, AssetExists
    <2>1. assetOwner[<<v, n>>] = v /\ n <= nonce[v]
      BY DEF IInv, Ids
    <2>2. n \in Nat /\ nonce[v] \in Int /\ nonce'[v] \in Int /\ nonce[v] <= nonce'[v]
      BY <1>1, <1>2 DEF Types
    <2> QED
      BY <2>1, <2>2
  <1>7. Pools'
    <2> SUFFICES ASSUME NEW e \in Dexes, NEW x \in Targets
                 PROVE  sources'[e][x] = {XYKPool} <=> sources[e][x] = {XYKPool}
      BY <1>1 DEF IInv, Pools, AssetExists
    <2>1. {} # {XYKPool} /\ NoPair # {XYKPool}
      BY SourceAssumption
    <2> QED
      BY <1>1, <1>3, <2>1
  <1>8. Listed'
    <2> SUFFICES ASSUME NEW e \in Dexes, NEW x \in Targets, sources'[e][x] # NoPair
                 PROVE  AssetExists(x)
      BY <1>1 DEF Listed, AssetExists
    <2> QED
      BY <1>1, <1>3 DEF IInv, Listed
  <1> QED
    BY <1>4, <1>5, <1>6, <1>7, <1>8 DEF IInv

\* Where only providers and nonces change, the ids and the references are at stake.
LEMMA StorageKeeps ==
    ASSUME IInv, Sound(st'), st'.held = st.held,
           \A o \in Account, a \in P!Scopes : Roles(st, o, a) => Roles(st', o, a),
           nonce' \in [Users -> 0 .. MaxNonce], Ids', UNCHANGED <<assetVars, poolVars>>
    PROVE  IInv'
  <1>1. /\ UNCHANGED <<assetOwner, mintable, balance, issuance>>
        /\ UNCHANGED <<registered, sources, properties>>
    BY DEF assetVars, poolVars
  <1>2. Types' /\ Backed' /\ Named' /\ Listed'
    BY <1>1 DEF IInv, Types, Backed, Named, Listed, AssetExists
  <1>3. Minters' /\ Pools'
    BY <1>1 DEF IInv, Minters, Pools, AssetExists
  <1>4. Owners'
    <2> SUFFICES ASSUME NEW a \in AssetIds, AssetExists(a)
                 PROVE  Roles(st', assetOwner[a], a)
      BY <1>1 DEF Owners, AssetExists
    <2>1. Roles(st, assetOwner[a], a)
      BY DEF IInv, Owners
    <2>2. assetOwner[a] \in Account /\ a \in P!Scopes
      BY IdFacts DEF IInv, Types, AssetExists
    <2> QED
      BY <2>1, <2>2
  <1>5. Sound(st)'
    OBVIOUS
  <1> QED
    BY <1>2, <1>3, <1>4, <1>5 DEF IInv

\* A provider more keeps the invariant.
LEMMA AddProviderKeeps ==
    ASSUME IInv, NEW u \in Users, AddProvider(u)
    PROVE  IInv'
  <1>1. /\ Sound(st) /\ u \in Account /\ st' = P!IncProviders(st, u)
        /\ nonce' = nonce /\ UNCHANGED <<assetVars, poolVars>>
    BY IdFacts DEF AddProvider, IInv
  <1>2. /\ Sound(st') /\ st'.held = st.held
        /\ \A o \in Account, a \in P!Scopes : Roles(st, o, a) => Roles(st', o, a)
    BY <1>1, IncProvidersKeep
  <1>3. nonce' \in [Users -> 0 .. MaxNonce] /\ Ids'
    BY <1>1 DEF IInv, Types, Ids, AssetExists, assetVars
  <1> QED
    BY <1>1, <1>2, <1>3, StorageKeeps

\* A provider fewer keeps the invariant: an account that is reaped, and whose nonce
\* starts again, owns nothing.
LEMMA RemoveProviderKeeps ==
    ASSUME IInv, NEW u \in Users, RemoveProvider(u)
    PROVE  IInv'
  <1>1. /\ Sound(st) /\ Types /\ u \in Account
        /\ P!CanDecProviders(st, u) /\ st' = P!DecProviders(st, u)
        /\ nonce' = IF st.providers[u] = 1 THEN [nonce EXCEPT ![u] = 0] ELSE nonce
        /\ UNCHANGED <<assetVars, poolVars>> /\ assetOwner' = assetOwner
    BY IdFacts DEF RemoveProvider, IInv, assetVars
  <1>2. /\ Sound(st') /\ st'.held = st.held
        /\ \A o \in Account, a \in P!Scopes : Roles(st, o, a) => Roles(st', o, a)
    BY <1>1, DecProvidersKeep
  <1>3. nonce' \in [Users -> 0 .. MaxNonce]
    BY <1>1, CapAssumption DEF Types
  <1>4. Ids'
    <2> SUFFICES ASSUME NEW v \in Users, NEW n \in 1 .. MaxNonce, AssetExists(<<v, n>>)
                 PROVE  assetOwner[<<v, n>>] = v /\ n <= nonce'[v]
      BY <1>1 DEF Ids, AssetExists
    <2>1. assetOwner[<<v, n>>] = v /\ n <= nonce[v]
      BY DEF IInv, Ids
    <2>2. st.consumers[v] > 0
      BY <2>1, IdFacts DEF IInv, Owners, Roles
    <2>3. st.consumers[u] \in Nat /\ st.providers[u] \in Nat
      BY <1>1, FieldFacts DEF Sound
    <2>4. st.providers[u] = 1 => v # u
      BY <1>1, <2>2, <2>3 DEF P!CanDecProviders
    <2>5. nonce'[v] = nonce[v]
      BY <1>1, <2>4 DEF Types
    <2> QED
      BY <2>1, <2>5
  <1> QED
    BY <1>1, <1>2, <1>3, <1>4, StorageKeeps

\* A new asset, whatever its id, gets an owner and his roles, and nothing is lost.
LEMMA NewAsset ==
    ASSUME IInv, NEW u \in Users, NEW a \in AssetIds, NEW supply \in Nat,
           NEW isMintable \in BOOLEAN,
           nonce[u] + 1 < MaxNonce, ~ AssetExists(a),
           a \in Markers \/ a = <<u, nonce[u] + 1>>,
           WriteAsset(u, a, supply, isMintable),
           Roles(st', u, a),
           \A o \in Account, b \in P!Scopes : Roles(st, o, b) => Roles(st', o, b)
    PROVE  /\ nonce' \in [Users -> 0 .. MaxNonce]
           /\ assetOwner' \in [AssetIds -> Users \cup {NoOwner}]
           /\ mintable' \in [AssetIds -> BOOLEAN]
           /\ balance' \in [AssetIds -> [Users -> Nat]]
           /\ issuance' \in [AssetIds -> Nat]
           /\ Ids' /\ Owners' /\ Backed'
           /\ AssetExists(a)' /\ assetOwner'[a] = u
           /\ \A b \in AssetIds \ {a} : /\ AssetExists(b)' <=> AssetExists(b)
                                        /\ assetOwner'[b] = assetOwner[b]
  <1> DEFINE f == balance[a]
             more == f[u] + supply
             g == [f EXCEPT ![u] = more]
             total == issuance[a] + supply
             next == nonce[u] + 2
  <1>1. /\ assetOwner' = [assetOwner EXCEPT ![a] = u]
        /\ mintable' = [mintable EXCEPT ![a] = isMintable]
        /\ balance' = [balance EXCEPT ![a] = g]
        /\ issuance' = [issuance EXCEPT ![a] = total]
        /\ nonce' = [nonce EXCEPT ![u] = nonce[u] + 1 + 1]
    BY DEF WriteAsset, NonceInCall, IInv, Types
  <1>2. /\ f \in [Users -> Nat] /\ f[u] \in Nat /\ more \in Nat /\ total \in Nat
        /\ Types /\ nonce[u] \in Nat /\ MaxNonce \in Nat
    BY BalanceFacts, CapAssumption DEF IInv, Types
  <1>3. /\ nonce' \in [Users -> 0 .. MaxNonce]
        /\ nonce'[u] = nonce[u] + 2 /\ \A v \in Users \ {u} : nonce'[v] = nonce[v]
    BY <1>1, <1>2 DEF Types
  <1>4. /\ g \in [Users -> Nat] /\ g[u] = f[u] + supply
        /\ \A w \in Users \ {u} : g[w] = f[w]
    BY <1>2
  <1>5. IsFiniteSet(UnitsOf(f)) /\ Cardinality(UnitsOf(f)) = issuance[a]
    BY DEF IInv, Backed
  <1> HIDE DEF f, g, more
  <1>6. IsFiniteSet(UnitsOf(g)) /\ Cardinality(UnitsOf(g)) = total
    BY <1>2, <1>4, <1>5, AddUnits
  <1> HIDE DEF total
  <1>7. Backed'
    BY <1>1, <1>2, <1>6 DEF Backed, IInv, Types
  <1>8. /\ assetOwner' \in [AssetIds -> Users \cup {NoOwner}]
        /\ assetOwner'[a] = u /\ \A b \in AssetIds \ {a} : assetOwner'[b] = assetOwner[b]
    BY <1>1, <1>2 DEF Types
  <1>9. /\ mintable' \in [AssetIds -> BOOLEAN]
        /\ balance' \in [AssetIds -> [Users -> Nat]]
        /\ issuance' \in [AssetIds -> Nat]
    BY <1>1, <1>2, <1>4 DEF Types
  <1>10. /\ AssetExists(a)'
         /\ \A b \in AssetIds \ {a} : AssetExists(b)' <=> AssetExists(b)
    BY <1>8, OwnerAssumption DEF AssetExists, Account
  <1>11. Ids'
    <2> SUFFICES ASSUME NEW v \in Users, NEW n \in 1 .. MaxNonce, AssetExists(<<v, n>>)'
                 PROVE  assetOwner'[<<v, n>>] = v /\ n <= nonce'[v]
      BY DEF Ids
    <2>1. <<v, n>> \in AssetIds /\ <<v, n>> \notin Markers
      BY IdFacts
    <2>2. CASE <<v, n>> = a
      <3>1. <<v, n>> = <<u, nonce[u] + 1>>
        BY <2>1, <2>2
      <3>2. v = u /\ n = nonce[u] + 1
        BY <3>1
      <3> QED
        BY <1>2, <1>3, <1>8, <2>2, <3>2
    <2>3. CASE <<v, n>> # a
      <3>1. AssetExists(<<v, n>>) /\ assetOwner'[<<v, n>>] = assetOwner[<<v, n>>]
        BY <1>8, <1>10, <2>1, <2>3
      <3>2. assetOwner[<<v, n>>] = v /\ n <= nonce[v]
        BY <3>1 DEF IInv, Ids
      <3>3. n \in Nat /\ nonce[v] \in Nat
        BY <1>2 DEF Types
      <3> QED
        BY <1>2, <1>3, <3>1, <3>2, <3>3
    <2> QED
      BY <2>2, <2>3
  <1>12. Owners'
    <2> SUFFICES ASSUME NEW b \in AssetIds, AssetExists(b)'
                 PROVE  Roles(st', assetOwner'[b], b)
      BY DEF Owners
    <2>1. CASE b = a
      BY <1>8, <2>1
    <2>2. CASE b # a
      <3>1. AssetExists(b) /\ assetOwner'[b] = assetOwner[b]
        BY <1>8, <1>10, <2>2
      <3>2. Roles(st, assetOwner[b], b)
        BY <3>1 DEF IInv, Owners
      <3>3. assetOwner[b] \in Account /\ b \in P!Scopes
        BY <1>2, <3>1, IdFacts DEF Types, AssetExists
      <3> QED
        BY <3>1, <3>2, <3>3
    <2> QED
      BY <2>1, <2>2
  <1> QED
    BY <1>3, <1>7, <1>8, <1>9, <1>10, <1>11, <1>12

\* Registering an asset keeps the invariant.
LEMMA RegisterAssetKeeps ==
    ASSUME IInv, NEW u \in Users, NEW supply \in Nat, NEW isMintable \in BOOLEAN,
           RegisterAsset(u, supply, isMintable)
    PROVE  IInv'
  <1>0. PICK a : a = <<u, nonce[u] + 1>>
    OBVIOUS
  <1>1. /\ nonce[u] + 1 < MaxNonce /\ ~ AssetExists(a)
        /\ RegisterRoles(st, u, a).ok /\ st' = RegisterRoles(st, u, a).st
        /\ WriteAsset(u, a, supply, isMintable)
        /\ UNCHANGED <<registered, sources, properties>>
    BY <1>0 DEF RegisterAsset, NonceInCall, GenAssetId, poolVars
  <1>2. Sound(st) /\ Types /\ Minters /\ Pools /\ Listed /\ Named
    BY DEF IInv
  <1>3. nonce[u] + 1 \in 1 .. MaxNonce
    BY <1>1, <1>2, CapAssumption DEF Types
  <1>4. /\ a \in AssetIds /\ a \in P!Scopes /\ a \notin Markers /\ u \in Account
        /\ a \in Targets
    BY <1>0, <1>3, IdFacts
  <1>6. PC!Adds(st, st', AssetEntries(u, a)) /\ Roles(st', u, a)
    BY <1>1, <1>2, <1>4, RegisterRolesAdds
  <1>7. /\ Sound(st')
        /\ st.held \subseteq st'.held /\ st'.held \subseteq st.held \cup AssetEntries(u, a)
        /\ \A o \in Account, b \in P!Scopes : Roles(st, o, b) => Roles(st', o, b)
    BY <1>2, <1>6, AddsKeep
  <1>8. /\ nonce' \in [Users -> 0 .. MaxNonce]
        /\ assetOwner' \in [AssetIds -> Users \cup {NoOwner}]
        /\ mintable' \in [AssetIds -> BOOLEAN]
        /\ balance' \in [AssetIds -> [Users -> Nat]]
        /\ issuance' \in [AssetIds -> Nat]
        /\ Ids' /\ Owners' /\ Backed'
        /\ AssetExists(a)' /\ assetOwner'[a] = u
        /\ \A b \in AssetIds \ {a} : /\ AssetExists(b)' <=> AssetExists(b)
                                     /\ assetOwner'[b] = assetOwner[b]
    <2>1. /\ nonce[u] + 1 < MaxNonce /\ ~ AssetExists(a)
          /\ a \in Markers \/ a = <<u, nonce[u] + 1>>
          /\ WriteAsset(u, a, supply, isMintable)
          /\ Roles(st', u, a)
          /\ \A o \in Account, b \in P!Scopes : Roles(st, o, b) => Roles(st', o, b)
      BY <1>0, <1>1, <1>6, <1>7
    <2> QED
      BY <1>4, <2>1, NewAsset
  <1>9. Types'
    BY <1>1, <1>2, <1>8 DEF Types
  <1>10. \A b \in AssetIds : AssetExists(b) => /\ AssetExists(b)'
                                              /\ assetOwner'[b] = assetOwner[b]
    BY <1>1, <1>8
  <1>11. Minters'
    <2> SUFFICES ASSUME NEW who \in Account, NEW b \in P!Scopes, <<who, b, MINT>> \in st'.held
                 PROVE  /\ b \in AssetIds /\ AssetExists(b)'
                        /\ \/ who = assetOwner'[b]
                           \/ \E d \in Dexes, t \in Targets :
                                 b = Marker(d, t) /\ who = PoolAccount(d, t)
      BY DEF Minters
    <2>1. CASE <<who, b, MINT>> \in st.held
      BY <1>2, <1>10, <2>1 DEF Minters
    <2>2. CASE <<who, b, MINT>> \in AssetEntries(u, a)
      <3>1. who = u /\ b = a
        BY <2>2 DEF AssetEntries
      <3> QED
        BY <1>4, <1>8, <3>1 DEF AssetExists
    <2> QED
      BY <1>7, <2>1, <2>2
  <1>12. Pools'
    <2> SUFFICES ASSUME NEW d \in Dexes, NEW t \in Targets
                 PROVE  AssetExists(Marker(d, t))' <=> AssetExists(Marker(d, t))
      BY <1>1, <1>2, <1>7 DEF Pools
    <2>1. Marker(d, t) \in AssetIds /\ Marker(d, t) # a
      BY <1>4, PoolFacts DEF Markers
    <2> QED
      BY <1>8, <2>1
  <1>13. Listed'
    <2> SUFFICES ASSUME NEW d \in Dexes, NEW t \in Targets, sources[d][t] # NoPair
                 PROVE  AssetExists(t)'
      BY <1>1 DEF Listed
    <2>1. AssetExists(t) /\ t \in AssetIds
      BY <1>2, IdFacts DEF Listed
    <2> QED
      BY <1>10, <2>1
  <1>14. Named'
    BY <1>1, <1>2 DEF Named
  <1>15. Sound(st)'
    BY <1>7
  <1> QED
    BY <1>8, <1>9, <1>11, <1>12, <1>13, <1>14, <1>15 DEF IInv

\* Initialising a pool keeps the invariant.
LEMMA InitializePoolKeeps ==
    ASSUME IInv, NEW u \in Users, NEW d \in Dexes, NEW t \in Targets,
           InitializePool(u, d, t)
    PROVE  IInv'
  <1> DEFINE m == Marker(d, t)
             pool == PoolAccount(d, t)
             fees == FeesAccount(d, t)
  <1>1. /\ nonce[u] + 1 < MaxNonce /\ ~ AssetExists(m) /\ pool \notin registered
        /\ InitializeRoles(st, u, d, t).ok /\ st' = InitializeRoles(st, u, d, t).st
        /\ sources[d][t] # NoPair
        /\ WriteAsset(u, m, 0, TRUE)
        /\ registered' = registered \cup {pool, fees}
        /\ sources' = [sources EXCEPT ![d][t] = sources[d][t] \cup {XYKPool}]
        /\ properties' = [properties EXCEPT ![t] = d]
    BY DEF InitializePool, NonceInCall, PropertiesOf, IsTradingPairEnabled, IInv, Types
  <1>2. Sound(st) /\ Types /\ Minters /\ Pools /\ Listed /\ Named
    BY DEF IInv
  <1>3. /\ m \in AssetIds /\ m \in P!Scopes /\ m \in Markers /\ u \in Account
        /\ pool \in TechAccounts /\ fees \in TechAccounts /\ pool \in Account
    BY PoolFacts, IdFacts DEF Markers
  <1>4. /\ Sound(st')
        /\ st.held \subseteq st'.held /\ st'.held \subseteq st.held \cup InitEntries(u, d, t)
        /\ Roles(st', u, m)
        /\ \A p \in {MINT, BURN} : <<pool, m, p>> \in st'.held
        /\ \A o \in Account, b \in P!Scopes : Roles(st, o, b) => Roles(st', o, b)
    BY <1>1, <1>2, InitializeRolesKeep
  <1>5. /\ nonce' \in [Users -> 0 .. MaxNonce]
        /\ assetOwner' \in [AssetIds -> Users \cup {NoOwner}]
        /\ mintable' \in [AssetIds -> BOOLEAN]
        /\ balance' \in [AssetIds -> [Users -> Nat]]
        /\ issuance' \in [AssetIds -> Nat]
        /\ Ids' /\ Owners' /\ Backed'
        /\ AssetExists(m)' /\ assetOwner'[m] = u
        /\ \A b \in AssetIds \ {m} : /\ AssetExists(b)' <=> AssetExists(b)
                                     /\ assetOwner'[b] = assetOwner[b]
    <2> HIDE DEF m, pool, fees
    <2>1. 0 \in Nat /\ TRUE \in BOOLEAN
      OBVIOUS
    <2> QED
      BY <1>1, <1>3, <1>4, <2>1, NewAsset
  <1>6. \A b \in AssetIds : AssetExists(b) => /\ AssetExists(b)'
                                             /\ assetOwner'[b] = assetOwner[b]
    <2> HIDE DEF m
    <2> QED
      BY <1>1, <1>5
  <1>7. /\ sources'[d][t] = {XYKPool}
        /\ \A e \in Dexes, x \in Targets :
              e # d \/ x # t => sources'[e][x] = sources[e][x]
        /\ sources' \in [Dexes -> [Targets -> {NoPair, {}, {XYKPool}}]]
    <2>1. sources[d][t] \cup {XYKPool} = {XYKPool}
      BY <1>1, <1>2 DEF Types
    <2>2. sources' = [sources EXCEPT ![d][t] = {XYKPool}]
      BY <1>1, <2>1
    <2> QED
      BY <1>2, <2>2 DEF Types
  <1>8. /\ properties' \in [Targets -> Dexes \cup {NoPool}]
        /\ properties'[t] = d
        /\ \A x \in Targets \ {t} : properties'[x] = properties[x]
    BY <1>1, <1>2 DEF Types
  <1>9. Types'
    <2> HIDE DEF m, pool, fees
    <2> QED
      BY <1>1, <1>2, <1>3, <1>5, <1>7, <1>8 DEF Types
  <1>10. Minters'
    <2> SUFFICES ASSUME NEW who \in Account, NEW b \in P!Scopes, <<who, b, MINT>> \in st'.held
                 PROVE  /\ b \in AssetIds /\ AssetExists(b)'
                        /\ \/ who = assetOwner'[b]
                           \/ \E e \in Dexes, x \in Targets :
                                 b = Marker(e, x) /\ who = PoolAccount(e, x)
      BY DEF Minters
    <2>1. CASE <<who, b, MINT>> \in st.held
      BY <1>2, <1>6, <2>1 DEF Minters
    <2>2. CASE <<who, b, MINT>> \in InitEntries(u, d, t)
      <3>1. (who = u \/ who = pool) /\ b = m
        BY <2>2 DEF InitEntries, AssetEntries
      <3> QED
        BY <1>3, <1>5, <3>1
    <2> QED
      BY <1>4, <2>1, <2>2
  <1>11. ASSUME NEW e \in Dexes, NEW x \in Targets, e # d \/ x # t
         PROVE  /\ PoolAccount(e, x) \in registered' <=> PoolAccount(e, x) \in registered
                /\ FeesAccount(e, x) \in registered' <=> FeesAccount(e, x) \in registered
                /\ AssetExists(Marker(e, x))' <=> AssetExists(Marker(e, x))
    <2>1. /\ PoolAccount(e, x) # pool /\ PoolAccount(e, x) # fees
          /\ FeesAccount(e, x) # pool /\ FeesAccount(e, x) # fees
          /\ Marker(e, x) # m /\ Marker(e, x) \in AssetIds
      BY <1>11, PoolsDiffer, PoolFacts
    <2> HIDE DEF m, pool, fees
    <2> QED
      BY <1>1, <1>5, <2>1
  <1>12. Pools'
    <2> SUFFICES ASSUME NEW e \in Dexes, NEW x \in Targets
                 PROVE  LET isPool == PoolAccount(e, x) \in registered'
                        IN  /\ isPool <=> FeesAccount(e, x) \in registered'
                            /\ isPool <=> AssetExists(Marker(e, x))'
                            /\ isPool <=> sources'[e][x] = {XYKPool}
                            /\ isPool => \A p \in {MINT, BURN} :
                                   <<PoolAccount(e, x), Marker(e, x), p>> \in st'.held
      BY DEF Pools
    <2>1. CASE e = d /\ x = t
      BY <1>1, <1>4, <1>5, <1>7, <2>1
    <2>2. CASE e # d \/ x # t
      <3>1. /\ PoolAccount(e, x) \in registered <=> FeesAccount(e, x) \in registered
            /\ PoolAccount(e, x) \in registered <=> AssetExists(Marker(e, x))
            /\ PoolAccount(e, x) \in registered <=> sources[e][x] = {XYKPool}
            /\ PoolAccount(e, x) \in registered =>
                   \A p \in {MINT, BURN} : <<PoolAccount(e, x), Marker(e, x), p>> \in st.held
        BY <1>2 DEF Pools
      <3> QED
        BY <1>4, <1>7, <1>11, <2>2, <3>1
    <2> QED
      BY <2>1, <2>2
  <1>13. Listed'
    <2> SUFFICES ASSUME NEW e \in Dexes, NEW x \in Targets, sources'[e][x] # NoPair
                 PROVE  AssetExists(x)'
      BY DEF Listed
    <2>1. sources[e][x] # NoPair
      BY <1>1, <1>7
    <2>2. AssetExists(x) /\ x \in AssetIds
      BY <1>2, <2>1, IdFacts DEF Listed
    <2> QED
      BY <1>6, <2>2
  <1>14. Named'
    <2> SUFFICES ASSUME NEW x \in Targets
                 PROVE  /\ (\E e \in Dexes : PoolAccount(e, x) \in registered')
                               <=> properties'[x] # NoPool
                        /\ properties'[x] # NoPool => PoolAccount(properties'[x], x) \in registered'
      BY DEF Named
    <2>1. CASE x = t
      BY <1>1, <1>8, <2>1, SourceAssumption
    <2>2. CASE x # t
      <3>1. \A e \in Dexes : PoolAccount(e, x) \in registered' <=> PoolAccount(e, x) \in registered
        BY <1>11, <2>2
      <3>2. properties'[x] = properties[x] /\ properties[x] \in Dexes \cup {NoPool}
        BY <1>2, <1>8, <2>2 DEF Types
      <3>3. /\ (\E e \in Dexes : PoolAccount(e, x) \in registered) <=> properties[x] # NoPool
            /\ properties[x] # NoPool => PoolAccount(properties[x], x) \in registered
        BY <1>2 DEF Named
      <3> QED
        BY <3>1, <3>2, <3>3
    <2> QED
      BY <2>1, <2>2
  <1>15. Sound(st)'
    BY <1>4
  <1> QED
    BY <1>5, <1>9, <1>10, <1>12, <1>13, <1>14, <1>15 DEF IInv

\* Every step keeps the invariant.
LEMMA StepKeepsIInv ==
    IInv /\ [Next]_vars => IInv'
  <1> SUFFICES ASSUME IInv, [Next]_vars PROVE IInv'
    OBVIOUS
  <1>1. CASE UNCHANGED vars
    <2>1. /\ UNCHANGED <<st, nonce, assetOwner, mintable, balance, issuance>>
          /\ UNCHANGED <<registered, sources, properties>>
      BY <1>1 DEF vars, assetVars, poolVars
    <2>2. Types' /\ Backed'
      BY <2>1 DEF IInv, Types, Backed
    <2>3. \A u \in Users : nonce[u] <= nonce'[u]
      BY <2>1 DEF IInv, Types
    <2> QED
      BY <2>1, <2>2, <2>3, RestKeeps
  <1>2. CASE Next
    <2>1. PICK u \in Users : \/ AssetCall(u) \/ PairCall(u) \/ OtherCall(u)
                             \/ AddProvider(u) \/ RemoveProvider(u)
      BY <1>2 DEF Next
    <2>2. 0 .. MaxSupply \subseteq Nat /\ 1 .. MaxSupply \subseteq Nat
      BY CapAssumption
    <2>3. CASE AssetCall(u)
      <3>1. CASE \E supply \in 0 .. MaxSupply, isMintable \in BOOLEAN :
                    RegisterAsset(u, supply, isMintable)
        BY <2>2, <3>1, RegisterAssetKeeps
      <3>2. CASE \E a \in AssetIds, v \in Users, amount \in 1 .. MaxSupply :
                    \/ TransferAsset(u, v, a, amount)
                    \/ issuance[a] + amount <= MaxSupply /\ MintAsset(u, v, a, amount)
        BY <2>2, <3>2, TransferKeeps, MintKeeps
      <3>3. CASE \E a \in AssetIds : SetNonMintable(u, a)
        BY <3>3, PlainCallsKeep
      <3>4. CASE \E a \in AssetIds, amount \in 1 .. MaxSupply : BurnAsset(u, a, amount)
        BY <2>2, <3>4, BurnKeeps
      <3> QED
        BY <2>3, <3>1, <3>2, <3>3, <3>4 DEF AssetCall
    <2>4. CASE PairCall(u)
      BY <2>4, RegisterPairKeeps, InitializePoolKeeps DEF PairCall
    <2>5. CASE OtherCall(u)
      BY <2>5, PlainCallsKeep
    <2>6. CASE AddProvider(u)
      BY <2>6, AddProviderKeeps
    <2>7. CASE RemoveProvider(u)
      BY <2>7, RemoveProviderKeeps
    <2> QED
      BY <2>1, <2>3, <2>4, <2>5, <2>6, <2>7
  <1> QED
    BY <1>1, <1>2

\* The invariant always holds.
LEMMA Invariance ==
    Spec => []IInv
  <1> QED
    BY InitIInv, StepKeepsIInv, PTL DEF Spec

-----------------------------------------------------------------------------
(* What follows.                                                           *)

\* An asset that exists has a user for its owner.
LEMMA OwnerFacts ==
    ASSUME IInv, NEW a \in AssetIds, AssetExists(a)
    PROVE  /\ assetOwner[a] \in Users /\ assetOwner[a] \in Account
           /\ Roles(st, assetOwner[a], a)
  BY IdFacts DEF IInv, Types, Owners, AssetExists

\* The storage of five pallets always has its types, and an account that is referred
\* to is never reaped.
THEOREM TypesAlwaysHold ==
    Spec => []TypeOK
  <1>1. IInv => TypeOK
    BY DEF IInv, Types, Sound, TypeOK
  <1> QED
    BY <1>1, Invariance, PTL

\* gen_asset_id never makes an id that is taken, however many calls fail and accounts
\* are reaped in between.
THEOREM IdsAreAlwaysFresh ==
    Spec => []IdsAreFresh
  <1>1. IInv => IdsAreFresh
    <2> SUFFICES ASSUME IInv, NEW u \in Users, Signs(u), AssetExists(GenAssetId(u))
                 PROVE  FALSE
      BY DEF IdsAreFresh
    <2>1. nonce[u] \in Nat /\ nonce[u] + 1 \in 1 .. MaxNonce
      BY NonceFacts DEF IInv, Signs
    <2>2. nonce[u] + 1 <= nonce[u]
      BY <2>1 DEF IInv, Ids, GenAssetId, NonceInCall
    <2> QED
      BY <2>1, <2>2
  <1> QED
    BY <1>1, Invariance, PTL

\* register_asset_id is all or nothing: an asset's owner exists and has the three
\* permissions on it.
THEOREM OwnersAlwaysHaveTheirRoles ==
    Spec => []OwnersHaveTheirRoles
  <1>1. IInv => OwnersHaveTheirRoles
    <2> SUFFICES ASSUME IInv, NEW a \in AssetIds, AssetExists(a)
                 PROVE  LET o == assetOwner[a]
                        IN  /\ st.providers[o] > 0
                            /\ \A p \in {TRANSFER, MINT, BURN} : P!Owns(st, o, p, a)
                            /\ \A p \in {MINT, BURN} : P!AccountHasPermission(st, o, a, p)
      BY DEF OwnersHaveTheirRoles
    <2>1. assetOwner[a] \in Account /\ Roles(st, assetOwner[a], a)
      BY OwnerFacts
    <2> QED
      BY <2>1 DEF Roles, IInv, Sound, P!AccountHasPermission
  <1> QED
    BY <1>1, Invariance, PTL

\* Only an asset's owner, and for a marker its pool, ever has what mint_to asks for.
THEOREM MintersAreAlwaysKnown ==
    Spec => []MintersAreKnown
  <1>1. IInv => MintersAreKnown
    <2> SUFFICES ASSUME IInv, NEW a \in AssetIds, NEW who \in Account, MayMint(who, a)
                 PROVE  \/ who = assetOwner[a]
                        \/ \E d \in Dexes, t \in Targets :
                              a = Marker(d, t) /\ who = PoolAccount(d, t)
      BY DEF MintersAreKnown
    <2>1. st.modes[MINT] = Permit
      BY DistinctAssumption DEF IInv, Sound, Permission
    <2>2. a \in P!Scopes /\ Unlimited \in P!Scopes /\ Unlimited \notin AssetIds
      BY DistinctAssumption, IdFacts DEF P!Scopes
    <2>3. <<who, a, MINT>> \in st.held \/ <<who, Unlimited, MINT>> \in st.held
      BY <2>1 DEF MayMint, MayAct, P!CheckPermissionWithScope, P!AccountHasPermission
    <2>4. <<who, Unlimited, MINT>> \notin st.held
      BY <2>2 DEF IInv, Minters
    <2> QED
      BY <2>2, <2>3, <2>4 DEF IInv, Minters
  <1> QED
    BY <1>1, Invariance, PTL

\* initialize_pool is all or nothing, over five pallets.
THEOREM PoolsAreAlwaysComplete ==
    Spec => []PoolsAreComplete
  <1>1. IInv => PoolsAreComplete
    <2> SUFFICES ASSUME IInv, NEW d \in Dexes, NEW t \in Targets
                 PROVE  LET isPool == PoolAccount(d, t) \in registered
                        IN  /\ isPool <=> FeesAccount(d, t) \in registered
                            /\ isPool <=> AssetExists(Marker(d, t))
                            /\ isPool <=> XYKPool \in (IF sources[d][t] = NoPair THEN {}
                                                       ELSE sources[d][t])
                            /\ isPool <=> \A p \in {MINT, BURN} :
                                   P!AccountHasPermission(st, PoolAccount(d, t), Marker(d, t), p)
                            /\ isPool => AssetExists(t)
      BY DEF PoolsAreComplete
    <2>1. /\ PoolAccount(d, t) \in registered <=> FeesAccount(d, t) \in registered
          /\ PoolAccount(d, t) \in registered <=> AssetExists(Marker(d, t))
          /\ PoolAccount(d, t) \in registered <=> sources[d][t] = {XYKPool}
          /\ PoolAccount(d, t) \in registered =>
                 \A p \in {MINT, BURN} : <<PoolAccount(d, t), Marker(d, t), p>> \in st.held
      BY DEF IInv, Pools
    <2>2. /\ sources[d][t] \in {NoPair, {}, {XYKPool}} /\ NoPair # {XYKPool}
      BY SourceAssumption DEF IInv, Types
    <2>3. sources[d][t] = {XYKPool} <=>
              XYKPool \in (IF sources[d][t] = NoPair THEN {} ELSE sources[d][t])
      BY <2>2
    <2>4. <<PoolAccount(d, t), Marker(d, t), MINT>> \in st.held => AssetExists(Marker(d, t))
      BY PoolFacts DEF IInv, Minters
    <2>5. PoolAccount(d, t) \in registered => AssetExists(t)
      BY <2>1, <2>2 DEF IInv, Listed
    <2> QED
      BY <2>1, <2>3, <2>4, <2>5 DEF P!AccountHasPermission
  <1> QED
    BY <1>1, Invariance, PTL

\* A path is offered exactly where its pools are complete.
THEOREM PathsAlwaysHavePools ==
    Spec => []PathsHavePools
  <1>1. IInv => PathsHavePools
    <2> SUFFICES ASSUME IInv, NEW d \in Dexes, NEW input \in PathEnds,
                        NEW output \in PathEnds, input # output
                 PROVE  /\ IsPathAvailable(d, input, output) <=>
                              \A t \in {input, output} \ {XOR} :
                                  /\ PoolAccount(d, t) \in registered
                                  /\ AssetExists(Marker(d, t))
                        /\ IsPathAvailable(d, input, output) =>
                              ListEnabledSourcesForPath(d, output, input) = {XYKPool}
      BY DEF PathsHavePools
    <2> DEFINE ends == {input, output} \ {XOR}
               lists == {sources[d][t] : t \in ends}
    <2>1. ends \subseteq Targets /\ ends # {}
      BY DEF PathEnds
    <2>2. XOR \notin Targets
      BY SourceAssumption
    <2>3. SourcesOnPath(d, input, output) = lists /\ SourcesOnPath(d, output, input) = lists
      <3>1. CASE input = XOR
        <4>1. /\ PairsOnPath(input, output) = {<<XOR, output>>}
              /\ PairsOnPath(output, input) = {<<XOR, output>>}
          BY <3>1 DEF PairsOnPath, WeakSortPair
        <4>2. ends = {output} /\ output \in Targets
          BY <3>1 DEF PathEnds
        <4> QED
          BY <4>1, <4>2 DEF SourcesOnPath, ListEnabledSources
      <3>2. CASE output = XOR
        <4>1. /\ PairsOnPath(input, output) = {<<XOR, input>>}
              /\ PairsOnPath(output, input) = {<<XOR, input>>}
          BY <3>2 DEF PairsOnPath, WeakSortPair
        <4>2. ends = {input} /\ input \in Targets
          BY <3>2 DEF PathEnds
        <4> QED
          BY <4>1, <4>2 DEF SourcesOnPath, ListEnabledSources
      <3>3. CASE input # XOR /\ output # XOR
        <4>1. /\ PairsOnPath(input, output) = {<<XOR, input>>, <<XOR, output>>}
              /\ PairsOnPath(output, input) = {<<XOR, input>>, <<XOR, output>>}
          BY <3>3 DEF PairsOnPath
        <4>2. ends = {input, output} /\ input \in Targets /\ output \in Targets
          BY <3>3 DEF PathEnds
        <4> QED
          BY <4>1, <4>2 DEF SourcesOnPath, ListEnabledSources
      <3> QED
        BY <3>1, <3>2, <3>3
    <2>4. ASSUME NEW t \in ends
          PROVE  /\ sources[d][t] \in {NoPair, {}, {XYKPool}}
                 /\ PoolAccount(d, t) \in registered <=> sources[d][t] = {XYKPool}
                 /\ PoolAccount(d, t) \in registered <=> AssetExists(Marker(d, t))
      <3>1. t \in Targets
        BY <2>1
      <3> HIDE DEF ends
      <3>2. sources[d][t] \in {NoPair, {}, {XYKPool}}
        BY <3>1 DEF IInv, Types
      <3>3. /\ PoolAccount(d, t) \in registered <=> sources[d][t] = {XYKPool}
            /\ PoolAccount(d, t) \in registered <=> AssetExists(Marker(d, t))
        BY <3>1 DEF IInv, Pools
      <3> QED
        BY <3>2, <3>3
    <2>5. {XYKPool} # {} /\ {XYKPool} # NoPair
      BY SourceAssumption
    <2> HIDE DEF ends
    <2>6. lists \cap {NoPair, {}} = {} <=> \A t \in ends : sources[d][t] = {XYKPool}
      BY <2>4, <2>5
    <2>7. (\A t \in ends : sources[d][t] = {XYKPool}) => lists = {{XYKPool}}
      BY <2>1
    <2>8. UNION {{XYKPool}} = {XYKPool}
      OBVIOUS
    <2>9. IsPathAvailable(d, input, output) <=> \A t \in ends : sources[d][t] = {XYKPool}
      BY <2>3, <2>6 DEF IsPathAvailable
    <2>10. IsPathAvailable(d, input, output) =>
               ListEnabledSourcesForPath(d, output, input) = {XYKPool}
      <3> HIDE DEF lists
      <3> QED
        BY <2>3, <2>6, <2>7, <2>8, <2>9 DEF ListEnabledSourcesForPath
    <2> QED
      BY <2>4, <2>9, <2>10 DEF ends
  <1> QED
    BY <1>1, Invariance, PTL

\* Properties always names a pool that is complete, and only an initialisation changes
\* its entry.
THEOREM PropertiesAlwaysNameAPool ==
    Spec => PropertiesNameAPool
  <1> DEFINE Names ==
        \A t \in Targets :
          /\ (\E d \in Dexes : PoolAccount(d, t) \in registered) <=> properties[t] # NoPool
          /\ properties[t] # NoPool => /\ PoolAccount(properties[t], t) \in registered
                                       /\ AssetExists(Marker(properties[t], t))
          /\ properties'[t] # properties[t]
                => PoolAccount(properties'[t], t) \in registered' \ registered
  <1>1. IInv /\ Next => Names
    <2> SUFFICES ASSUME IInv, Next, NEW t \in Targets
                 PROVE  /\ (\E d \in Dexes : PoolAccount(d, t) \in registered)
                               <=> properties[t] # NoPool
                        /\ properties[t] # NoPool =>
                               /\ PoolAccount(properties[t], t) \in registered
                               /\ AssetExists(Marker(properties[t], t))
                        /\ properties'[t] # properties[t]
                              => PoolAccount(properties'[t], t) \in registered' \ registered
      OBVIOUS
    <2>1. /\ (\E d \in Dexes : PoolAccount(d, t) \in registered) <=> properties[t] # NoPool
          /\ properties[t] # NoPool => PoolAccount(properties[t], t) \in registered
          /\ properties \in [Targets -> Dexes \cup {NoPool}]
      BY DEF IInv, Named, Types
    <2>2. properties[t] # NoPool => AssetExists(Marker(properties[t], t))
      <3> SUFFICES ASSUME properties[t] # NoPool
                   PROVE  AssetExists(Marker(properties[t], t))
        OBVIOUS
      <3>1. properties[t] \in Dexes /\ PoolAccount(properties[t], t) \in registered
        BY <2>1
      <3> QED
        BY <3>1 DEF IInv, Pools
    <2>3. ASSUME properties'[t] # properties[t]
          PROVE  PoolAccount(properties'[t], t) \in registered' \ registered
      <3>1. PICK u \in Users : AssetCall(u) \/ PairCall(u) \/ OtherCall(u)
                               \/ AddProvider(u) \/ RemoveProvider(u)
        BY DEF Next
      <3>2. CASE properties' = properties
        BY <2>3, <3>2
      <3>3. CASE AssetCall(u) \/ OtherCall(u) \/ AddProvider(u) \/ RemoveProvider(u)
        <4>1. properties' = properties
          BY <3>3 DEF AssetCall, RegisterAsset, TransferAsset, MintAsset, BurnAsset,
                      SetNonMintable, OtherCall, AddProvider, RemoveProvider, poolVars
        <4> QED
          BY <3>2, <4>1
      <3>4. CASE PairCall(u)
        <4>1. PICK d \in Dexes, x \in Targets : RegisterPair(u, d, x) \/ InitializePool(u, d, x)
          BY <3>4 DEF PairCall
        <4>2. CASE RegisterPair(u, d, x)
          BY <3>2, <4>2 DEF RegisterPair
        <4>3. CASE InitializePool(u, d, x)
          <5>1. /\ properties' = [properties EXCEPT ![x] = d]
                /\ PoolAccount(d, x) \notin registered
                /\ PoolAccount(d, x) \in registered'
            BY <4>3 DEF InitializePool, PropertiesOf
          <5>2. x = t /\ properties'[t] = d
            BY <2>1, <2>3, <5>1
          <5> QED
            BY <5>1, <5>2
        <4> QED
          BY <4>1, <4>2, <4>3
      <3> QED
        BY <3>1, <3>3, <3>4
    <2> QED
      BY <2>1, <2>2, <2>3
  <1>2. IInv /\ [Next]_vars => [Names]_vars
    <2> HIDE DEF Names
    <2> QED
      BY <1>1
  <1>3. Spec => [][Names]_vars
    <2> HIDE DEF Names
    <2> QED
      BY <1>2, Invariance, PTL DEF Spec
  <1> QED
    BY <1>3 DEF PropertiesNameAPool

\* What set_non_mintable promises: the issuance of such an asset never grows, and no
\* holder has more than it.
THEOREM NonMintableNeverGrowsAgain ==
    Spec => NonMintableNeverGrows
  <1> DEFINE Frozen ==
        \A a \in AssetIds : AssetExists(a) /\ ~mintable[a] =>
          /\ ~mintable'[a]
          /\ issuance'[a] <= issuance[a]
          /\ \A u \in Users : balance'[a][u] <= issuance[a]
  <1> DEFINE Below == \A a \in AssetIds, u \in Users : balance[a][u] <= issuance[a]
  <1>0. IInv' => Below'
    <2>1. IInv => Below
      BY BalanceFacts
    <2> HIDE DEF Below
    <2> QED
      BY <2>1, PTL
  <1>1. IInv /\ IInv' /\ Next => Frozen
    <2> SUFFICES ASSUME IInv, IInv', Next, NEW a \in AssetIds, AssetExists(a), ~ mintable[a]
                 PROVE  /\ ~ mintable'[a]
                        /\ issuance'[a] <= issuance[a]
                        /\ \A u \in Users : balance'[a][u] <= issuance[a]
      OBVIOUS
    <2>1. /\ Types /\ issuance[a] \in Nat /\ issuance'[a] \in Nat
          /\ \A u \in Users : balance'[a][u] \in Nat
      BY DEF IInv, Types
    <2>2. \A u \in Users : balance'[a][u] <= issuance'[a]
      BY <1>0
    <2>3. ~ mintable'[a] /\ issuance'[a] <= issuance[a]
      <3>1. PICK u \in Users : AssetCall(u) \/ PairCall(u) \/ OtherCall(u)
                               \/ AddProvider(u) \/ RemoveProvider(u)
        BY DEF Next
      <3>2. CASE mintable' = mintable /\ issuance' = issuance
        BY <2>1, <3>2
      <3>3. ASSUME NEW b \in AssetIds, ~ AssetExists(b), NEW supply, NEW flag,
                   WriteAsset(u, b, supply, flag)
            PROVE  mintable'[a] = mintable[a] /\ issuance'[a] = issuance[a]
        <4>1. a # b
          BY <3>3
        <4>2. /\ mintable' = [mintable EXCEPT ![b] = flag]
              /\ issuance' = [issuance EXCEPT ![b] = issuance[b] + supply]
          BY <3>3 DEF WriteAsset
        <4> QED
          BY <2>1, <4>1, <4>2 DEF Types
      <3>4. CASE OtherCall(u) \/ AddProvider(u) \/ RemoveProvider(u)
        BY <3>2, <3>4 DEF OtherCall, AddProvider, RemoveProvider, assetVars
      <3>5. CASE AssetCall(u)
        <4>1. CASE \E supply \in 0 .. MaxSupply, isMintable \in BOOLEAN :
                      RegisterAsset(u, supply, isMintable)
          <5>1. PICK supply \in 0 .. MaxSupply, isMintable \in BOOLEAN :
                    RegisterAsset(u, supply, isMintable)
            BY <4>1
          <5>2. PICK b : b = GenAssetId(u)
            OBVIOUS
          <5>3. ~ AssetExists(b) /\ WriteAsset(u, b, supply, isMintable) /\ Signs(u)
            BY <5>1, <5>2 DEF RegisterAsset
          <5>4. b \in AssetIds
            BY <2>1, <5>2, <5>3, NonceFacts, IdFacts DEF GenAssetId, NonceInCall, Signs
          <5> QED
            BY <2>1, <3>3, <5>3, <5>4
        <4>2. CASE \E b \in AssetIds, v \in Users, amount \in 1 .. MaxSupply :
                      TransferAsset(u, v, b, amount)
          BY <3>2, <4>2 DEF TransferAsset
        <4>3. CASE \E b \in AssetIds, v \in Users, amount \in 1 .. MaxSupply :
                      MintAsset(u, v, b, amount)
          <5>1. PICK b \in AssetIds, v \in Users, amount \in 1 .. MaxSupply :
                    MintAsset(u, v, b, amount)
            BY <4>3
          <5>2. /\ mintable[b] /\ mintable' = mintable
                /\ issuance' = [issuance EXCEPT ![b] = issuance[b] + amount]
            BY <5>1 DEF MintAsset, MayMint
          <5>3. b # a
            BY <5>2
          <5> QED
            BY <2>1, <5>2, <5>3 DEF Types
        <4>4. CASE \E b \in AssetIds : SetNonMintable(u, b)
          <5>1. PICK b \in AssetIds : SetNonMintable(u, b)
            BY <4>4
          <5>2. mintable' = [mintable EXCEPT ![b] = FALSE] /\ issuance' = issuance
            BY <5>1 DEF SetNonMintable
          <5> QED
            BY <2>1, <5>2 DEF Types
        <4>5. CASE \E b \in AssetIds, amount \in 1 .. MaxSupply : BurnAsset(u, b, amount)
          <5>1. PICK b \in AssetIds, amount \in 1 .. MaxSupply : BurnAsset(u, b, amount)
            BY <4>5
          <5>2. /\ mintable' = mintable /\ amount \in Nat
                /\ issuance' = [issuance EXCEPT ![b] = issuance[b] - amount]
            BY <5>1, CapAssumption DEF BurnAsset
          <5> QED
            BY <2>1, <5>2 DEF Types
        <4> QED
          BY <3>5, <4>1, <4>2, <4>3, <4>4, <4>5 DEF AssetCall
      <3>6. CASE PairCall(u)
        <4>1. PICK d \in Dexes, t \in Targets : RegisterPair(u, d, t) \/ InitializePool(u, d, t)
          BY <3>6 DEF PairCall
        <4>2. CASE RegisterPair(u, d, t)
          BY <3>2, <4>2 DEF RegisterPair, assetVars
        <4>3. CASE InitializePool(u, d, t)
          <5>1. ~ AssetExists(Marker(d, t)) /\ WriteAsset(u, Marker(d, t), 0, TRUE)
            BY <4>3 DEF InitializePool
          <5>2. Marker(d, t) \in AssetIds
            BY PoolFacts
          <5>3. /\ mintable' = [mintable EXCEPT ![Marker(d, t)] = TRUE]
                /\ issuance' = [issuance EXCEPT ![Marker(d, t)] = issuance[Marker(d, t)] + 0]
            BY <5>1 DEF WriteAsset
          <5> QED
            BY <2>1, <5>1, <5>2, <5>3 DEF Types
        <4> QED
          BY <4>1, <4>2, <4>3
      <3> QED
        BY <3>1, <3>4, <3>5, <3>6
    <2> QED
      BY <2>1, <2>2, <2>3
  <1>2. IInv /\ IInv' /\ [Next]_vars => [Frozen]_vars
    <2> HIDE DEF Frozen
    <2> QED
      BY <1>1
  <1>3. Spec => [][Frozen]_vars
    <2> HIDE DEF Frozen
    <2> QED
      BY <1>2, Invariance, PTL DEF Spec
  <1> QED
    BY <1>3 DEF NonMintableNeverGrows
=============================================================================
