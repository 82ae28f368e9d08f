---------------------------- MODULE Permissions ----------------------------
(***************************************************************************)
(* The permissions pallet under any order of calls from other pallets.     *)
(*                                                                         *)
(* The pallet has no extrinsics: grant, transfer, create and assign are    *)
(* called by pallets that have already authenticated "who".  A failed call *)
(* either leaves what it wrote (a caller outside with_transaction, such as *)
(* mock-liquidity-source's set_reserves_account_id) or nothing, which is   *)
(* no step.  Accounts gain and lose providers (balances) in between.       *)
(***************************************************************************)
EXTENDS PermissionCalls

CONSTANTS
    GenesisOwners,   \* initial_permission_owners
    GenesisHeld,     \* initial_permissions
    GenesisModes,    \* the table of modes that the genesis inserts
    MaxConsumers,    \* cap on an account's consumer references
    MaxProviders,    \* cap on an account's provider references
    MaxOwners        \* cap on the length of a list of owners

ASSUME GenesisAssumption ==
    /\ GenesisOwners \in [PermissionIds \X Scopes -> Seq(Accounts)]
    /\ GenesisHeld \subseteq Accounts \X Scopes \X PermissionIds
    /\ GenesisModes \in [PermissionIds -> {Permit, Forbid, NoMode}]
\* Ids and hashes have a fixed width.
ASSUME FiniteAssumption ==
    IsFiniteSet(Accounts) /\ IsFiniteSet(PermissionIds) /\ IsFiniteSet(LimitedScopes)
\* As in permissions/src/mock.rs, and in chain_spec.rs that hands nothing out: what the
\* genesis hands out has an owner, and what has an owner has a mode.
ASSUME GenesisRolesAssumption ==
    /\ \A key \in PermissionIds \X Scopes :
          GenesisOwners[key] # <<>> => GenesisModes[key[1]] # NoMode
    /\ \A h \in GenesisHeld : \/ GenesisOwners[<<h[3], h[2]>>] # <<>>
                              \/ GenesisOwners[<<h[3], Unlimited>>] # <<>>

VARIABLE st   \* the storage of PermissionCalls

vars == <<st>>

\* Every place of an account in a list of owners.
OwnerSlots(s, a) ==
    UNION {{<<key, i>> : i \in {j \in DOMAIN s.owners[key] : s.owners[key][j] = a}}
           : key \in PermissionIds \X Scopes}

\* The references an account needs: one per place, and one for what it holds.
ReferencesNeeded(s, a) ==
    Cardinality(OwnerSlots(s, a)) + (IF HoldsAny(s, a) THEN 1 ELSE 0)

\* The genesis counts a reference per initial owner and per initial entry of
\* Permissions, of which an account may have one in every scope.
GenesisStorage ==
    LET empty == [owners |-> GenesisOwners, modes |-> GenesisModes,
                  held |-> GenesisHeld,
                  consumers |-> [a \in Accounts |-> 0],
                  providers |-> [a \in Accounts |-> 1]]
        entries(a) == {scope \in Scopes : \E p \in PermissionIds :
                                         <<a, scope, p>> \in GenesisHeld}
    IN  [empty EXCEPT !.consumers =
            [a \in Accounts |-> Cardinality(OwnerSlots(empty, a))
                                + Cardinality(entries(a))]]

Init == st = GenesisStorage

Bounded(s) ==
    /\ \A a \in Accounts :
          s.consumers[a] <= MaxConsumers /\ s.providers[a] <= MaxProviders
    /\ \A key \in PermissionIds \X Scopes : Len(s.owners[key]) <= MaxOwners

Grant(who, a, p, scope) == st' = GrantPermission(st, who, a, p, scope).st

Transfer(who, a, p, scope) == st' = TransferPermission(st, who, a, p, scope).st

Create(owner, a, p, scope) ==
    \E mode \in {Permit, Forbid} : st' = CreatePermission(st, owner, a, p, scope, mode).st

Assign(owner, holder, p, scope) == st' = AssignPermission(st, owner, holder, p, scope).st

\* A balance that appears or disappears.
AddProvider(a) == st' = IncProviders(st, a)

RemoveProvider(a) == CanDecProviders(st, a) /\ st' = DecProviders(st, a)

Next ==
    \/ \E who, a \in Accounts, p \in PermissionIds, scope \in Scopes :
          /\ \/ Grant(who, a, p, scope)
             \/ Transfer(who, a, p, scope)
             \/ Create(who, a, p, scope)
             \/ Assign(who, a, p, scope)
          /\ Bounded(st')
    \/ \E a \in Accounts :
          /\ AddProvider(a) \/ RemoveProvider(a)
          /\ Bounded(st')

Spec == Init /\ [][Next]_vars

-----------------------------------------------------------------------------
\* The storage keeps its types, and an account that is referred to exists: no
\* order of reference counting removes the last provider under a consumer.
TypeOK ==
    /\ st \in Storage
    /\ \A a \in Accounts : st.consumers[a] > 0 => st.providers[a] > 0

\* A transfer whose receiver does not exist: it fails, but has already put the
\* receiver in the list of owners.
TransferLeftPartWritten ==
    \E who, a \in Accounts, p \in PermissionIds, scope \in Scopes :
        LET result == TransferPermission(st, who, a, p, scope)
        IN  ~result.ok /\ result.st # st /\ st' = result.st

ReferencesCovered(s) ==
    \A a \in Accounts : s.consumers[a] >= ReferencesNeeded(s, a)

\* As long as no transfer to a missing account was left half done, every account
\* has a reference for each place as an owner and one for what it holds, so that
\* it cannot be reaped (and its nonce reset) while others rely on it.
RolesAreReferenced ==
    [][ReferencesCovered(st) /\ ~TransferLeftPartWritten
       => ReferencesCovered(st')]_vars

\* Whatever is held was handed out by somebody: the permission has a mode, and an
\* owner in the scope or in Unlimited who can hand it out again.
HeldHasOwner ==
    \A h \in st.held :
        LET scope == h[2]
            p == h[3]
        IN  /\ st.modes[p] # NoMode
            /\ \E o \in Accounts : Owns(st, o, p, scope) \/ Owns(st, o, p, Unlimited)

\* "Method transfers a permission from owner to another Account." (lib.rs): an
\* owner that transferred a permission no longer owns it.
TransferGivesUpOwnership ==
    [][\A who, a \in Accounts, p \in PermissionIds, scope \in Scopes :
          LET result == TransferPermission(st, who, a, p, scope)
          IN  who # a /\ result.ok /\ st' = result.st /\ st' # st
              => ~Owns(st', who, p, scope)]_vars
=============================================================================
