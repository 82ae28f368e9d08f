-------------------------- MODULE PermissionCalls --------------------------
(***************************************************************************)
(* The methods of pallets/permissions as functions of the storage they     *)
(* read and write: Owners, Modes and Permissions of the pallet, and the    *)
(* consumer and provider references that frame_system counts per account.  *)
(*                                                                         *)
(* A method returns the storage it leaves behind and whether it succeeded. *)
(* What it wrote before an error stays written (StorageMap::mutate keeps   *)
(* the value its closure left, Err or not); only a caller that wrapped the *)
(* call in common::with_transaction rolls it back.                         *)
(***************************************************************************)
EXTENDS Integers, Sequences, FiniteSets

CONSTANTS
    Accounts,        \* accounts that own or hold permissions
    PermissionIds,
    LimitedScopes,   \* Scope::Limited(hash)
    Unlimited,       \* Scope::Unlimited
    Permit, Forbid,  \* the two modes
    NoMode           \* a permission with no entry in Modes

Scopes == LimitedScopes \cup {Unlimited}

ASSUME ScopeAssumption == Unlimited \notin LimitedScopes
ASSUME ModeAssumption == Permit # Forbid /\ NoMode \notin {Permit, Forbid}

Storage ==
    [owners : [PermissionIds \X Scopes -> Seq(Accounts)],
     modes : [PermissionIds -> {Permit, Forbid, NoMode}],
     held : SUBSET (Accounts \X Scopes \X PermissionIds),
     consumers : [Accounts -> Nat],
     providers : [Accounts -> Nat]]

Ok(s) == [ok |-> TRUE, st |-> s]
Failed(s) == [ok |-> FALSE, st |-> s]

-----------------------------------------------------------------------------
(* frame_system's reference counters.                                      *)

CanIncConsumers(s, a) == s.providers[a] > 0
IncConsumers(s, a) == [s EXCEPT !.consumers[a] = @ + 1]
DecConsumers(s, a) == [s EXCEPT !.consumers[a] = IF @ > 0 THEN @ - 1 ELSE 0]
IncProviders(s, a) == [s EXCEPT !.providers[a] = @ + 1]

\* The last provider of an account leaves only when nothing refers to it.
CanDecProviders(s, a) ==
    s.providers[a] > 1 \/ (s.providers[a] = 1 /\ s.consumers[a] = 0)

DecProviders(s, a) == [s EXCEPT !.providers[a] = @ - 1]

-----------------------------------------------------------------------------
HoldsAny(s, a) == \E h \in s.held : h[1] = a

Owns(s, who, p, scope) ==
    \E i \in DOMAIN s.owners[<<p, scope>>] : s.owners[<<p, scope>>][i] = who

\* account_has_permission
AccountHasPermission(s, who, scope, p) == <<who, scope, p>> \in s.held

\* check_permission_with_scope: a permission held in Unlimited counts in every
\* scope; a Forbid permission forbids its holder.
CheckPermissionWithScope(s, who, p, scope) ==
    /\ s.modes[p] # NoMode
    /\ LET found == \/ AccountHasPermission(s, who, scope, p)
                    \/ AccountHasPermission(s, who, Unlimited, p)
       IN  found <=> s.modes[p] = Permit

Hold(s, a, p, scope) == [s EXCEPT !.held = @ \cup {<<a, scope, p>>}]

\* Fault: the reference is counted for an account that does not exist.
HoldUnchecked(s, a, p, scope) ==
    IF HoldsAny(s, a) THEN Ok(Hold(s, a, p, scope))
    ELSE Ok(Hold(IncConsumers(s, a), a, p, scope))

\* Fault: no reference is counted for an account's first permission.
HoldUncounted(s, a, p, scope) == Ok(Hold(s, a, p, scope))

\* An account that gets its first permission gets a consumer reference first.
HoldCounted(s, a, p, scope) ==
    IF HoldsAny(s, a) THEN Ok(Hold(s, a, p, scope))
    ELSE IF CanIncConsumers(s, a) THEN Ok(Hold(IncConsumers(s, a), a, p, scope))
    ELSE Failed(s)

\* Fault: any account may hand out a permission that exists.
GrantWithoutOwner(s, who, a, p, scope) ==
    IF s.modes[p] # NoMode THEN HoldCounted(s, a, p, scope) ELSE Failed(s)

\* grant_permission_with_scope, by an owner in the scope or in Unlimited.
GrantPermission(s, who, a, p, scope) ==
    IF Owns(s, who, p, scope) \/ Owns(s, who, p, Unlimited)
    THEN HoldCounted(s, a, p, scope)
    ELSE Failed(s)

\* The first position of who in the list of owners.
FirstSlot(s, who, p, scope) ==
    CHOOSE i \in DOMAIN s.owners[<<p, scope>>] :
        /\ s.owners[<<p, scope>>][i] = who
        /\ \A j \in 1 .. (i - 1) : s.owners[<<p, scope>>][j] # who

\* What the closure of transfer_permission writes before its last check.
MoveSlot(s, who, a, p, scope) ==
    DecConsumers([s EXCEPT !.owners[<<p, scope>>][FirstSlot(s, who, p, scope)] = a], who)

\* transfer_permission: the new owner's reference is counted last, after the
\* list of owners was changed.
TransferPermission(s, who, a, p, scope) ==
    IF s.modes[p] = NoMode \/ ~Owns(s, who, p, scope) THEN Failed(s)
    ELSE LET moved == MoveSlot(s, who, a, p, scope)
         IN  IF CanIncConsumers(moved, a) THEN Ok(IncConsumers(moved, a))
             ELSE Failed(moved)

PushOwner(s, owner, p, scope) == [s EXCEPT !.owners[<<p, scope>>] = Append(@, owner)]

\* create_permission: both references are counted before anything is written.
CreatePermission(s, owner, a, p, scope, mode) ==
    IF s.modes[p] # NoMode \/ (~HoldsAny(s, a) /\ ~CanIncConsumers(s, a))
    THEN Failed(s)
    ELSE LET counted == IF HoldsAny(s, a) THEN s ELSE IncConsumers(s, a)
         IN  IF ~CanIncConsumers(counted, owner) THEN Failed(counted)
             ELSE Ok(Hold(PushOwner([IncConsumers(counted, owner) EXCEPT
                                        !.modes[p] = mode],
                                    owner, p, scope), a, p, scope))

\* assign_permission, for pallets that make an account the owner (and, for a
\* Permit permission, the holder) without asking an owner.  The owner's
\* reference is counted even when it was an owner already.
AssignPermission(s, owner, holder, p, scope) ==
    IF s.modes[p] = NoMode \/ ~CanIncConsumers(s, owner) THEN Failed(s)
    ELSE LET counted == IncConsumers(s, owner)
             madeOwner == ~Owns(s, owner, p, scope)
             owned == IF madeOwner THEN PushOwner(counted, owner, p, scope)
                                   ELSE counted
             granted == s.modes[p] = Permit /\ ~AccountHasPermission(s, holder, scope, p)
             result == IF s.modes[p] = Permit THEN HoldCounted(owned, holder, p, scope)
                                              ELSE Ok(owned)
         IN  [ok |-> result.ok /\ (madeOwner \/ granted), st |-> result.st]
=============================================================================
