--------------------------- MODULE MCPermissions ---------------------------
(* TLC instances of Permissions.                                           *)
EXTENDS Permissions, TLC

CONSTANTS Alice, Bob, Mint

\* The genesis of pallets/permissions/src/mock.rs, for one known permission.
OwnersAtGenesis ==
    [key \in PermissionIds \X Scopes |->
        IF key = <<Mint, Unlimited>> THEN <<Alice>> ELSE <<>>]

HeldAtGenesis ==
    {<<Bob, scope, Mint>> : scope \in Scopes}

ModesAtGenesis == [p \in PermissionIds |-> IF p = Mint THEN Permit ELSE NoMode]
=============================================================================
