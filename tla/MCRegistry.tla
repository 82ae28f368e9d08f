---------------------------- MODULE MCRegistry ----------------------------
(* TLC instances of Registry.                                              *)
EXTENDS Registry, TLC

CONSTANTS Alice, Bob, PublicDex, PrivateDex, Val, Pswap

AliceManagesPrivate == {<<Alice, PrivateDex>>}

\* A genesis without assets, as chain_spec.rs has it, and one in which both
\* users have an asset that trades on the public DEX.
EmptyGenesis == {[assets |-> <<>>, pairs |-> {}]}
SomeGenesis == EmptyGenesis \cup
    {[assets |-> <<<<Val, Alice>>, <<Pswap, Bob>>>>,
      pairs |-> {<<PublicDex, Val>>, <<PublicDex, Pswap>>}]}

NobodyIsForbidden == {}

\* Bob is forbidden to transfer the first asset Alice may register.
BobIsForbidden == {<<Bob, <<Alice, 1>>>>}
=============================================================================
