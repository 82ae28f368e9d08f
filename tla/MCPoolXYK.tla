----------------------------- MODULE MCPoolXYK -----------------------------
(* TLC instances of PoolXYK.                                               *)
EXTENDS PoolXYK, TLC

\* Swaps and transfers pay users or, as a donation, a pool's own account.
UsersAndPools == Users \cup {Pool(d) : d \in Dexes}

UserSymmetry == Permutations(Users)
=============================================================================
