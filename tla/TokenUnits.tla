---------------------------- MODULE TokenUnits ----------------------------
(* The total of a currency's balances, without a recursive sum.            *)
EXTENDS Integers

\* The units of a currency one by one: the i-th unit of account a, so that its
\* cardinality is the total of the balances.
UnitsOf(balances) == UNION {{a} \X (1 .. balances[a]) : a \in DOMAIN balances}
=============================================================================
