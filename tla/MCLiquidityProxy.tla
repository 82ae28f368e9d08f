-------------------------- MODULE MCLiquidityProxy --------------------------
(* Small instances of LiquidityProxy for TLC.                              *)
EXTENDS LiquidityProxy

CONSTANTS a, b, u1

\* The second source trades one of the assets only.
MCMarkets == {<<1, a>>, <<1, b>>, <<2, b>>}
MCSelections == {{1}}

\* One asset to sell, sources with the base asset and the other one, and a unit
\* that an earlier exchange has left in the technical account.
MCEndowments ==
    {[x \in Account |-> [asset \in Assets |->
        CASE x = u1 /\ asset = a -> 3
          [] x \in Sources /\ asset = Base -> 3 * (2 - x)
          [] x \in Sources /\ asset = b -> x
          [] x = Transit /\ asset = Base -> 1
          [] OTHER -> 0]]}
=============================================================================
