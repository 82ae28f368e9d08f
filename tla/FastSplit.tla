----------------------------- MODULE FastSplit -----------------------------
(***************************************************************************)
(* The "fast" split of pallets/liquidity-proxy: a trade between the base   *)
(* asset and a collateral is divided between a primary market (a bonding   *)
(* curve with one price for the whole trade) and a secondary one (a        *)
(* constant-product pool with the reserves x of the base asset and y of    *)
(* the collateral).  Prices are Fixed: collateral per base asset.          *)
(***************************************************************************)
EXTENDS FixedWrapper

CONSTANT ReserveMargin   \* fixed_wrapper!(0.9)

Buying == "buying base"
Selling == "selling base"
Directions == {Buying, Selling}

-----------------------------------------------------------------------------
SecondaryPrice(x, y) == FxDiv(y, x)

\* The secondary market is the better one for the first unit of the trade.
SecondaryIsBetter(direction, x, y, price) ==
    /\ SecondaryPrice(x, y) # Err
    /\ IF direction = Buying THEN SecondaryPrice(x, y) < price
                             ELSE SecondaryPrice(x, y) > price

\* Fault: the price itself takes the place of its root.
DeltaOfPrice(direction, byInput, x, y, price) ==
    LET k == MultiplyAndSqrt(x, y)
    IN  IF byInput = (direction = Buying)
        THEN IF byInput THEN FxSub(FxMul(k, price), y) ELSE FxSub(y, FxMul(k, price))
        ELSE IF byInput THEN FxSub(FxDiv(k, price), x) ELSE FxSub(x, FxDiv(k, price))

\* What the secondary market takes in, or gives, until its price is the primary
\* one: the reserves move to k * sqrt(price) of collateral and k / sqrt(price) of
\* the base asset, for k the root of their product.
Delta(direction, byInput, x, y, price) ==
    LET k == MultiplyAndSqrt(x, y)
        root == FxSqrt(price)
    IN  IF byInput = (direction = Buying)
        THEN IF byInput THEN FxSub(FxMul(k, root), y) ELSE FxSub(y, FxMul(k, root))
        ELSE IF byInput THEN FxSub(FxDiv(k, root), x) ELSE FxSub(x, FxDiv(k, root))

\* fraction_sec: a calculation that fails counts as nothing.
Clamp(fraction) ==
    IF fraction = Err \/ fraction < 0 THEN 0
    ELSE IF fraction > Unit THEN Unit
    ELSE fraction

FractionOfSecondary(direction, byInput, x, y, price, amount) ==
    IF SecondaryIsBetter(direction, x, y, price)
    THEN Clamp(FxDiv(Delta(direction, byInput, x, y, price), amount))
    ELSE 0

\* What a market is quoted for; no quote is asked for nothing.
PartOf(amount, fraction) == ToBalance(FxMul(amount, fraction))

\* Fault: the split is left as it is.
KeepSplit(split, amount, reserves) == split

\* Selling for a desired amount of collateral: the primary market cannot pay more
\* than its reserves of it, so its part is lowered to most of them.
Reweigh(split, amount, reserves) ==
    IF reserves >= FxMul(amount, split.primary) THEN split
    ELSE LET left == FxDiv(FxMul(ReserveMargin, reserves), amount)
             primary == IF left = Err THEN 0 ELSE left
         IN  [primary |-> primary, secondary |-> Unit - primary]

\* decide_amounts_buying_base_asset and decide_amounts_selling_base_asset.
DecideAmounts(direction, byInput, x, y, price, amount, reserves) ==
    LET secondary == FractionOfSecondary(direction, byInput, x, y, price, amount)
        split == [primary |-> Unit - secondary, secondary |-> secondary]
    IN  IF direction = Selling /\ ~byInput THEN Reweigh(split, amount, reserves)
        ELSE split

\* fast_split_primary_vs_secondary: without a secondary market all is primary.
FastSplit(direction, byInput, x, y, price, amount, reserves) ==
    IF x = 0 \/ y = 0 THEN [primary |-> Unit, secondary |-> 0]
    ELSE DecideAmounts(direction, byInput, x, y, price, amount, reserves)

-----------------------------------------------------------------------------
(* What a split promises.                                                  *)

\* The parts make up the amount but for one rounding each, and the collateral
\* asked of the primary market is there.
PrimaryCanPay(x, y, price, amount, reserves) ==
    LET split == FastSplit(Selling, FALSE, x, y, price, amount, reserves)
        primary == PartOf(amount, split.primary)
    IN  /\ primary <= reserves \/ x = 0 \/ y = 0
        /\ amount - primary - PartOf(amount, split.secondary) \in 0 .. 1

\* The pool's marginal price after it has traded part, compared with the primary
\* price (p * x' * x' against k * Unit on the base side, p * k against
\* y' * y' * Unit on the other): it has not gone past the primary one.
NotPastPrimary(direction, byInput, x, y, price, part) ==
    CASE direction = Buying /\ byInput ->
            (y + part) * (y + part) * Unit <= x * y * price
      [] direction = Buying /\ ~byInput ->
            part < x /\ x * y * Unit <= price * (x - part) * (x - part)
      [] direction = Selling /\ byInput ->
            x * y * Unit >= price * (x + part) * (x + part)
      [] OTHER ->
            part < y /\ (y - part) * (y - part) * Unit >= x * y * price

\* No less than the exact root of x * y, where the code has k: each of the three
\* roundings of multiply_and_sqrt is worth at most one more.
RootAbove(x, y) ==
    LET k == MultiplyAndSqrt(x, y)
    IN  IF k * k = x * y THEN k ELSE k + 2 + (FxSqrt(x) + FxSqrt(y)) \div Unit

\* No less than the exact root of the price.
PriceRootAbove(price) ==
    IF FxSqrt(price) * FxSqrt(price) = price * Unit THEN FxSqrt(price) ELSE FxSqrt(price) + 1

\* How far apart the roundings of its roots may put the reserve at which the
\* secondary price is the primary one: k * sqrt(price) of collateral, k / sqrt(price)
\* of the base asset.
Spread(direction, byInput, x, y, price) ==
    LET k == MultiplyAndSqrt(x, y)
    IN  IF byInput = (direction = Buying)
        THEN (RootAbove(x, y) * PriceRootAbove(price) + Unit - 1) \div Unit
                - (k * FxSqrt(price)) \div Unit
        ELSE (RootAbove(x, y) * Unit + FxSqrt(price) - 1) \div FxSqrt(price)
                - (k * Unit) \div PriceRootAbove(price)

\* The secondary market is the better one and nothing of its part overflows.
SplitReturns(direction, byInput, x, y, price, amount) ==
    /\ price > 0 /\ SecondaryIsBetter(direction, x, y, price)
    /\ Delta(direction, byInput, x, y, price) # Err
    /\ FxDiv(Delta(direction, byInput, x, y, price), amount) # Err

\* The secondary market takes its part at prices better than the primary's and
\* leaves nothing better there, up to the spread of the roots and the roundings of
\* its fraction; buying by input it never goes past the primary price.
SplitStopsAtPrimaryPrice(direction, byInput, x, y, price, amount) ==
    LET part == PartOf(amount,
                    FractionOfSecondary(direction, byInput, x, y, price, amount))
        notPast(p) == NotPastPrimary(direction, byInput, x, y, price, p)
        late == Spread(direction, byInput, x, y, price)
        early == late + 2 + amount \div Unit
    IN  /\ direction = Buying /\ byInput /\ part > 0 => notPast(part)
        /\ SplitReturns(direction, byInput, x, y, price, amount)
           => /\ part > late => notPast(part - late)
              /\ part + early <= amount => ~notPast(part + early)
=============================================================================
