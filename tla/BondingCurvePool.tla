-------------------------- MODULE BondingCurvePool --------------------------
(***************************************************************************)
(* pallets/bonding-curve-pool: a pool that mints the main asset (XOR) for  *)
(* a collateral at a price that rises with the issuance, and buys it back  *)
(* from its reserves at a fraction of that price.                          *)
(*                                                                         *)
(* An exchange is one call inside common::with_transaction, so an action   *)
(* stands for a whole exchange that succeeds and one that fails leaves no  *)
(* trace.  Prices are FixedWrapper formulas over the issuance.  The        *)
(* exchange that spends the free part of the reserves runs on another      *)
(* source (Config::DEXApi); what it pays is any amount that source has.    *)
(***************************************************************************)
EXTENDS FixedWrapper, FiniteSets, Functions

CONSTANTS
    Users,
    ReserveAccounts,     \* technical accounts the reserves may be kept in
    RegisteredAccounts,  \* those registered with pallets/technical
    Beneficiaries,       \* accounts of DistributionAccounts
    Market,              \* the account of the source behind Config::DEXApi
    Coefficient,         \* Fixed share of each beneficiary
    ValCoefficient,      \* Fixed share that buys VAL back
    InitialPrice, PriceChangeStep, PriceChangeRate,   \* Fixed values
    SellPriceCoefficient, FreeCoefficient, Fee,       \* Fixed values: 0.8, 0.2, 0.001
    Endowment,           \* collateral every user starts with
    InitialIssuances, InitialReserves,
    MarketLiquidity,     \* main asset the other source starts with
    Amounts, Returns,    \* amounts users ask for; amounts the market pays
    MaxExchanges         \* cap on the exchanges of a behaviour

Buy == "buy"
Sell == "sell"
Kinds == {Buy, Sell}
Variants == {"input", "output"}   \* SwapAmount::WithDesiredInput / WithDesiredOutput

Account == Users \cup ReserveAccounts \cup Beneficiaries \cup {Market}

ASSUME CurveAssumption ==
    /\ {InitialPrice, PriceChangeStep, PriceChangeRate} \subseteq 1 .. FixedMax
    /\ {FreeCoefficient, Fee, ValCoefficient} \subseteq 0 .. Unit
    /\ SellPriceCoefficient \in 1 .. Unit
    /\ Coefficient \in [Beneficiaries -> 0 .. Unit]
\* The coefficients as deposit_input and DefaultForSellPriceCoefficient have them,
\* and prices whose products are not rounded, as the defaults'.
ASSUME CoverAssumption ==
    /\ FreeCoefficient + SellPriceCoefficient <= Unit
    /\ (PriceChangeStep * PriceChangeRate) % Unit = 0
    /\ (((PriceChangeStep * PriceChangeRate) \div Unit) * InitialPrice) % Unit = 0
ASSUME AccountsAssumption ==
    /\ RegisteredAccounts \subseteq ReserveAccounts
    /\ Users \cap (ReserveAccounts \cup Beneficiaries \cup {Market}) = {}
    /\ ReserveAccounts \cap (Beneficiaries \cup {Market}) = {}
    /\ Market \notin Beneficiaries
    /\ IsFiniteSet(Account)
ASSUME BoundAssumption == MaxExchanges \in Nat
ASSUME AmountAssumption ==
    /\ Amounts \cup Returns \cup {Endowment, MarketLiquidity}
          \cup InitialIssuances \cup InitialReserves \subseteq Balance
    /\ \A q \in InitialIssuances : q + MarketLiquidity \in Balance

VARIABLES
    issuance,     \* total issuance of the main asset
    main,         \* main asset per account
    collateral,   \* collateral per account
    reservesAcc,  \* ReservesAcc
    permitted,    \* accounts with MINT and BURN in Scope::Unlimited
    exchanges     \* exchanges made, up to MaxExchanges

vars == <<issuance, main, collateral, reservesAcc, permitted, exchanges>>

-----------------------------------------------------------------------------
(* Prices.                                                                 *)

Two == 2 * Unit
StepTimesRate == FxMul(PriceChangeStep, PriceChangeRate)
StepRatePrice == FxMul(StepTimesRate, InitialPrice)

\* The integral of the buy price from 0 to q, the curve's value at q.
CurveAt(q) ==
    FxMul(FxAdd(FxDiv(q, FxMul(FxMul(Two, PriceChangeStep), PriceChangeRate)),
                InitialPrice), q)

\* Fault: the sell coefficient is left out, the pool buys at the price it sells.
PriceForMainAssetWithoutSpread(issued, quantity, kind) ==
    LET q == FromBalance(issued)  m == FromBalance(quantity)
    IN  ToBalance(IF kind = Buy
                  THEN FxSub(CurveAt(FxAdd(q, m)), CurveAt(q))
                  ELSE FxSub(CurveAt(q), CurveAt(FxSub(q, m))))

\* price_for_main_asset at an issuance; a negative price does not convert.
PriceForMainAsset(issued, quantity, kind) ==
    LET q == FromBalance(issued)  m == FromBalance(quantity)
    IN  ToBalance(IF kind = Buy
                  THEN FxSub(CurveAt(FxAdd(q, m)), CurveAt(q))
                  ELSE FxMul(SellPriceCoefficient,
                             FxSub(CurveAt(q), CurveAt(FxSub(q, m)))))

BuyUnderRoot(q, paid) ==
    FxAdd(FxAdd(FxMul(q, q), FxMul(FxMul(Two, q), StepRatePrice)),
          FxMul(StepTimesRate,
                FxAdd(FxMul(StepRatePrice, InitialPrice), FxMul(Two, paid))))

SellTerm(q) ==
    FxAdd(FxDiv(FxMul(q, SellPriceCoefficient), StepTimesRate),
          FxMul(InitialPrice, SellPriceCoefficient))

SellUnderRoot(q, paid) ==
    FxSub(FxMul(SellTerm(q), SellTerm(q)),
          FxDiv(FxMul(FxMul(Two, SellPriceCoefficient), paid), StepTimesRate))

\* Fault: the initial price is not taken off again after the root.
PriceForCollateralAssetUnshifted(issued, collateralAmount, kind) ==
    LET q == FromBalance(issued)  paid == FromBalance(collateralAmount)
    IN  ToBalance(FxSub(FxSqrt(BuyUnderRoot(q, paid)), q))

\* price_for_collateral_asset: the inverse of price_for_main_asset, what is
\* bought for an amount of collateral, or what must be sold to be paid that much.
PriceForCollateralAsset(issued, collateralAmount, kind) ==
    LET q == FromBalance(issued)  paid == FromBalance(collateralAmount)
    IN  ToBalance(IF kind = Buy
                  THEN FxSub(FxSub(FxSqrt(BuyUnderRoot(q, paid)), q), StepRatePrice)
                  ELSE FxSub(FxAdd(q, StepRatePrice),
                             FxDiv(FxMul(StepTimesRate, FxSqrt(SellUnderRoot(q, paid))),
                                   SellPriceCoefficient)))

\* decide_buy_amounts: what the user pays and what the pool mints.
DecideBuyAmounts(q, variant, amount) ==
    IF variant = "input"
    THEN [input |-> amount, output |-> PriceForCollateralAsset(q, amount, Buy)]
    ELSE [input |-> PriceForMainAsset(q, amount, Buy), output |-> amount]

\* decide_sell_amounts: what the user gives back and what the reserves pay.
DecideSellAmounts(q, variant, amount) ==
    IF variant = "input"
    THEN [input |-> amount, output |-> PriceForMainAsset(q, amount, Sell)]
    ELSE [input |-> PriceForCollateralAsset(q, amount, Sell), output |-> amount]

FeeFor(amount) == ToBalance(FxMul(Fee, FromBalance(amount)))

\* quote, as Config::DEXApi and the proxy see it.  Buying by a desired input it
\* hands the collateral's issuance to the formula instead of the main asset's.
Quote(q, collateralIssuance, kind, variant, amount) ==
    CASE kind = Sell /\ variant = "input" -> PriceForMainAsset(q, amount, Sell)
      [] kind = Sell /\ variant = "output" -> PriceForCollateralAsset(q, amount, Sell)
      [] kind = Buy /\ variant = "input" ->
            PriceForCollateralAsset(collateralIssuance, amount, Buy)
      [] OTHER -> PriceForMainAsset(q, amount, Buy)

-----------------------------------------------------------------------------
(* The reserves.                                                           *)

\* R_e of deposit_input: the sell price of the whole issuance.
ReservesExpected(q) == PriceForMainAsset(q, q, Sell)

\* Reserves that are no Fixed compare as nothing with the expected ones.
Exceed(reserves, expected) == FromBalance(reserves) # Err /\ reserves > expected

\* Fault: the free part is taken of the reserves, not of their surplus.
FreeOfReserves(reserves, expected) ==
    IF Exceed(reserves, expected) THEN ToBalance(FxMul(reserves, FreeCoefficient)) ELSE 0

\* R_f of deposit_input, from the reserves that include the input already and
\* the price of an issuance that does not include the output yet.
FreeAmount(reserves, expected) ==
    IF Exceed(reserves, expected) THEN ToBalance(FxMul(reserves - expected, FreeCoefficient))
    ELSE 0

ShareOf(b, swapped) == ToBalance(FxMul(FromBalance(swapped), Coefficient[b]))
ValPart(swapped) == ToBalance(FxMul(FromBalance(swapped), ValCoefficient))

\* All that leaves the reserves' account of the main asset it swapped for.
Distributed(swapped) ==
    SumFunction([b \in Beneficiaries |-> ShareOf(b, swapped)]) + ValPart(swapped)

-----------------------------------------------------------------------------
(* The operations.                                                         *)

\* genesis_build: the reserves' account is named, not registered and without
\* permissions.
Init ==
    /\ reservesAcc \in ReserveAccounts
    /\ permitted = {}
    /\ exchanges = 0
    /\ \E r \in InitialReserves :
          collateral = [a \in Account |-> CASE a \in Users -> Endowment
                                            [] a = reservesAcc -> r
                                            [] OTHER -> 0]
    /\ \E q \in InitialIssuances :
          /\ issuance = q + MarketLiquidity
          /\ \E u \in Users :
                main = [a \in Account |-> CASE a = u -> q
                                            [] a = Market -> MarketLiquidity
                                            [] OTHER -> 0]

\* set_reserves_account_id: assign_permission needs an account that exists and
\* fails for one that owns the permission already.  The former account keeps
\* its permissions and its reserves.
SetReservesAccountId(a) ==
    /\ a \in RegisteredAccounts \ permitted
    /\ reservesAcc' = a
    /\ permitted' = permitted \cup {a}
    /\ UNCHANGED <<issuance, main, collateral, exchanges>>

\* deposit_input moves the collateral in and distribute_reserves spends the free
\* part of the reserves on another source.
DepositInput(sender, paid, free) ==
    collateral' = [collateral EXCEPT ![sender] = @ - paid,
                                     ![reservesAcc] = @ + paid - free,
                                     ![Market] = @ + free]

\* The main asset of BuyMainAsset::swap: the other source pays swapped, the
\* beneficiaries get their shares, the VAL part goes back to that source, what
\* rounding leaves stays with the reserves, and the output less the fee is minted.
DistributeAndMint(receiver, swapped, minted) ==
    main' = [a \in Account |->
               main[a]
               + (IF a \in Beneficiaries THEN ShareOf(a, swapped) ELSE 0)
               + (IF a = reservesAcc THEN swapped - Distributed(swapped) ELSE 0)
               + (IF a = Market THEN ValPart(swapped) - swapped ELSE 0)
               + (IF a = receiver THEN minted ELSE 0)]

\* BuyMainAsset::swap; the limits of the SwapAmount are not looked at.
BuyMainAsset(sender, receiver, variant, amount, swapped) ==
    LET amounts == DecideBuyAmounts(issuance, variant, amount)
        expected == ReservesExpected(issuance)
        free == FreeAmount(collateral[reservesAcc] + amounts.input, expected)
        minted == amounts.output - FeeFor(amounts.output)
    IN  /\ amounts.input # Err /\ amounts.output # Err /\ expected # Err
        /\ reservesAcc \in RegisteredAccounts \cap permitted
        /\ amounts.input <= collateral[sender]
        /\ IF free = 0 THEN swapped = 0
           ELSE /\ free # Err
                /\ swapped <= main[Market] /\ FromBalance(swapped) # Err
                /\ Distributed(swapped) \in 0 .. (main[reservesAcc] + swapped)
        /\ issuance + minted \in Balance
        /\ DepositInput(sender, amounts.input, free)
        /\ DistributeAndMint(receiver, swapped, minted)
        /\ issuance' = issuance + minted
        /\ UNCHANGED <<reservesAcc, permitted>>

\* Fault: the reserves are taken to be what they should be.
CoveredByExpected(paid) == paid <= ReservesExpected(issuance)

\* The NotEnoughReserves check of sell_main_asset.
CoveredByReserves(paid) == paid <= collateral[reservesAcc]

\* sell_main_asset: the fee stays in the reserves, the input is burned.
SellMainAsset(sender, receiver, variant, amount) ==
    LET amounts == DecideSellAmounts(issuance, variant, amount)
        paid == amounts.output - FeeFor(amounts.output)
    IN  /\ amounts.input # Err /\ amounts.output # Err
        /\ reservesAcc \in RegisteredAccounts \cap permitted
        /\ CoveredByReserves(paid)
        /\ amounts.input <= main[sender]
        /\ collateral' = [collateral EXCEPT ![reservesAcc] = @ - paid, ![receiver] = @ + paid]
        /\ main' = [main EXCEPT ![sender] = @ - amounts.input]
        /\ issuance' = issuance - amounts.input
        /\ UNCHANGED <<reservesAcc, permitted>>

\* exchange; the pool does not exchange with itself.
Exchange(sender, receiver, variant, amount) ==
    /\ exchanges < MaxExchanges
    /\ exchanges' = exchanges + 1
    /\ \/ \E swapped \in Returns : BuyMainAsset(sender, receiver, variant, amount, swapped)
       \/ SellMainAsset(sender, receiver, variant, amount)

Next ==
    \/ \E a \in ReserveAccounts : SetReservesAccountId(a)
    \/ \E sender, receiver \in Users, variant \in Variants, amount \in Amounts :
          Exchange(sender, receiver, variant, amount)

Spec == Init /\ [][Next]_vars

-----------------------------------------------------------------------------
\* Every account holds a balance, the issuance is what all of them hold (mint_to
\* and burn_from change both), the reserves' account is a technical one and only
\* accounts that were set as such may mint.
TypeOK ==
    /\ issuance \in Balance /\ issuance = SumFunction(main)
    /\ main \in [Account -> Nat]
    /\ collateral \in [Account -> Nat]
    /\ reservesAcc \in ReserveAccounts
    /\ permitted \subseteq RegisteredAccounts
    /\ exchanges \in 0 .. MaxExchanges

\* What the pool is short of to buy the whole issuance back: price_for_main_asset
\* of all of it against the reserves.
Deficit == IF ReservesExpected(issuance) > collateral[reservesAcc]
           THEN ReservesExpected(issuance) - collateral[reservesAcc] ELSE 0

\* What the rounding of the curve's quotient is worth at issuance q.
CurveRounding(q) == q \div Unit + 1

\* What the rounding of the root of price_for_collateral_asset is worth.
RootRounding == (Unit + StepTimesRate) \div (2 * SellPriceCoefficient) + 2

\* No exchange leaves the pool shorter of collateral than it was, whatever it
\* distributes and whatever the other source pays it, but for roundings:
\* BuyMainAsset::deposit_input compares reserves that include the input with a
\* price that leaves the output out, and only a free coefficient of at most
\* 1 - sell coefficient makes up for it.
ExchangeKeepsCover ==
    [][reservesAcc' = reservesAcc
         /\ ReservesExpected(issuance) # Err /\ ReservesExpected(issuance') # Err
       => Deficit' <= Deficit + CurveRounding(issuance) + RootRounding]_vars

\* Buying by exchange and selling at once what was minted (sell_main_asset at the
\* issuance the purchase left) pays back no more than the sell coefficient's part
\* of what was put in, but for the rounding of the curve.
NoProfitableRoundTrip ==
    \A paid \in Amounts :
       LET bought == PriceForCollateralAsset(issuance, paid, Buy)
           minted == bought - FeeFor(bought)
       IN  bought # Err =>
             LET back == PriceForMainAsset(issuance + minted, minted, Sell)
             IN  back # Err =>
                   back * Unit <= SellPriceCoefficient * (paid + CurveRounding(issuance))

\* What the roundings of the inverse formulas are worth where they are compared: a
\* price is half the difference of two squares over StepTimesRate, the square of
\* StepRatePrice and the issuance at either end.  Of the curve at issuance n,
CurveSquare(n) == 2 * StepTimesRate * (CurveRounding(n) + 1)
\* of the number under the root when buying,
BuySquare == 3 * Unit + StepTimesRate
\* and when selling, of what is paid and of the term it is taken from.
PaidSquare ==
    (StepTimesRate * Unit * (2 * SellPriceCoefficient + Unit + StepTimesRate))
        \div (SellPriceCoefficient * SellPriceCoefficient) + 1
TermSquare(n) ==
    (2 * SellPriceCoefficient * (n + StepRatePrice) * (Unit + 2 * StepTimesRate)
       + StepTimesRate * StepTimesRate * Unit)
        \div (SellPriceCoefficient * SellPriceCoefficient) + 1

\* So much the inverse may be off: those squares by the sum of their sides.
InverseWhenBuying(q, amount) ==
    LET base == 2 * (q + StepRatePrice)
    IN  (amount - (CurveSquare(q + amount) + BuySquare) \div base - 1)
          .. (amount + CurveSquare(q) \div base)
InverseWhenSelling(q, amount) ==
    LET rest == q - amount + StepRatePrice
        ofRoot == (Unit + StepTimesRate) \div SellPriceCoefficient + 2
    IN  (amount - (CurveSquare(q) + PaidSquare) \div (2 * rest))
          .. (amount + (CurveSquare(q - amount) + TermSquare(q)) \div rest + ofRoot)

\* The two price formulas are inverse to each other but for their roundings: the
\* price of an amount buys that amount, of what exists when selling
\* (price_for_main_asset and price_for_collateral_asset of the same kind).
PricesAreInverse ==
    \A amount \in Amounts, kind \in Kinds :
       LET price == PriceForMainAsset(issuance, amount, kind)
           inverse == PriceForCollateralAsset(issuance, price, kind)
       IN  /\ price # Err /\ inverse # Err
           /\ kind = Sell => amount <= issuance
           => inverse \in IF kind = Buy THEN InverseWhenBuying(issuance, amount)
                          ELSE InverseWhenSelling(issuance, amount)

\* What quote promises for a desired input is what exchange computes for it from
\* the same state, once the pool can exchange: both evaluate price_for_collateral_asset.
QuoteBuysWhatExchangeComputes ==
    reservesAcc \in permitted => \A paid \in Amounts :
       Quote(issuance, SumFunction(collateral), Buy, "input", paid)
         = DecideBuyAmounts(issuance, "input", paid).output
=============================================================================
