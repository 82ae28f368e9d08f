------------------------------ MODULE XykMath ------------------------------
(***************************************************************************)
(* The pure calculations of pallets/pool-xyk: math.rs and the arithmetic   *)
(* inside prepare_and_validate of the three actions.                       *)
(*                                                                         *)
(* Amounts in and out are Balances; every intermediate value is a          *)
(* FixedWrapper.  An operator returns Err where the code returns           *)
(* FixedWrapperCalculationFailed or another error of the calculation.      *)
(***************************************************************************)
EXTENDS FixedWrapper

CONSTANTS
    FeeNum, FeeDen,   \* the fee is FeeNum/FeeDen of an amount: 3/1000
    MinLiquidity,     \* MIN_LIQUIDITY: 1000
    PriceGuard        \* bound on the squared price change of a swap: 100

ASSUME FeeAssumption == FeeNum \in Nat /\ FeeDen \in Nat /\ FeeNum < FeeDen
ASSUME MinLiquidityAssumption == MinLiquidity \in Nat \ {0}
ASSUME PriceGuardAssumption == PriceGuard \in Nat \ {0}

-----------------------------------------------------------------------------
\* get_fee_for_source and get_fee_for_destination compute the same value.
FeeOf(amount) ==
    IF amount = Err THEN Err
    ELSE ToBalance(FxDiv(FxMul(FromBalance(amount), FeeNum * Unit),
                         FeeDen * Unit))

\* Fault: the price ignores the trade itself.
OutputForAtSpotPrice(x, y, part) ==
    ToBalance(FxDiv(part, FxDiv(FromBalance(x), FromBalance(y))))

\* out = part / ((reserveIn + part) / reserveOut), the constant-product output.
OutputFor(x, y, part) ==
    ToBalance(FxDiv(part, FxDiv(FxAdd(FromBalance(x), part), FromBalance(y))))

\* calc_output_for_exact_input: amount is what leaves the pool's reserve; the
\* fee is part of it when it is taken from the destination, and part of the
\* input when it is taken from the source.
CalcOutputForExactInput(feeFromDestination, x, y, xIn) ==
    LET fee == FeeOf(xIn)
        subfee == FxSub(FromBalance(xIn), FromBalance(fee))
        out == OutputFor(x, y, IF feeFromDestination THEN FromBalance(xIn)
                                                     ELSE subfee)
        outFee == FeeOf(out)
    IN  IF feeFromDestination
        THEN IF out = Err \/ outFee = Err THEN Err
             ELSE [amount |-> out, fee |-> outFee]
        ELSE IF fee = Err \/ out = Err THEN Err
             ELSE [amount |-> out, fee |-> fee]

\* The destination branch of calc_input_for_exact_output: yOut is raised by the
\* fee before the price is applied.
InputWithDestinationFee(x, y, yOut) ==
    LET y1 == FxDiv(FromBalance(yOut),
                    FxSub(FromBalance(Unit), FromBalance(FeeOf(Unit))))
        ratio == FxDiv(FxSub(FromBalance(y), y1), y1)
        amount == ToBalance(FxDiv(FromBalance(x), ratio))
        fee == ToBalance(FxSub(y1, FromBalance(yOut)))
    IN  IF amount = Err \/ fee = Err THEN Err
        ELSE [amount |-> amount, fee |-> fee]

\* Fault: the fee is charged but not left out of the price.
InputWithoutFeeInPrice(x, y, yOut) ==
    LET amount == ToBalance(FxDiv(FromBalance(x),
                        FxDiv(FromBalance(WrapSub(y, yOut)), FromBalance(yOut))))
    IN  IF amount = Err THEN Err ELSE [amount |-> amount, fee |-> FeeOf(amount)]

\* The source branch: y - y_out is a bare u128 subtraction, made before the
\* caller compares y_out with the reserve.
InputWithSourceFee(x, y, yOut) ==
    LET rest == WrapSub(y, yOut)
        restFee == FeeOf(rest)
        ratio == FxDiv(FromBalance(rest - restFee), FromBalance(yOut))
        amount == ToBalance(FxDiv(FromBalance(x), ratio))
        fee == FeeOf(amount)
    IN  IF restFee = Err \/ amount = Err \/ fee = Err THEN Err
        ELSE [amount |-> amount, fee |-> fee]

CalcInputForExactOutput(feeFromDestination, x, y, yOut) ==
    IF feeFromDestination THEN InputWithDestinationFee(x, y, yOut)
                          ELSE InputWithSourceFee(x, y, yOut)

\* pool_is_valid_after_op_test: the square of the change of the price x/y.
PriceGuardHolds(x, y, sourceAmount, destinationAmount) ==
    LET before == FxDiv(FromBalance(x), FromBalance(y))
        after == FxDiv(FxAdd(FromBalance(x), FromBalance(sourceAmount)),
                       FxSub(FromBalance(y), FromBalance(destinationAmount)))
        diff == FxSub(after, before)
        square == ToBalance(FxMul(diff, diff))
    IN  square # Err /\ square < PriceGuard * Unit

-----------------------------------------------------------------------------
\* calculate_quote: what amount of b is worth amount of a at the pool's ratio.
CalculateQuote(amount, reserveA, reserveB) ==
    ToBalance(FxDiv(FxMul(FromBalance(amount), FromBalance(reserveB)),
                    FromBalance(reserveA)))

\* Fault: the lowered side is not compared with its minimum.
OptimalDepositWithoutMinimum(ra, rb, aDesired, bDesired, aMin, bMin) ==
    LET aOpt == CalculateQuote(bDesired, rb, ra)
        bOpt == CalculateQuote(aDesired, ra, rb)
    IN  IF aOpt = Err \/ bOpt = Err THEN Err
        ELSE IF bOpt <= bDesired THEN [a |-> aDesired, b |-> bOpt]
                                 ELSE [a |-> aOpt, b |-> bDesired]

\* calculate_optimal_deposit: only one side is lowered, b when that suffices.
CalculateOptimalDeposit(ra, rb, aDesired, bDesired, aMin, bMin) ==
    LET aOpt == CalculateQuote(bDesired, rb, ra)
        bOpt == CalculateQuote(aDesired, ra, rb)
    IN  IF aOpt = Err \/ bOpt = Err THEN Err
        ELSE IF bOpt <= bDesired
        THEN IF bOpt >= bMin THEN [a |-> aDesired, b |-> bOpt] ELSE Err
        ELSE IF aOpt >= aMin /\ aOpt <= aDesired
             THEN [a |-> aOpt, b |-> bDesired] ELSE Err

\* Fault: deposits value the supply as withdrawals do.
MarkerForPaddedSupply(amount, reserve, totalSupply) ==
    ToBalance(FxDiv(FromBalance(amount),
                    FxDiv(FromBalance(reserve), FromBalance(totalSupply + MinLiquidity))))

\* Marker tokens for one side of a deposit: amount / (reserve / totalSupply).
\* The supply is the real issuance, without the MIN_LIQUIDITY withdrawals add.
MarkerFor(amount, reserve, totalSupply) ==
    ToBalance(FxDiv(FromBalance(amount),
                    FxDiv(FromBalance(reserve), FromBalance(totalSupply))))

\* Fault: the larger of the two sides is minted.
DepositLiquidityOfLargerSide(totalSupply, ra, rb, aDesired, bDesired, aMin, bMin) ==
    LET opt == CalculateOptimalDeposit(ra, rb, aDesired, bDesired, aMin, bMin)
        lhs == MarkerFor(opt.a, ra, totalSupply)
        rhs == MarkerFor(opt.b, rb, totalSupply)
    IN  IF opt = Err THEN Err
        ELSE IF lhs = Err \/ rhs = Err THEN Err
        ELSE [a |-> opt.a, b |-> opt.b, marker |-> IF lhs <= rhs THEN rhs ELSE lhs]

\* calc_deposit_liquidity_1: the smaller of the two sides is minted.
CalcDepositLiquidity(totalSupply, ra, rb, aDesired, bDesired, aMin, bMin) ==
    LET opt == CalculateOptimalDeposit(ra, rb, aDesired, bDesired, aMin, bMin)
        lhs == MarkerFor(opt.a, ra, totalSupply)
        rhs == MarkerFor(opt.b, rb, totalSupply)
    IN  IF opt = Err THEN Err
        ELSE IF lhs = Err \/ rhs = Err THEN Err
        ELSE [a |-> opt.a, b |-> opt.b,
              marker |-> IF lhs <= rhs THEN lhs ELSE rhs]

\* pool_k of a pair of amounts, by which an empty pool values a first deposit.
PoolK(a, b) == ToBalance(MultiplyAndSqrt(FromBalance(a), FromBalance(b)))

\* Fault: the supply is not padded with MIN_LIQUIDITY.
WithdrawShareOfIssuance(reserve, k, issuance) ==
    ToBalance(FxDiv(FxMul(FromBalance(reserve), FromBalance(k)), FromBalance(issuance)))

\* Fault: the supply is read after the tokens were burned.
WithdrawShareAfterBurn(reserve, k, issuance) ==
    ToBalance(FxDiv(FxMul(FromBalance(reserve), FromBalance(k)),
                    FxAdd(FromBalance(issuance - k), MinLiquidity)))

\* One side of a withdrawal: reserve * k / (issuance + MIN_LIQUIDITY), with a
\* rounding after the product and another after the quotient.
WithdrawShare(reserve, k, issuance) ==
    ToBalance(FxDiv(FxMul(FromBalance(reserve), FromBalance(k)),
                    FxAdd(FromBalance(issuance), MinLiquidity)))

-----------------------------------------------------------------------------
(* What the calculations promise, for any reserves x and y, supply t and   *)
(* amounts; the runs check them over ranges, the proofs for every input.   *)

\* What reaches the reserves of an exact-input swap: all of the input, or the
\* input without the fee taken from the source.
PaidIn(feeFromDestination, xIn, fee) ==
    IF feeFromDestination THEN xIn ELSE xIn - fee

\* A swap with an exact input lowers the product of the reserves by at most
\* y * amount / Unit, the error of the inner division of calc_output.
ExactInputLoss(feeFromDestination, x, y, xIn) ==
    LET r == CalcOutputForExactInput(feeFromDestination, x, y, xIn)
    IN  r # Err =>
          LET x2 == x + PaidIn(feeFromDestination, xIn, r.fee)
          IN  Unit * (x * y - x2 * (y - r.amount)) <= y * r.amount

\* A swap with an exact output charges at most one unit of the input less than
\* the constant product asks for what leaves the reserve: the divisions of
\* calc_input round down, in the trader's favour.
ExactOutputLoss(feeFromDestination, x, y, yOut) ==
    LET r == CalcInputForExactOutput(feeFromDestination, x, y, yOut)
    IN  r # Err =>
          /\ yOut < y
          /\ LET priced == IF feeFromDestination THEN yOut + r.fee ELSE yOut
                 left == IF feeFromDestination THEN y - priced
                         ELSE (y - yOut) - FeeOf(y - yOut)
             IN  (r.amount + 1) * left > x * priced

\* A deposit takes no more of either asset than was desired and no less than
\* the minimums, whichever side calculate_optimal_deposit lowers.
DepositWithinRange(ra, rb, aDesired, bDesired, aMin, bMin) ==
    LET opt == CalculateOptimalDeposit(ra, rb, aDesired, bDesired, aMin, bMin)
    IN  opt # Err /\ aMin <= aDesired /\ bMin <= bDesired
        => opt.a \in aMin .. aDesired /\ opt.b \in bMin .. bDesired

\* The marker tokens of one side of a deposit are at most the depositor's share
\* of the supply, but for the rounding of reserve / supply.
MarkerIsAtMostShare(amount, reserve, t) ==
    LET m == MarkerFor(amount, reserve, t)
    IN  m # Err => m * (reserve * Unit - t) <= amount * t * Unit

\* A withdrawal pays at most the share k / (t + MIN_LIQUIDITY) of a reserve.
WithdrawIsAtMostShare(reserve, k, t) ==
    LET out == WithdrawShare(reserve, k, t)
    IN  out # Err => out * (t + MinLiquidity) <= reserve * k

\* What an account gains of asset a by a deposit whose tokens it redeems at once.
RoundTripGain(ra, rb, t, aDesired, bDesired) ==
    LET dep == CalcDepositLiquidity(t, ra, rb, aDesired, bDesired, 0, 0)
        back == WithdrawShare(ra + dep.a, dep.marker, t + dep.marker)
    IN  IF dep = Err THEN 0
        ELSE IF back = Err THEN 0 ELSE back - dep.a

\* The round trip never returns more of an asset than was put in as long as the
\* MIN_LIQUIDITY that withdrawals add to the supply outweighs what a deposit's
\* rounding of reserve / supply gives: t * (t + MIN) <= MIN * Unit * ra.
RoundTripIsNoGain(ra, rb, t, aDesired, bDesired) ==
    t * (t + MinLiquidity) <= MinLiquidity * Unit * ra
        => RoundTripGain(ra, rb, t, aDesired, bDesired) <= 0
=============================================================================
