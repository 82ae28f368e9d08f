----------------------------- MODULE TradePath -----------------------------
(***************************************************************************)
(* A trade between two assets neither of which is the base asset, through  *)
(* one pool of pool-xyk for each of its two swaps.                         *)
(*                                                                         *)
(* A desired output is quoted backwards, the second swap before the first, *)
(* and then exchanged forwards: the sender sells what the first quote asks *)
(* for, and both swaps run by input with no minimum.  Nothing compares     *)
(* what the receiver gets with the output that was desired.                *)
(***************************************************************************)
EXTENDS XykMath

CONSTANTS
    QuoteFunds,   \* what quote lends its account for the trial, a Balance: 999999999
    ProbeAmount   \* what can_exchange tries to swap, a positive one: 0.000000001

-----------------------------------------------------------------------------
\* What leaves the sender, what leaves the pool, and the fee.
TermsOf(calc, byInput, amount) ==
    [source |-> IF byInput THEN amount ELSE calc.amount,
     destination |-> IF byInput THEN calc.amount ELSE amount,
     fee |-> calc.fee]

\* The checks of the pool and of the transfers: an amount less than the fee that is
\* taken from it wraps to one that nobody can pay.
Acceptable(terms, toBase, x, y) ==
    /\ terms.destination <= y
    /\ PriceGuardHolds(x, y, terms.source, terms.destination)
    /\ terms.fee <= (IF toBase THEN terms.destination ELSE terms.source)

\* pool_xyk::exchange at these terms by an account with these funds: the amount of
\* its SwapOutcome, without the fee where that is taken from a calculated output.
OutcomeOf(terms, toBase, byInput, x, y, funds) ==
    IF ~Acceptable(terms, toBase, x, y) \/ terms.source > funds THEN Err
    ELSE IF ~byInput THEN terms.source
    ELSE IF toBase THEN terms.destination - terms.fee ELSE terms.destination

OutcomeFor(calc, toBase, byInput, x, y, amount, funds) ==
    IF calc = Err THEN Err
    ELSE OutcomeOf(TermsOf(calc, byInput, amount), toBase, byInput, x, y, funds)

\* A swap with the pool of reserves x and y.  The fee is in base: of the destination
\* when the swap is to the base asset.
Outcome(toBase, byInput, x, y, amount, funds) ==
    IF x = 0 \/ y = 0 \/ amount = 0 THEN Err
    ELSE OutcomeFor(IF byInput THEN CalcOutputForExactInput(toBase, x, y, amount)
                               ELSE CalcInputForExactOutput(toBase, x, y, amount),
                    toBase, byInput, x, y, amount, funds)

\* can_exchange: a small trial swap, rolled back.
CanExchange(toBase, x, y) ==
    Outcome(toBase, TRUE, x, y, ProbeAmount, QuoteFunds) # Err

\* pool_xyk::quote: an exchange of borrowed funds, rolled back.
PoolQuote(toBase, byInput, x, y, amount) ==
    Outcome(toBase, byInput, x, y, amount, QuoteFunds)

\* quote_single with the pool as the only source that can exchange the pair.
QuoteSingle(toBase, byInput, x, y, amount) ==
    IF amount # Err /\ CanExchange(toBase, x, y)
    THEN PoolQuote(toBase, byInput, x, y, amount) ELSE Err

\* exchange_single with the pool as the only source: all of the trade is its
\* share, once it has been quoted.
ExchangeSingle(toBase, x, y, amount, funds) ==
    IF QuoteSingle(toBase, TRUE, x, y, amount) = Err THEN Err
    ELSE Outcome(toBase, TRUE, x, y, amount, funds)

-----------------------------------------------------------------------------
\* A path: the reserves of the pool that sells the input for base, x1 and y1,
\* and of the pool that sells base for the output, x2 and y2.
FirstQuote(byInput, path, amount) == QuoteSingle(TRUE, byInput, path.x1, path.y1, amount)
SecondQuote(byInput, path, amount) == QuoteSingle(FALSE, byInput, path.x2, path.y2, amount)
FirstSwap(path, amount, funds) == ExchangeSingle(TRUE, path.x1, path.y1, amount, funds)

\* The transit account sells all that the first swap has brought it.
SecondSwap(path, amount) == ExchangeSingle(FALSE, path.x2, path.y2, amount, amount)

\* Fault: a desired output is quoted in the order of the swaps.
QuoteForwards(byInput, path, amount) ==
    SecondQuote(byInput, path, FirstQuote(byInput, path, amount))

\* quote: of a desired input what it brings, of a desired output what it costs,
\* with the quote of one swap as the amount of the other.
Quote(byInput, path, amount) ==
    IF byInput THEN SecondQuote(TRUE, path, FirstQuote(TRUE, path, amount))
               ELSE FirstQuote(FALSE, path, SecondQuote(FALSE, path, amount))

\* Both swaps of a path by input.
Sell(path, amount, funds) == SecondSwap(path, FirstSwap(path, amount, funds))

SellWithin(path, quoted, maxAmountIn, funds) ==
    IF quoted = Err THEN Err
    ELSE IF quoted > maxAmountIn THEN Err
    ELSE Sell(path, quoted, funds)

\* exchange of a desired output within max_amount_in: what the receiver gets.
Buy(path, desired, maxAmountIn, funds) ==
    SellWithin(path, Quote(FALSE, path, desired), maxAmountIn, funds)

-----------------------------------------------------------------------------
(* What a path promises.                                                   *)

\* The least base that is sure to buy what the second swap was quoted at q for: one
\* unit for the rounding of the quote, and what the rounding of the fee is worth
\* that calc_input takes off the pool's rest, more base the less there is left.
BaseWithSlack(q, rest) ==
    q + 2 + ((q + 1) * (FeeDen - 1)) \div ((FeeDen - FeeNum) * rest)

\* With one more unit of input the first swap brings all the base that the second
\* was quoted for.
FirstSwapSuffices(path, quoted, second) ==
    LET first == FirstSwap(path, quoted + 1, QuoteFunds)
    IN  first # Err => first >= second

\* With that slack of base the second swap brings all of the desired output.
SecondSwapSuffices(path, desired, second) ==
    LET brought == SecondSwap(path, BaseWithSlack(second, path.y2 - desired))
    IN  brought # Err => brought >= desired

\* What is bought is what a quote of the input says, and no more is missing of the
\* desired output than those roundings of the two quotes cost.
IsShortByRounding(path, desired, quoted, bought) ==
    quoted # Err /\ bought # Err =>
        LET second == SecondQuote(FALSE, path, desired)
        IN  /\ bought = Quote(TRUE, path, quoted)
            /\ FirstSwapSuffices(path, quoted, second)
            /\ SecondSwapSuffices(path, desired, second)

BuyIsShortByRounding(path, desired) ==
    IsShortByRounding(path, desired, Quote(FALSE, path, desired),
                      Buy(path, desired, QuoteFunds, QuoteFunds))
=============================================================================
