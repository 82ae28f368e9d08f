----------------------------- MODULE MockSource -----------------------------
(***************************************************************************)
(* The quotes of pallets/mock-liquidity-source, the constant-product       *)
(* source that the tests and benchmarks of the proxy and of dex-api trade  *)
(* with.  Its exchange is its quote and moves nothing.  A reserve is a     *)
(* pair of Fixed, x of the base asset and y of the target; an outcome is   *)
(* Err where a calculation or a check of the code fails.                   *)
(***************************************************************************)
EXTENDS FixedWrapper

CONSTANT Fee   \* GetFee, a Fixed

Outcome(amount, fee) ==
    IF amount = Err \/ fee = Err THEN Err ELSE [amount |-> amount, fee |-> fee]

\* The checks every calculation begins with.
CanCompute(amount, x, y) == amount # Err /\ amount > 0 /\ x > 0 /\ y > 0

\* Fault: the price ignores the trade itself.
OutputForAtSpotPrice(amount, in, out) == FxDiv(FxMul(amount, out), in)

\* amount * out / (in + amount), the output of a constant product.
OutputFor(amount, in, out) == FxDiv(FxMul(amount, out), FxAdd(in, amount))

\* in * amount / (out - amount): negative when the reserve is not enough.
InputFor(amount, in, out) == FxDiv(FxMul(in, amount), FxSub(out, amount))

\* get_base_amount_out: the fee is taken of the output.
BaseAmountOut(amount, x, y) ==
    LET out == OutputFor(amount, y, x)
    IN  IF ~CanCompute(amount, x, y) THEN Err
        ELSE Outcome(FxSub(out, FxMul(out, Fee)), FxMul(out, Fee))

\* get_target_amount_out: the fee is taken of the input.
TargetAmountOut(amount, x, y) ==
    IF ~CanCompute(amount, x, y) THEN Err
    ELSE LET fee == FxMul(amount, Fee)
         IN  Outcome(OutputFor(FxSub(amount, fee), x, y), fee)

\* The correction of an input that buys less than desired: one bit more.
Corrected(amount, forward, desired) ==
    IF forward.amount < desired THEN FxAdd(amount, 1) ELSE amount

\* get_base_amount_in
BaseAmountIn(amount, x, y) ==
    LET withFee == FxDiv(InputFor(amount, x, y), Unit - Fee)
        forward == TargetAmountOut(withFee, x, y)
    IN  IF ~CanCompute(amount, x, y) \/ forward = Err THEN Err
        ELSE Outcome(Corrected(withFee, forward, amount),
                     FxSub(withFee, InputFor(amount, x, y)))

\* get_target_amount_in
TargetAmountIn(amount, x, y) ==
    LET withFee == FxDiv(amount, Unit - Fee)
        in == InputFor(withFee, y, x)
        forward == BaseAmountOut(in, x, y)
    IN  IF ~CanCompute(amount, x, y) \/ forward = Err THEN Err
        ELSE Outcome(Corrected(in, forward, amount), FxSub(withFee, amount))

\* The amount of an outcome, for the calculation that goes on with it.
AmountOf(outcome) == IF outcome = Err THEN Err ELSE outcome.amount

\* The outcome of two calculations: the amount of the last, the fees of both.
Then(first, last) ==
    IF first = Err \/ last = Err THEN Err
    ELSE Outcome(last.amount, FxAdd(first.fee, last.fee))

\* quote, for reserves of the input asset and of the output asset; none stands
\* for the base asset, which has no reserves of its own.
Quote(in, out, none, byInput, amount) ==
    CASE in = none /\ byInput -> TargetAmountOut(amount, out.x, out.y)
      [] in = none /\ ~byInput -> BaseAmountIn(amount, out.x, out.y)
      [] in # none /\ out = none /\ byInput -> BaseAmountOut(amount, in.x, in.y)
      [] in # none /\ out = none /\ ~byInput -> TargetAmountIn(amount, in.x, in.y)
      [] in # none /\ out # none /\ byInput ->
            LET sold == BaseAmountOut(amount, in.x, in.y)
            IN  Then(sold, TargetAmountOut(AmountOf(sold), out.x, out.y))
      [] OTHER ->
            LET bought == BaseAmountIn(amount, out.x, out.y)
            IN  Then(bought, TargetAmountIn(AmountOf(bought), in.x, in.y))

-----------------------------------------------------------------------------
(* What the quotes promise.                                                *)

\* The trade a quote describes would leave the product of the reserves no smaller
\* than it was, but for the rounding down of an input.
KeepsProduct(in, out, paid, got, byInput) ==
    (in + paid) * (out - got)
       >= in * out - (IF byInput THEN 0 ELSE (out - got) + Unit)

\* No quote promises what the reserves do not have or undercuts the constant
\* product, in either direction and for either kind of amount.
QuoteKeepsProduct(x, y, amount) ==
    LET none == [x |-> 0, y |-> 0]
        pool == [x |-> x, y |-> y]
    IN  \A byInput \in BOOLEAN :
          LET sold == Quote(none, pool, none, byInput, amount)
              bought == Quote(pool, none, none, byInput, amount)
              paid(q) == IF byInput THEN amount ELSE q.amount
              got(q) == IF byInput THEN q.amount ELSE amount
          IN  /\ sold # Err => got(sold) < y /\ KeepsProduct(x, y, paid(sold), got(sold), byInput)
              /\ bought # Err => got(bought) < x /\ KeepsProduct(y, x, paid(bought), got(bought), byInput)

\* A path through the base asset between two sources with equal reserves leads
\* back to where it began: no quote of it promises more than goes in.
PathIsNoGain(x, y, amount) ==
    LET pool == [x |-> x, y |-> y]
        path == Quote(pool, pool, [x |-> 0, y |-> 0], TRUE, amount)
    IN  path # Err => path.amount <= amount
=============================================================================
