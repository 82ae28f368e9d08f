--------------------------- MODULE XykMathProofs ---------------------------
(***************************************************************************)
(* What the calculations of XykMath promise, for every width, unit, fee    *)
(* and MIN_LIQUIDITY.  The first lemmas say what the fixed-point           *)
(* operations return when they do not fail; each theorem then multiplies   *)
(* the rounding bounds of its divisions together.                          *)
(***************************************************************************)
EXTENDS XykMath, TotalsProofs

FixedOrErr == Fixed \cup {Err}
NatOrErr == Nat \cup {Err}

\* The range of Fixed: a symmetric interval of integers around zero.
LEMMA FixedFacts ==
  /\ FixedMax \in Nat
  /\ Fixed \subseteq Int
  /\ 2 * FixedMax < Modulus
  /\ Unit \in Nat /\ Unit > 0
  BY UnitAssumption, ModulusAssumption DEF FixedMax, Fixed, Signed

\* A checked result is the value itself or an error.
LEMMA CheckedFacts ==
  ASSUME NEW v \in Int
  PROVE  /\ Checked(v) \in FixedOrErr
         /\ Checked(v) # Err => Checked(v) = v /\ v \in Fixed
  BY ErrAssumption, FixedFacts DEF Checked, Fixed, FixedOrErr

\* A natural number converts to itself unless it exceeds the largest Fixed.
LEMMA FromBalanceFacts ==
  ASSUME NEW b \in NatOrErr
  PROVE  /\ FromBalance(b) \in FixedOrErr
         /\ FromBalance(b) # Err =>
               FromBalance(b) = b /\ b \in Nat /\ b \in Fixed
  <1>1. CASE b = Err
    BY <1>1, ErrAssumption, FixedFacts DEF FromBalance, Checked, Fixed, FixedOrErr
  <1>2. CASE b \in Nat
    BY <1>2, CheckedFacts DEF FromBalance
  <1>3. QED  BY <1>1, <1>2 DEF NatOrErr

\* A result that converts back to a Balance was a nonnegative value.
LEMMA ToBalanceFacts ==
  ASSUME NEW f \in FixedOrErr
  PROVE  /\ ToBalance(f) \in NatOrErr
         /\ ToBalance(f) # Err =>
               ToBalance(f) = f /\ f \in Nat /\ f <= FixedMax
  BY ErrAssumption, FixedFacts DEF ToBalance, FixedOrErr, NatOrErr, Fixed, FixedMax, Signed

\* Sums and differences that do not fail are exact.
LEMMA AddSubFacts ==
  ASSUME NEW f \in FixedOrErr, NEW g \in FixedOrErr
  PROVE  /\ FxAdd(f, g) \in FixedOrErr
         /\ FxAdd(f, g) # Err =>
               f # Err /\ g # Err /\ FxAdd(f, g) = f + g
         /\ FxSub(f, g) \in FixedOrErr
         /\ FxSub(f, g) # Err =>
               f # Err /\ g # Err /\ FxSub(f, g) = f - g
  <1>1. CASE f = Err \/ g = Err
    BY <1>1 DEF FxAdd, FxSub, FixedOrErr
  <1>2. CASE f # Err /\ g # Err
    <2>1. f \in Int /\ g \in Int
      BY <1>2, FixedFacts DEF FixedOrErr
    <2>2. f + g \in Int /\ f - g \in Int
      BY <2>1
    <2>3. FxAdd(f, g) = Checked(f + g) /\ FxSub(f, g) = Checked(f - g)
      BY <1>2 DEF FxAdd, FxSub
    <2>4. QED  BY <1>2, <2>2, <2>3, CheckedFacts
  <1>3. QED  BY <1>1, <1>2

\* Products that do not fail are rounded down; Err or a Fixed in any case.
LEMMA MulFacts ==
  ASSUME NEW f \in FixedOrErr, NEW g \in Int \cup {Err}
  PROVE  /\ FxMul(f, g) \in FixedOrErr
         /\ FxMul(f, g) # Err =>
               f # Err /\ g # Err /\ FxMul(f, g) = (f * g) \div Unit
  <1>1. CASE f = Err \/ g = Err
    BY <1>1 DEF FxMul, FixedOrErr
  <1>2. CASE f # Err /\ g # Err
    <2>1. f \in Int /\ g \in Int
      BY <1>2, FixedFacts DEF FixedOrErr
    <2>2. (f * g) \div Unit \in Int
      BY <2>1, FixedFacts, DivBounds
    <2>3. FxMul(f, g) = Checked((f * g) \div Unit)
      BY <1>2 DEF FxMul
    <2>4. QED  BY <1>2, <2>2, <2>3, CheckedFacts
  <1>3. QED  BY <1>1, <1>2

\* Quotients that do not fail have a nonzero divisor.
LEMMA DivTypeFacts ==
  ASSUME NEW f \in FixedOrErr, NEW g \in Int \cup {Err}
  PROVE  /\ FxDiv(f, g) \in FixedOrErr
         /\ FxDiv(f, g) # Err =>
               f # Err /\ g # Err /\ g # 0 /\ FxDiv(f, g) = FloorDiv(f * Unit, g)
  <1>1. CASE f = Err \/ g = Err \/ g = 0
    BY <1>1 DEF FxDiv, FixedOrErr
  <1>2. CASE f # Err /\ g # Err /\ g # 0
    <2>1. f \in Int /\ g \in Int /\ f * Unit \in Int
      BY <1>2, FixedFacts DEF FixedOrErr
    <2>2. CASE g > 0
      BY <1>2, <2>1, <2>2, DivBounds, CheckedFacts DEF FxDiv, FloorDiv
    <2>3. CASE g < 0
      <3>1. -g > 0 /\ -(f * Unit) \in Int /\ ~(g > 0)
        BY <2>1, <2>3
      <3>2. (-(f * Unit)) \div (-g) \in Int
        BY <2>1, <3>1, DivBounds
      <3>3. QED  BY <1>2, <3>1, <3>2, CheckedFacts DEF FxDiv, FloorDiv
    <2>4. QED  BY <1>2, <2>1, <2>2, <2>3
  <1>3. QED  BY <1>1, <1>2

\* A quotient of a nonnegative value by a positive one is rounded down.
LEMMA DivFacts ==
  ASSUME NEW f \in FixedOrErr, NEW g \in Int \cup {Err}, FxDiv(f, g) # Err,
         f >= 0, g > 0
  PROVE  /\ FxDiv(f, g) \in Nat
         /\ FxDiv(f, g) * g <= f * Unit
         /\ f * Unit < (FxDiv(f, g) + 1) * g
  <1>1. f \in Nat /\ g \in Nat /\ f * Unit \in Nat
    BY DivTypeFacts, FixedFacts DEF FixedOrErr
  <1>2. FxDiv(f, g) = (f * Unit) \div g
    BY DivTypeFacts DEF FloorDiv
  <1>3. QED  BY <1>1, <1>2, DivBounds, DivNat

-----------------------------------------------------------------------------
(* The calculations of math.rs.                                            *)

\* A fee is an amount of its own: the exact fraction rounded down, so never
\* more than what it is charged on.
LEMMA FeeFacts ==
  ASSUME NEW amount \in NatOrErr
  PROVE  /\ FeeOf(amount) \in NatOrErr
         /\ FeeOf(amount) # Err =>
               /\ amount \in Nat
               /\ FeeOf(amount) * FeeDen <= amount * FeeNum
               /\ FeeOf(amount) <= amount
               /\ amount > 0 => FeeOf(amount) < amount
  <1> DEFINE f == FromBalance(amount)
             p == FxMul(f, FeeNum * Unit)
             q == FxDiv(p, FeeDen * Unit)
  <1>1. FeeNum * Unit \in Nat /\ FeeDen * Unit \in Nat /\ FeeDen * Unit > 0
        /\ FeeNum \in Nat /\ FeeDen \in Nat /\ FeeNum < FeeDen
    BY FeeAssumption, FixedFacts
  <1>2. f \in FixedOrErr /\ (f # Err => f = amount /\ amount \in Nat)
    BY FromBalanceFacts
  <1>3. p \in FixedOrErr /\ (p # Err => f # Err /\ p = (f * (FeeNum * Unit)) \div Unit)
    BY <1>1, <1>2, MulFacts
  <1>4. q \in FixedOrErr /\ (q # Err => p # Err)
    BY <1>1, <1>3, DivTypeFacts
  <1>5. FeeOf(amount) \in NatOrErr
    <2>1. CASE amount = Err
      BY <2>1 DEF FeeOf, NatOrErr
    <2>2. CASE amount # Err
      BY <2>2, <1>4, ToBalanceFacts DEF FeeOf
    <2>3. QED  BY <2>1, <2>2
  <1>6. ASSUME FeeOf(amount) # Err
        PROVE  /\ amount \in Nat
               /\ FeeOf(amount) * FeeDen <= amount * FeeNum
    <2>1. FeeOf(amount) = ToBalance(q)
      BY <1>6 DEF FeeOf
    <2>2. FeeOf(amount) = q /\ q # Err
      BY <1>6, <2>1, <1>4, ToBalanceFacts, ErrAssumption DEF ToBalance
    <2>3. f = amount /\ amount \in Nat
      BY <2>2, <1>2, <1>3, <1>4
    <2>4. p * Unit <= amount * FeeNum * Unit /\ p \in Nat
      <3>1. amount * (FeeNum * Unit) \in Nat
        BY <1>1, <2>3
      <3>2. p = (amount * (FeeNum * Unit)) \div Unit
        BY <2>2, <1>3, <1>4, <2>3
      <3>3. QED  BY <3>1, <3>2, DivBounds, DivNat, FixedFacts, <1>1, <2>3
    <2>5. q * (FeeDen * Unit) <= p * Unit /\ q \in Nat
      BY <1>1, <1>3, <2>2, <2>4, DivFacts
    <2>6. (q * FeeDen) * Unit < (amount * FeeNum + 1) * Unit
      BY <2>3, <2>4, <2>5, <1>1, FixedFacts
    <2>7. q * FeeDen < amount * FeeNum + 1
      BY <2>3, <2>5, <2>6, <1>1, FixedFacts, CancelFactor
    <2>8. QED  BY <2>2, <2>3, <2>5, <2>7, <1>1
  <1>7. ASSUME NEW a \in Nat, NEW e \in Nat, e * FeeDen <= a * FeeNum
        PROVE  e <= a /\ (a > 0 => e < a)
    <2>1. CASE a = 0
      <3>1. e * FeeDen <= 0
        BY <1>7, <2>1, <1>1
      <3>2. e = 0
        BY <3>1, <1>1
      <3>3. QED  BY <3>2, <2>1
    <2>2. CASE a > 0
      <3>1. a * FeeNum < a * FeeDen
        BY <2>2, <1>1
      <3>2. e * FeeDen < a * FeeDen
        BY <3>1, <1>1, <1>7
      <3>3. QED  BY <3>2, <1>1, CancelFactor
    <2>3. QED  BY <2>1, <2>2
  <1>8. QED  BY <1>5, <1>6, <1>7 DEF NatOrErr

\* The output of the constant product: the price is rounded down by the inner
\* division, so the output exceeds its exact value by at most y * out / Unit.
LEMMA OutputFacts ==
  ASSUME NEW x \in Nat, NEW y \in Nat, NEW part \in FixedOrErr,
         part # Err => part >= 0
  PROVE  /\ OutputFor(x, y, part) \in NatOrErr
         /\ OutputFor(x, y, part) # Err =>
               LET out == OutputFor(x, y, part)
               IN  /\ part \in Nat
                   /\ Unit * (x * y - (x + part) * (y - out)) <= y * out
  <1> DEFINE fx == FromBalance(x)
             fy == FromBalance(y)
             s == FxAdd(fx, part)
             q == FxDiv(s, fy)
             o == FxDiv(part, q)
  <1>1. /\ fx \in FixedOrErr /\ fy \in FixedOrErr
        /\ fx # Err => fx = x
        /\ fy # Err => fy = y
    BY FromBalanceFacts DEF NatOrErr
  <1>2. s \in FixedOrErr /\ (s # Err => fx # Err /\ part # Err /\ s = fx + part)
    BY <1>1, AddSubFacts
  <1>3. q \in FixedOrErr /\ (q # Err => s # Err /\ fy # Err /\ fy # 0)
    BY <1>1, <1>2, DivTypeFacts, FixedFacts DEF FixedOrErr
  <1>4. o \in FixedOrErr /\ (o # Err => part # Err /\ q # Err /\ q # 0)
    BY <1>3, DivTypeFacts, FixedFacts DEF FixedOrErr
  <1>5. OutputFor(x, y, part) \in NatOrErr
        /\ (OutputFor(x, y, part) # Err => OutputFor(x, y, part) = o /\ o # Err)
    BY <1>4, ToBalanceFacts, ErrAssumption DEF OutputFor, ToBalance
  <1>6. ASSUME o # Err
        PROVE  /\ part \in Nat
               /\ Unit * (x * y - (x + part) * (y - o)) <= y * o
    <2>1. /\ part \in Nat /\ s = x + part /\ s >= 0
          /\ fy = y /\ y > 0
      BY <1>6, <1>1, <1>2, <1>3, <1>4, FixedFacts DEF FixedOrErr
    <2>2. q \in Nat /\ s * Unit < (q + 1) * y
      BY <1>2, <1>3, <1>4, <1>6, <2>1, DivFacts
    <2>3. q > 0
      BY <2>2, <1>4, <1>6
    <2>4. o \in Nat /\ o * q <= part * Unit
      BY <1>6, <2>1, <2>2, <2>3, DivFacts
    <2>5. (s * Unit) * o <= ((q + 1) * y) * o
      BY <2>1, <2>2, <2>4, FixedFacts
    <2>6. (o * q) * y <= (part * Unit) * y
      BY <2>1, <2>2, <2>4, FixedFacts
    <2>7. ((q + 1) * y) * o = (o * q) * y + y * o
      BY <2>2, <2>4
    <2>8. Unit * (x * y - (x + part) * (y - o)) =
              (s * Unit) * o - (part * Unit) * y
      BY <2>1, <2>4, FixedFacts
    <2>9. /\ (s * Unit) * o \in Int /\ (part * Unit) * y \in Int
          /\ (o * q) * y \in Int /\ y * o \in Int
      BY <2>1, <2>2, <2>4, FixedFacts
    <2>10. QED  BY <2>1, <2>5, <2>6, <2>7, <2>8, <2>9
  <1>7. QED  BY <1>5, <1>6

\* calc_output_for_exact_input, for every pool, amount and side of the fee: the
\* swap lowers the product of the reserves by at most y * amount / Unit.
THEOREM ExactInputKeepsProduct ==
  ASSUME NEW x \in Nat, NEW y \in Nat, NEW xIn \in Nat,
         NEW feeFromDestination \in BOOLEAN
  PROVE  ExactInputLoss(feeFromDestination, x, y, xIn)
  <1> DEFINE r == CalcOutputForExactInput(feeFromDestination, x, y, xIn)
             fee == FeeOf(xIn)
             fIn == FromBalance(xIn)
             subfee == FxSub(fIn, FromBalance(fee))
  <1>1. fIn \in FixedOrErr /\ (fIn # Err => fIn = xIn)
    BY FromBalanceFacts DEF NatOrErr
  <1>2. CASE feeFromDestination
    <2> DEFINE out == OutputFor(x, y, fIn)
    <2>1. r = IF out = Err \/ FeeOf(out) = Err THEN Err
              ELSE [amount |-> out, fee |-> FeeOf(out)]
      BY <1>2 DEF CalcOutputForExactInput
    <2>2. out # Err => Unit * (x * y - (x + fIn) * (y - out)) <= y * out /\ fIn \in Nat
      BY <1>1, OutputFacts
    <2>3. r # Err => out # Err /\ r.amount = out
      BY <2>1
    <2>4. r # Err => fIn = xIn
      BY <1>1, <2>2, <2>3, ErrAssumption
    <2>5. QED  BY <1>2, <2>2, <2>3, <2>4 DEF ExactInputLoss, PaidIn
  <1>3. CASE ~feeFromDestination
    <2> DEFINE out == OutputFor(x, y, subfee)
    <2>1. r = IF fee = Err \/ out = Err THEN Err ELSE [amount |-> out, fee |-> fee]
      BY <1>3 DEF CalcOutputForExactInput
    <2>2. fee \in NatOrErr /\ (fee # Err => fee <= xIn)
      BY FeeFacts DEF NatOrErr
    <2>3. FromBalance(fee) \in FixedOrErr
          /\ (FromBalance(fee) # Err => FromBalance(fee) = fee /\ fee # Err)
      BY <2>2, FromBalanceFacts, ErrAssumption
    <2>4. subfee \in FixedOrErr /\ (subfee # Err => subfee = xIn - fee /\ subfee >= 0)
      BY <1>1, <2>2, <2>3, AddSubFacts DEF NatOrErr
    <2>5. out # Err => Unit * (x * y - (x + subfee) * (y - out)) <= y * out
                       /\ subfee \in Nat
      BY <2>4, OutputFacts
    <2>6. r # Err => out # Err /\ r.amount = out /\ r.fee = fee
      BY <2>1
    <2>7. r # Err => subfee = xIn - fee
      BY <2>4, <2>5, <2>6, ErrAssumption
    <2>8. QED  BY <1>3, <2>5, <2>6, <2>7 DEF ExactInputLoss, PaidIn
  <1>4. QED  BY <1>2, <1>3

\* An exact output whose fee is taken from the source: a y_out above the reserve
\* makes y - y_out wrap, and either the wrapped rest or y_out is then too large
\* for a Fixed, so the wrapped value never prices a swap.
LEMMA WrappedRestFails ==
  ASSUME NEW y \in Balance, NEW yOut \in Balance,
         FromBalance(yOut) # Err, FeeOf(WrapSub(y, yOut)) # Err
  PROVE  /\ yOut <= y
         /\ WrapSub(y, yOut) = y - yOut
  <1>1. y \in Nat /\ yOut \in Nat /\ y < Modulus /\ yOut < Modulus /\ Modulus \in Nat
    BY ModulusAssumption DEF Balance
  <1>2. yOut <= FixedMax
    BY <1>1, FromBalanceFacts DEF NatOrErr, Fixed, Signed, FixedMax
  <1>3. yOut <= y => WrapSub(y, yOut) = y - yOut
    BY <1>1 DEF WrapSub
  <1>4. ASSUME yOut > y
        PROVE  FALSE
    <2>1. WrapSub(y, yOut) = y - yOut + Modulus
      BY <1>1, <1>4 DEF WrapSub
    <2>2. WrapSub(y, yOut) \in Nat /\ WrapSub(y, yOut) > FixedMax
      BY <1>1, <1>2, <2>1, FixedFacts
    <2>3. FromBalance(WrapSub(y, yOut)) = Err
      BY <2>2, FixedFacts DEF FromBalance, Checked, FixedMax, Fixed, Signed
    <2>4. FeeOf(WrapSub(y, yOut)) = Err
      BY <2>3 DEF FeeOf, FxMul, FxDiv, ToBalance
    <2>5. QED  BY <2>4
  <1>5. QED  BY <1>1, <1>3, <1>4

\* x / (rest / priced), each division rounded down, is at most one unit less
\* than the amount the constant product asks for.
LEMMA InputFacts ==
  ASSUME NEW x \in Nat, x > 0, NEW rest \in FixedOrErr,
         NEW priced \in FixedOrErr, priced # Err => priced >= 0,
         ToBalance(FxDiv(FromBalance(x), FxDiv(rest, priced))) # Err
  PROVE  LET amount == ToBalance(FxDiv(FromBalance(x), FxDiv(rest, priced)))
         IN  /\ amount \in Nat
             /\ rest \in Nat /\ rest > 0
             /\ priced \in Nat /\ priced > 0
             /\ (amount + 1) * rest > x * priced
  <1> DEFINE fx == FromBalance(x)
             ratio == FxDiv(rest, priced)
             o == FxDiv(fx, ratio)
  <1>1. fx \in FixedOrErr /\ (fx # Err => fx = x)
    BY FromBalanceFacts DEF NatOrErr
  <1>2. priced \in Int \cup {Err} /\ rest \in Int \cup {Err}
    BY FixedFacts DEF FixedOrErr
  <1>3. ratio \in FixedOrErr /\ ratio \in Int \cup {Err}
        /\ (ratio # Err => /\ rest # Err /\ priced # Err /\ priced # 0
                           /\ ratio = FloorDiv(rest * Unit, priced))
    BY <1>2, DivTypeFacts, FixedFacts DEF FixedOrErr
  <1>4. o \in FixedOrErr
        /\ (o # Err => /\ fx # Err /\ ratio # Err /\ ratio # 0
                       /\ o = FloorDiv(fx * Unit, ratio))
    BY <1>1, <1>3, DivTypeFacts
  <1>5. ToBalance(o) = o /\ o \in Nat /\ o # Err
    BY <1>4, ToBalanceFacts, ErrAssumption
  <1>6. /\ fx = x /\ ratio \in Int /\ ratio # 0
        /\ rest \in Int /\ priced \in Nat /\ priced > 0
    BY <1>1, <1>2, <1>3, <1>4, <1>5
  <1>7. ratio > 0
    <2>1. SUFFICES ASSUME ratio < 0  PROVE FALSE
      BY <1>6
    <2>2. o = (-(x * Unit)) \div (-ratio)
      BY <1>4, <1>5, <1>6, <2>1 DEF FloorDiv
    <2>3. x * Unit \in Nat /\ x * Unit > 0
      BY FixedFacts
    <2>4. o * (-ratio) <= -(x * Unit)
      BY <1>6, <2>1, <2>2, <2>3, DivBounds
    <2>5. o * (-ratio) >= 0
      BY <1>5, <1>6, <2>1
    <2>6. QED  BY <1>5, <1>6, <2>3, <2>4, <2>5
  <1>8. rest > 0
    <2>1. ratio = (rest * Unit) \div priced /\ rest * Unit \in Int
      BY <1>3, <1>4, <1>5, <1>6, FixedFacts DEF FloorDiv
    <2>2. ratio * priced <= rest * Unit
      BY <2>1, <1>6, DivBounds
    <2>3. ratio * priced > 0
      BY <1>6, <1>7
    <2>4. QED  BY <2>2, <2>3, <1>6, FixedFacts
  <1>9. ratio * priced <= rest * Unit
    BY <1>3, <1>4, <1>5, <1>6, <1>8, DivFacts
  <1>10. x * Unit < (o + 1) * ratio
    BY <1>1, <1>3, <1>5, <1>6, <1>7, DivFacts
  <1>11. (x * Unit) * priced < ((o + 1) * ratio) * priced
    BY <1>5, <1>6, <1>7, <1>10, ScaleLess, FixedFacts
  <1>12. (ratio * priced) * (o + 1) <= (rest * Unit) * (o + 1)
    BY <1>5, <1>6, <1>8, <1>9, ScaleLeq, FixedFacts
  <1>13. (x * priced) * Unit < ((o + 1) * rest) * Unit
    <2>1. ((o + 1) * ratio) * priced = (ratio * priced) * (o + 1)
      BY <1>5, <1>6
    <2>2. (x * Unit) * priced = (x * priced) * Unit
      BY <1>6, FixedFacts
    <2>3. (rest * Unit) * (o + 1) = ((o + 1) * rest) * Unit
      BY <1>5, <1>6, FixedFacts
    <2>4. (x * priced) * Unit \in Int /\ ((o + 1) * rest) * Unit \in Int
          /\ (ratio * priced) * (o + 1) \in Int
      BY <1>5, <1>6, FixedFacts
    <2>5. QED  BY <1>11, <1>12, <2>1, <2>2, <2>3, <2>4
  <1>14. x * priced < (o + 1) * rest
    BY <1>5, <1>6, <1>8, <1>13, CancelFactor, FixedFacts
  <1>15. QED  BY <1>5, <1>6, <1>8, <1>14

\* calc_input_for_exact_output, for every usable pool and amount: outputs of the
\* whole reserve or more are refused, and the input charged is at most one unit
\* less than the constant product asks for, in the trader's favour.
THEOREM ExactOutputIsPaidFor ==
  ASSUME NEW x \in Balance, x > 0, NEW y \in Balance, NEW yOut \in Balance,
         NEW feeFromDestination \in BOOLEAN
  PROVE  ExactOutputLoss(feeFromDestination, x, y, yOut)
  <1> DEFINE r == CalcInputForExactOutput(feeFromDestination, x, y, yOut)
             fy == FromBalance(y)
             fOut == FromBalance(yOut)
  <1> SUFFICES ASSUME r # Err
               PROVE  ExactOutputLoss(feeFromDestination, x, y, yOut)
    BY DEF ExactOutputLoss
  <1>0. x \in Nat /\ y \in Nat /\ yOut \in Nat
    BY ModulusAssumption DEF Balance
  <1>1. /\ fy \in FixedOrErr /\ (fy # Err => fy = y)
        /\ fOut \in FixedOrErr /\ (fOut # Err => fOut = yOut)
    BY <1>0, FromBalanceFacts DEF NatOrErr
  <1>2. CASE feeFromDestination
    <2> DEFINE fUnit == FromBalance(Unit)
               fFee == FromBalance(FeeOf(Unit))
               divisor == FxSub(fUnit, fFee)
               y1 == FxDiv(fOut, divisor)
               rest == FxSub(fy, y1)
               amount == ToBalance(FxDiv(FromBalance(x), FxDiv(rest, y1)))
               fee == ToBalance(FxSub(y1, fOut))
    <2>1. r = IF amount = Err \/ fee = Err THEN Err
              ELSE [amount |-> amount, fee |-> fee]
      BY <1>2 DEF CalcInputForExactOutput, InputWithDestinationFee
    <2>2. amount # Err /\ fee # Err /\ r.amount = amount /\ r.fee = fee
      BY <2>1
    <2>3. divisor \in FixedOrErr /\ (divisor # Err => divisor > 0)
      <3>1. FeeOf(Unit) \in NatOrErr /\ (FeeOf(Unit) # Err => FeeOf(Unit) < Unit)
        BY FeeFacts, FixedFacts DEF NatOrErr
      <3>2. /\ fUnit \in FixedOrErr /\ (fUnit # Err => fUnit = Unit)
            /\ fFee \in FixedOrErr
            /\ (fFee # Err => fFee = FeeOf(Unit) /\ FeeOf(Unit) \in Nat)
        BY <3>1, FromBalanceFacts, FixedFacts DEF NatOrErr
      <3>3. divisor \in FixedOrErr
            /\ (divisor # Err => fUnit # Err /\ fFee # Err /\ divisor = fUnit - fFee)
        BY <3>2, AddSubFacts
      <3>4. QED  BY <3>1, <3>2, <3>3, FixedFacts, ErrAssumption
    <2>4. divisor \in Int \cup {Err}
      BY <2>3, FixedFacts DEF FixedOrErr
    <2>5. y1 \in FixedOrErr /\ (y1 # Err => fOut # Err /\ divisor # Err)
      BY <1>1, <2>4, DivTypeFacts
    <2>6. y1 # Err => y1 >= 0
      BY <1>0, <1>1, <2>3, <2>4, <2>5, DivFacts
    <2>7. rest \in FixedOrErr
          /\ (rest # Err => fy # Err /\ y1 # Err /\ rest = fy - y1)
      BY <1>1, <2>5, AddSubFacts
    <2>8. /\ amount \in Nat /\ rest \in Nat /\ rest > 0 /\ y1 \in Nat /\ y1 > 0
          /\ (amount + 1) * rest > x * y1
      BY <1>0, <2>2, <2>5, <2>6, <2>7, InputFacts
    <2>9. rest = y - y1
      BY <1>1, <2>7, <2>8, ErrAssumption
    <2>10. fee = y1 - yOut /\ fee \in Nat
      <3>1. FxSub(y1, fOut) \in FixedOrErr
            /\ (FxSub(y1, fOut) # Err => fOut # Err /\ FxSub(y1, fOut) = y1 - fOut)
        BY <1>1, <2>5, AddSubFacts
      <3>2. fee = FxSub(y1, fOut) /\ fee \in Nat
        BY <2>2, <3>1, ToBalanceFacts
      <3>3. QED  BY <3>1, <3>2, <1>1, <2>2
    <2>11. yOut + fee = y1 /\ yOut < y /\ y - y1 = rest
      BY <1>0, <2>8, <2>9, <2>10
    <2>12. QED  BY <1>2, <2>2, <2>8, <2>11 DEF ExactOutputLoss
  <1>3. CASE ~feeFromDestination
    <2> DEFINE rest == WrapSub(y, yOut)
               restFee == FeeOf(rest)
               sub == FromBalance(rest - restFee)
               amount == ToBalance(FxDiv(FromBalance(x), FxDiv(sub, fOut)))
               fee == FeeOf(amount)
    <2>1. r = IF restFee = Err \/ amount = Err \/ fee = Err THEN Err
              ELSE [amount |-> amount, fee |-> fee]
      BY <1>3 DEF CalcInputForExactOutput, InputWithSourceFee
    <2>2. restFee # Err /\ amount # Err /\ r.amount = amount
      BY <2>1
    <2>3. fOut # Err
      <3>1. fOut = Err => FxDiv(sub, fOut) = Err
        BY DEF FxDiv
      <3>2. FxDiv(sub, fOut) = Err => amount = Err
        BY DEF FxDiv, ToBalance
      <3>3. QED  BY <3>1, <3>2, <2>2
    <2>4. yOut <= y /\ rest = y - yOut
      BY <2>2, <2>3, WrappedRestFails
    <2>5. restFee \in Nat /\ restFee <= rest /\ rest - restFee \in Nat
      BY <1>0, <2>2, <2>4, FeeFacts DEF NatOrErr
    <2>6. sub \in FixedOrErr /\ (sub # Err => sub = rest - restFee)
      BY <2>5, FromBalanceFacts DEF NatOrErr
    <2>7. /\ amount \in Nat /\ sub \in Nat /\ sub > 0 /\ fOut \in Nat /\ fOut > 0
          /\ (amount + 1) * sub > x * fOut
      BY <1>0, <1>1, <2>2, <2>6, InputFacts
    <2>8. fOut = yOut /\ sub = (y - yOut) - FeeOf(y - yOut) /\ yOut < y
      <3>1. sub = rest - restFee
        BY <2>6, <2>7, ErrAssumption
      <3>2. QED  BY <1>0, <1>1, <2>3, <2>4, <2>5, <2>7, <3>1
    <2>9. QED  BY <1>3, <2>2, <2>7, <2>8 DEF ExactOutputLoss
  <1>4. QED  BY <1>2, <1>3

\* What the two swap calculations return when they do not fail: amounts, with a
\* fee no larger than the input when it is taken from the source.
LEMMA OutputType ==
  ASSUME NEW x \in Nat, NEW y \in Nat, NEW xIn \in Nat,
         NEW feeFromDestination \in BOOLEAN,
         NEW r, r = CalcOutputForExactInput(feeFromDestination, x, y, xIn), r # Err
  PROVE  /\ r.amount \in Nat /\ r.fee \in Nat
         /\ ~feeFromDestination => r.fee <= xIn
  <1> DEFINE fee == FeeOf(xIn)
             fIn == FromBalance(xIn)
             subfee == FxSub(fIn, FromBalance(fee))
             out == OutputFor(x, y, IF feeFromDestination THEN fIn ELSE subfee)
  <1>1. fIn \in FixedOrErr /\ (fIn # Err => fIn >= 0)
    BY FromBalanceFacts DEF NatOrErr
  <1>2. fee \in NatOrErr /\ (fee # Err => fee <= xIn)
    BY FeeFacts DEF NatOrErr
  <1>3. subfee \in FixedOrErr /\ (subfee # Err => subfee >= 0)
    <2>1. FromBalance(fee) \in FixedOrErr
          /\ (FromBalance(fee) # Err => FromBalance(fee) = fee /\ fee \in Nat)
      BY <1>2, FromBalanceFacts
    <2>2. subfee \in FixedOrErr
          /\ (subfee # Err => /\ fIn # Err /\ FromBalance(fee) # Err
                              /\ subfee = fIn - FromBalance(fee))
      BY <1>1, <2>1, AddSubFacts
    <2>3. fIn # Err => fIn = xIn
      BY FromBalanceFacts DEF NatOrErr
    <2>4. QED  BY <1>2, <2>1, <2>2, <2>3, ErrAssumption
  <1>4. out \in NatOrErr
    <2>1. CASE feeFromDestination
      BY <1>1, <2>1, OutputFacts
    <2>2. CASE ~feeFromDestination
      BY <1>3, <2>2, OutputFacts
    <2>3. QED  BY <2>1, <2>2
  <1>5. CASE feeFromDestination
    <2>1. out # Err /\ FeeOf(out) # Err /\ r = [amount |-> out, fee |-> FeeOf(out)]
      BY <1>5 DEF CalcOutputForExactInput
    <2>2. FeeOf(out) \in NatOrErr
      BY <1>4, FeeFacts
    <2>3. out \in Nat /\ FeeOf(out) \in Nat
      BY <1>4, <2>1, <2>2 DEF NatOrErr
    <2> HIDE DEF out
    <2>4. r.amount \in Nat /\ r.fee \in Nat
      BY <2>1, <2>3
    <2>5. QED  BY <1>5, <2>4
  <1>6. CASE ~feeFromDestination
    <2>1. fee # Err /\ out # Err /\ r = [amount |-> out, fee |-> fee]
      BY <1>6 DEF CalcOutputForExactInput
    <2>2. QED  BY <1>2, <1>4, <2>1 DEF NatOrErr
  <1>7. QED  BY <1>5, <1>6

\* The same for an exact output.
LEMMA InputType ==
  ASSUME NEW x \in Nat, NEW y \in Nat, NEW yOut \in Nat,
         NEW feeFromDestination \in BOOLEAN,
         NEW r, r = CalcInputForExactOutput(feeFromDestination, x, y, yOut), r # Err
  PROVE  /\ r.amount \in Nat /\ r.fee \in Nat
         /\ ~feeFromDestination => r.fee <= r.amount
  <1> DEFINE fx == FromBalance(x)
             fy == FromBalance(y)
             fOut == FromBalance(yOut)
  <1>1. /\ fx \in FixedOrErr /\ fy \in FixedOrErr /\ fOut \in FixedOrErr
        /\ FixedOrErr \subseteq Int \cup {Err}
    BY FromBalanceFacts, FixedFacts DEF NatOrErr, FixedOrErr
  <1>2. CASE feeFromDestination
    <2> DEFINE divisor == FxSub(FromBalance(Unit), FromBalance(FeeOf(Unit)))
               y1 == FxDiv(fOut, divisor)
               ratio == FxDiv(FxSub(fy, y1), y1)
               amount == ToBalance(FxDiv(fx, ratio))
               fee == ToBalance(FxSub(y1, fOut))
    <2>1. amount # Err /\ fee # Err /\ r = [amount |-> amount, fee |-> fee]
      BY <1>2 DEF CalcInputForExactOutput, InputWithDestinationFee
    <2>2. divisor \in FixedOrErr
      <3>1. FeeOf(Unit) \in NatOrErr /\ Unit \in NatOrErr
        BY FeeFacts, FixedFacts DEF NatOrErr
      <3>2. FromBalance(Unit) \in FixedOrErr /\ FromBalance(FeeOf(Unit)) \in FixedOrErr
        BY <3>1, FromBalanceFacts
      <3>3. QED  BY <3>2, AddSubFacts
    <2>3. y1 \in FixedOrErr
      BY <1>1, <2>2, DivTypeFacts
    <2>4. FxSub(fy, y1) \in FixedOrErr /\ FxSub(y1, fOut) \in FixedOrErr
      BY <1>1, <2>3, AddSubFacts
    <2>5. ratio \in FixedOrErr
      BY <1>1, <2>3, <2>4, DivTypeFacts
    <2>6. FxDiv(fx, ratio) \in FixedOrErr
      BY <1>1, <2>5, DivTypeFacts
    <2>7. amount \in NatOrErr /\ fee \in NatOrErr
      BY <2>4, <2>6, ToBalanceFacts
    <2>8. amount \in Nat /\ fee \in Nat
      BY <2>1, <2>7 DEF NatOrErr
    <2> HIDE DEF amount, fee
    <2>9. r.amount \in Nat /\ r.fee \in Nat
      BY <2>1, <2>8
    <2>10. QED  BY <1>2, <2>9
  <1>3. CASE ~feeFromDestination
    <2> DEFINE rest == WrapSub(y, yOut)
               restFee == FeeOf(rest)
               sub == FromBalance(rest - restFee)
               ratio == FxDiv(sub, fOut)
               amount == ToBalance(FxDiv(fx, ratio))
               fee == FeeOf(amount)
    <2>1. /\ restFee # Err /\ amount # Err /\ fee # Err
          /\ r = [amount |-> amount, fee |-> fee]
      BY <1>3 DEF CalcInputForExactOutput, InputWithSourceFee
    <2>2. rest \in Nat
      <3>1. y - yOut \in Int /\ Modulus \in Int /\ Modulus > 0
        BY ModulusAssumption, FixedFacts
      <3>2. QED  BY <3>1 DEF WrapSub
    <2>3. rest - restFee \in Nat
      <3>1. restFee \in Nat /\ restFee <= rest
        BY <2>1, <2>2, FeeFacts DEF NatOrErr
      <3>2. QED  BY <2>2, <3>1
    <2>4. sub \in FixedOrErr
      BY <2>3, FromBalanceFacts DEF NatOrErr
    <2>5. ratio \in FixedOrErr
      BY <1>1, <2>4, DivTypeFacts
    <2>6. FxDiv(fx, ratio) \in FixedOrErr
      BY <1>1, <2>5, DivTypeFacts
    <2>7. amount \in NatOrErr
      BY <2>6, ToBalanceFacts
    <2>8. fee \in NatOrErr /\ fee <= amount
      BY <2>1, <2>7, FeeFacts
    <2>9. QED  BY <2>1, <2>7, <2>8 DEF NatOrErr
  <1>4. QED  BY <1>2, <1>3

-----------------------------------------------------------------------------
(* What a quoted input brings when it is exchanged forwards.               *)

\* The output of the constant product is rounded in the trader's favour by the
\* inner division and down by the outer one: it is less than one unit short.
LEMMA OutputLowerBound ==
  ASSUME NEW x \in Nat, NEW y \in Nat, NEW part \in FixedOrErr,
         part # Err => part >= 0,
         OutputFor(x, y, part) # Err
  PROVE  LET out == OutputFor(x, y, part)
         IN  out \in Nat /\ part \in Nat /\ part * y < (out + 1) * (x + part)
  <1> DEFINE fx == FromBalance(x)
             fy == FromBalance(y)
             s == FxAdd(fx, part)
             q == FxDiv(s, fy)
             o == FxDiv(part, q)
  <1>1. /\ fx \in FixedOrErr /\ fy \in FixedOrErr
        /\ fx # Err => fx = x
        /\ fy # Err => fy = y
    BY FromBalanceFacts DEF NatOrErr
  <1>2. s \in FixedOrErr /\ (s # Err => fx # Err /\ part # Err /\ s = fx + part)
    BY <1>1, AddSubFacts
  <1>3. q \in FixedOrErr /\ (q # Err => s # Err /\ fy # Err /\ fy # 0)
    BY <1>1, <1>2, DivTypeFacts, FixedFacts DEF FixedOrErr
  <1>4. o \in FixedOrErr /\ (o # Err => part # Err /\ q # Err /\ q # 0)
    BY <1>3, DivTypeFacts, FixedFacts DEF FixedOrErr
  <1>5. OutputFor(x, y, part) = o /\ o # Err
    BY <1>4, ToBalanceFacts, ErrAssumption DEF OutputFor, ToBalance
  <1>6. /\ part \in Nat /\ s = x + part /\ s >= 0
        /\ fy = y /\ y > 0
    BY <1>5, <1>1, <1>2, <1>3, <1>4, FixedFacts DEF FixedOrErr
  <1>7. q \in Nat /\ q * y <= s * Unit
    BY <1>2, <1>3, <1>4, <1>5, <1>6, DivFacts
  <1>8. q > 0
    BY <1>7, <1>4, <1>5
  <1>9. o \in Nat /\ part * Unit < (o + 1) * q
    BY <1>5, <1>6, <1>7, <1>8, DivFacts
  <1>10. (part * Unit) * y < ((o + 1) * q) * y
    BY <1>6, <1>7, <1>9, FixedFacts, ScaleLess
  <1>11. (q * y) * (o + 1) <= (s * Unit) * (o + 1)
    BY <1>6, <1>7, <1>9, FixedFacts, ScaleLeq
  <1>12. (part * y) * Unit < ((o + 1) * s) * Unit
    <2>1. /\ ((o + 1) * q) * y = (q * y) * (o + 1)
          /\ (part * Unit) * y = (part * y) * Unit
          /\ (s * Unit) * (o + 1) = ((o + 1) * s) * Unit
      BY <1>6, <1>7, <1>9, FixedFacts
    <2>2. /\ (part * y) * Unit \in Int /\ ((o + 1) * s) * Unit \in Int
          /\ (q * y) * (o + 1) \in Int
      BY <1>6, <1>7, <1>9, FixedFacts
    <2>3. QED  BY <1>10, <1>11, <2>1, <2>2
  <1>13. part * y < (o + 1) * s
    BY <1>6, <1>9, <1>12, CancelFactor, FixedFacts
  <1>14. QED  BY <1>5, <1>6, <1>9, <1>13

\* A multiple of the divisor divides exactly.
LEMMA ExactDivision ==
  ASSUME NEW n \in Int, NEW d \in Nat, d > 0
  PROVE  (n * d) \div d = n
  <1> DEFINE q == (n * d) \div d
  <1>1. q \in Int /\ q * d <= n * d /\ n * d < (q + 1) * d
    BY DivBounds
  <1> HIDE DEF q
  <1>2. n < q + 1
    BY <1>1, CancelFactor
  <1>3. ~(n < q)
    <2>1. n < q => n * d < q * d
      BY <1>1, ScaleLess
    <2>2. QED  BY <1>1, <2>1
  <1>4. QED  BY <1>1, <1>2, <1>3 DEF q

\* A number without a remainder is its quotient times the divisor.
LEMMA NoRemainder ==
  ASSUME NEW n \in Int, NEW d \in Nat, d > 0, n % d = 0
  PROVE  n \div d \in Int /\ (n \div d) * d = n
  BY SMT

\* A fee is less than one unit below the exact fraction.
LEMMA FeeLowerBound ==
  ASSUME NEW amount \in NatOrErr, FeeOf(amount) # Err
  PROVE  /\ amount \in Nat /\ FeeOf(amount) \in Nat
         /\ amount * FeeNum < (FeeOf(amount) + 1) * FeeDen
  <1> DEFINE f == FromBalance(amount)
             p == FxMul(f, FeeNum * Unit)
             q == FxDiv(p, FeeDen * Unit)
  <1>1. FeeNum * Unit \in Nat /\ FeeDen * Unit \in Nat /\ FeeDen * Unit > 0
        /\ FeeNum \in Nat /\ FeeDen \in Nat /\ FeeDen > 0
    BY FeeAssumption, FixedFacts
  <1>2. f \in FixedOrErr /\ (f # Err => f = amount /\ amount \in Nat)
    BY FromBalanceFacts
  <1>3. p \in FixedOrErr /\ (p # Err => f # Err /\ p = (f * (FeeNum * Unit)) \div Unit)
    BY <1>1, <1>2, MulFacts
  <1>4. q \in FixedOrErr /\ (q # Err => p # Err)
    BY <1>1, <1>3, DivTypeFacts
  <1>5. FeeOf(amount) = q /\ q # Err
    <2>1. FeeOf(amount) = ToBalance(q)
      BY DEF FeeOf
    <2>2. QED  BY <2>1, <1>4, ToBalanceFacts, ErrAssumption DEF ToBalance
  <1>6. f = amount /\ amount \in Nat
    BY <1>2, <1>3, <1>4, <1>5
  <1>7. p = amount * FeeNum /\ p \in Nat
    <2>1. amount * (FeeNum * Unit) = (amount * FeeNum) * Unit /\ amount * FeeNum \in Nat
      BY <1>1, <1>6, FixedFacts
    <2>2. ((amount * FeeNum) * Unit) \div Unit = amount * FeeNum
      BY <2>1, FixedFacts, ExactDivision
    <2>3. QED  BY <1>3, <1>4, <1>5, <1>6, <2>1, <2>2
  <1>8. q \in Nat /\ p * Unit < (q + 1) * (FeeDen * Unit)
    <2>1. p \in FixedOrErr /\ FeeDen * Unit \in Int \cup {Err} /\ p >= 0
          /\ FeeDen * Unit > 0 /\ FxDiv(p, FeeDen * Unit) # Err
      BY <1>1, <1>3, <1>5, <1>7
    <2> HIDE DEF p
    <2>2. QED  BY <2>1, DivFacts
  <1>9. p < (q + 1) * FeeDen
    <2>1. (q + 1) * (FeeDen * Unit) = ((q + 1) * FeeDen) * Unit
      BY <1>1, <1>8, FixedFacts
    <2>2. p * Unit < ((q + 1) * FeeDen) * Unit
      BY <1>8, <2>1
    <2>3. (q + 1) * FeeDen \in Nat
      BY <1>1, <1>8
    <2> HIDE DEF p, q
    <2>4. QED  BY <1>7, <2>2, <2>3, FixedFacts, CancelFactor
  <1>10. QED  BY <1>5, <1>6, <1>7, <1>8, <1>9

\* An exact output whose fee is taken from it is raised to y1, the output divided
\* by one less the fee, rounded down.
LEMMA RaisedOutputFacts ==
  ASSUME NEW x \in Nat, NEW y \in Nat, NEW yOut \in Nat,
         NEW r, r = InputWithDestinationFee(x, y, yOut), r # Err
  PROVE  /\ FeeOf(Unit) \in Nat /\ FeeOf(Unit) < Unit
         /\ r.fee \in Nat
         /\ yOut * Unit < (yOut + r.fee + 1) * (Unit - FeeOf(Unit))
  <1> DEFINE fy == FromBalance(y)
             fOut == FromBalance(yOut)
             fUnit == FromBalance(Unit)
             fFee == FromBalance(FeeOf(Unit))
             divisor == FxSub(fUnit, fFee)
             y1 == FxDiv(fOut, divisor)
             amount == ToBalance(FxDiv(FromBalance(x), FxDiv(FxSub(fy, y1), y1)))
             fee == ToBalance(FxSub(y1, fOut))
  <1>1. fOut \in FixedOrErr /\ (fOut # Err => fOut = yOut)
    BY FromBalanceFacts DEF NatOrErr
  <1>2. amount # Err /\ fee # Err /\ r.fee = fee
    BY DEF InputWithDestinationFee
  <1>3. FeeOf(Unit) \in NatOrErr /\ (FeeOf(Unit) # Err => FeeOf(Unit) < Unit)
    BY FeeFacts, FixedFacts DEF NatOrErr
  <1>4. /\ fUnit \in FixedOrErr /\ (fUnit # Err => fUnit = Unit)
        /\ fFee \in FixedOrErr
        /\ (fFee # Err => fFee = FeeOf(Unit) /\ FeeOf(Unit) \in Nat)
    BY <1>3, FromBalanceFacts, FixedFacts DEF NatOrErr
  <1>5. divisor \in FixedOrErr
        /\ (divisor # Err => fUnit # Err /\ fFee # Err /\ divisor = fUnit - fFee)
    BY <1>4, AddSubFacts
  <1>6. divisor \in Int \cup {Err}
    BY <1>5, FixedFacts DEF FixedOrErr
  <1>7. y1 \in FixedOrErr /\ (y1 # Err => fOut # Err /\ divisor # Err)
    BY <1>1, <1>6, DivTypeFacts
  <1>8. FxSub(y1, fOut) \in FixedOrErr
        /\ (FxSub(y1, fOut) # Err => /\ y1 # Err /\ fOut # Err
                                     /\ FxSub(y1, fOut) = y1 - fOut)
    BY <1>1, <1>7, AddSubFacts
  <1>9. FxSub(y1, fOut) # Err /\ fee = y1 - yOut /\ fee \in Nat
    <2>1. fee = FxSub(y1, fOut) /\ fee \in Nat
      BY <1>2, <1>8, ToBalanceFacts
    <2>2. QED  BY <2>1, <1>1, <1>2, <1>8
  <1>10. /\ divisor = Unit - FeeOf(Unit) /\ FeeOf(Unit) \in Nat /\ FeeOf(Unit) < Unit
         /\ fOut = yOut /\ y1 # Err
    BY <1>1, <1>3, <1>4, <1>5, <1>7, <1>8, <1>9, ErrAssumption
  <1>11. y1 \in Nat /\ yOut * Unit < (y1 + 1) * divisor
    <2>1. divisor > 0
      BY <1>10, FixedFacts
    <2>2. fOut \in FixedOrErr /\ divisor \in Int \cup {Err} /\ FxDiv(fOut, divisor) # Err
          /\ fOut >= 0 /\ divisor > 0
      BY <1>1, <1>6, <1>10, <2>1
    <2> HIDE DEF divisor, fOut
    <2>3. QED  BY <2>2, <1>10, DivFacts
  <1>12. y1 = yOut + r.fee
    BY <1>2, <1>9, <1>11
  <1> HIDE DEF y1, fee, divisor
  <1>13. QED  BY <1>2, <1>9, <1>10, <1>11, <1>12

\* The input charged for an output whose fee is taken from it, for every pool and a
\* fee that is a number of units: one more unit of input and the swap by input brings
\* all of the output.  The product asks for less than that unit more, so the reserve
\* pays at least y1, and what y1 lacks of the exact raised output is less than what
\* the rounding of the fee leaves.
THEOREM OneMoreInputSuffices ==
  ASSUME NEW x, NEW y, NEW yOut, NEW feeFromDestination,
         x \in Balance, x > 0, y \in Balance, yOut \in Balance,
         feeFromDestination \in BOOLEAN, feeFromDestination,
         (FeeNum * Unit) % FeeDen = 0,
         NEW r, r = CalcInputForExactOutput(feeFromDestination, x, y, yOut), r # Err,
         NEW f, f = CalcOutputForExactInput(feeFromDestination, x, y, r.amount + 1),
         f # Err
  PROVE  f.amount - f.fee >= yOut
  <1>0. x \in Nat /\ y \in Nat /\ yOut \in Nat /\ Unit \in Nat /\ Unit > 0
        /\ FeeNum \in Nat /\ FeeDen \in Nat /\ FeeNum < FeeDen
    BY ModulusAssumption, UnitAssumption, FeeAssumption DEF Balance
  <1>1. r = InputWithDestinationFee(x, y, yOut)
    BY DEF CalcInputForExactOutput
  <1>2. r.amount \in Nat /\ r.fee \in Nat
    BY <1>0, InputType
  <1>3. (r.amount + 1) * (y - (yOut + r.fee)) > x * (yOut + r.fee)
    BY ExactOutputIsPaidFor DEF ExactOutputLoss
  <1>4. PICK u \in Nat : u = FeeOf(Unit) /\ u < Unit
                         /\ yOut * Unit < (yOut + r.fee + 1) * (Unit - u)
    BY <1>0, <1>1, RaisedOutputFacts
  <1>5. PICK y1 \in Nat : y1 = yOut + r.fee
    <2>1. \A m, n \in Nat : m + n \in Nat
      OBVIOUS
    <2>2. QED  BY <1>0, <1>2, <2>1, Zenon
  <1>6. PICK a \in Nat : a = r.amount + 1
    <2>1. \A m \in Nat : m + 1 \in Nat
      OBVIOUS
    <2>2. QED  BY <1>2, <2>1, Zenon
  <1>7. PICK part : part = FromBalance(a)
    OBVIOUS
  <1>8. part \in FixedOrErr /\ (part # Err => part = a)
    BY <1>7, FromBalanceFacts DEF NatOrErr
  <1>9. PICK out : /\ out = OutputFor(x, y, part) /\ out # Err /\ FeeOf(out) # Err
                   /\ f.amount = out /\ f.fee = FeeOf(out)
    <2>1. PICK out : out = OutputFor(x, y, part)
      OBVIOUS
    <2>2. f = IF out = Err \/ FeeOf(out) = Err THEN Err
              ELSE [amount |-> out, fee |-> FeeOf(out)]
      BY <1>6, <1>7, <2>1 DEF CalcOutputForExactInput
    <2>3. out # Err /\ FeeOf(out) # Err
      BY <2>2
    <2>4. f = [amount |-> out, fee |-> FeeOf(out)]
      BY <2>2, <2>3
    <2>5. f.amount = out /\ f.fee = FeeOf(out)
      <3>1. \A v, w : [amount |-> v, fee |-> w].amount = v /\ [amount |-> v, fee |-> w].fee = w
        OBVIOUS
      <3>2. QED  BY <2>4, <3>1, Zenon
    <2>6. QED  BY <2>1, <2>3, <2>5, Zenon
  <1>10. out \in Nat /\ part = a /\ a * y < (out + 1) * (x + a)
    <2>1. part # Err => part >= 0
      BY <1>8
    <2>2. out \in Nat /\ part \in Nat /\ part * y < (out + 1) * (x + part)
      BY <1>0, <1>8, <1>9, <2>1, OutputLowerBound
    <2>3. QED  BY <1>8, <2>2, ErrAssumption
  <1>11. y1 <= out
    <2>1. a * (y - y1) > x * y1
      BY <1>3, <1>5, <1>6
    <2>2. a * (y - y1) = a * y - a * y1 /\ y1 * (x + a) = x * y1 + a * y1
      BY <1>0
    <2>3. a * y \in Int /\ a * y1 \in Int /\ x * y1 \in Int
      BY <1>0
    <2>4. y1 * (x + a) < a * y
      BY <2>1, <2>2, <2>3
    <2>5. y1 * (x + a) < (out + 1) * (x + a)
      <3>1. y1 * (x + a) \in Int /\ (out + 1) * (x + a) \in Int
        BY <1>0, <1>10
      <3>2. QED  BY <1>10, <2>3, <2>4, <3>1
    <2>6. x + a \in Nat
      BY <1>0
    <2>7. y1 < out + 1
      BY <1>10, <2>5, <2>6, CancelFactor
    <2>8. QED  BY <1>10, <2>7
  <1>12. PICK e \in Nat : e = FeeOf(out) /\ e * FeeDen <= out * FeeNum
    BY <1>9, <1>10, FeeFacts DEF NatOrErr
  <1>13. yOut * FeeDen < (y1 + 1) * (FeeDen - FeeNum)
    <2>1. yOut * Unit < (y1 + 1) * (Unit - u)
      BY <1>4, <1>5
    <2>2. (yOut * Unit) * FeeDen < ((y1 + 1) * (Unit - u)) * FeeDen
      BY <1>0, <1>4, <2>1, ScaleLess
    <2>3. (Unit - u) * FeeDen = Unit * (FeeDen - FeeNum)
      <3>1. (Unit - u) * FeeDen = Unit * FeeDen - u * FeeDen
            /\ Unit * (FeeDen - FeeNum) = Unit * FeeDen - FeeNum * Unit
        BY <1>0
      <3>2. u * FeeDen = FeeNum * Unit
        <4>1. PICK n \in Nat : n = FeeNum * Unit
          <5>1. \A i, j \in Nat : i * j \in Nat
            OBVIOUS
          <5>2. QED  BY <1>0, <5>1, Zenon
        <4>2. PICK k \in Int : k * FeeDen = n
          <5>1. n % FeeDen = 0 /\ FeeDen > 0 /\ n \in Int
            BY <1>0, <4>1
          <5>2. QED  BY <1>0, <5>1, NoRemainder
        <4>3. u * FeeDen <= Unit * FeeNum /\ Unit * FeeNum < (u + 1) * FeeDen
          BY <1>0, <1>4, FeeFacts, FeeLowerBound, ErrAssumption DEF NatOrErr
        <4>4. k * FeeDen < (u + 1) * FeeDen /\ ~(k * FeeDen < u * FeeDen)
          BY <1>0, <4>1, <4>2, <4>3
        <4>5. k < u + 1
          BY <1>0, <4>4, CancelFactor
        <4>6. ~(k < u)
          BY <1>0, <4>4, ScaleLess
        <4>7. k = u
          BY <4>5, <4>6
        <4>8. QED  BY <4>1, <4>2, <4>7
      <3>3. QED  BY <3>1, <3>2
    <2>4. ((y1 + 1) * (Unit - u)) * FeeDen = (y1 + 1) * ((Unit - u) * FeeDen)
      BY <1>0
    <2>5. (y1 + 1) * (Unit * (FeeDen - FeeNum)) = ((y1 + 1) * (FeeDen - FeeNum)) * Unit
          /\ (yOut * Unit) * FeeDen = (yOut * FeeDen) * Unit
      BY <1>0
    <2>6. (yOut * FeeDen) * Unit < ((y1 + 1) * (FeeDen - FeeNum)) * Unit
      BY <2>2, <2>3, <2>4, <2>5
    <2>7. yOut * FeeDen \in Int /\ (y1 + 1) * (FeeDen - FeeNum) \in Int
      BY <1>0
    <2>8. QED  BY <1>0, <2>6, <2>7, CancelFactor
  <1>14. yOut * FeeDen < (out - e + 1) * FeeDen
    <2>1. y1 * (FeeDen - FeeNum) <= out * (FeeDen - FeeNum)
      <3>1. FeeDen - FeeNum \in Nat
        BY <1>0
      <3>2. QED  BY <1>10, <1>11, <3>1, ScaleLeq
    <2>2. (y1 + 1) * (FeeDen - FeeNum) = y1 * (FeeDen - FeeNum) + FeeDen - FeeNum
          /\ out * (FeeDen - FeeNum) = out * FeeDen - out * FeeNum
          /\ (out - e + 1) * FeeDen = out * FeeDen - e * FeeDen + FeeDen
      BY <1>0, <1>10
    <2>3. /\ y1 * (FeeDen - FeeNum) \in Int /\ out * FeeDen \in Int /\ out * FeeNum \in Int
          /\ e * FeeDen \in Int /\ yOut * FeeDen \in Int
      BY <1>0, <1>10
    <2>4. QED  BY <1>0, <1>12, <1>13, <2>1, <2>2, <2>3
  <1>15. yOut < out - e + 1
    <2>1. yOut \in Int /\ out - e + 1 \in Int /\ FeeDen \in Nat
      BY <1>0, <1>10
    <2>2. QED  BY <1>14, <2>1, CancelFactor
  <1>16. out - e >= yOut
    BY <1>0, <1>10, <1>12, <1>15
  <1>17. QED  BY <1>9, <1>12, <1>16, Zenon

\* The input charged for an output of which the fee is taken from the source, for
\* every pool: the swap of some more input brings all of the output.  One unit is for
\* the rounding of the price, one for that of the fee, and the last summand for the
\* rounding of the fee that is left out of the pool's rest.
THEOREM SlackOfInputSuffices ==
  ASSUME NEW x, NEW y, NEW yOut, NEW feeFromDestination,
         x \in Balance, x > 0, y \in Balance, yOut \in Balance,
         feeFromDestination \in BOOLEAN, ~feeFromDestination,
         NEW r, r = CalcInputForExactOutput(feeFromDestination, x, y, yOut), r # Err,
         NEW z, z = ((r.amount + 1) * (FeeDen - 1)) \div ((FeeDen - FeeNum) * (y - yOut)),
         NEW f, f = CalcOutputForExactInput(feeFromDestination, x, y, r.amount + 2 + z),
         f # Err
  PROVE  z \in Nat /\ f.amount >= yOut
  <1>0. x \in Nat /\ y \in Nat /\ yOut \in Nat /\ Unit \in Nat /\ Unit > 0
        /\ FeeNum \in Nat /\ FeeDen \in Nat /\ FeeNum < FeeDen
    BY ModulusAssumption, UnitAssumption, FeeAssumption DEF Balance
  <1>1. PICK q \in Nat : q = r.amount
    BY <1>0, InputType
  <1>2. yOut < y /\ (q + 1) * ((y - yOut) - FeeOf(y - yOut)) > x * yOut
    BY <1>1, ExactOutputIsPaidFor DEF ExactOutputLoss
  <1>3. PICK rest \in Nat : rest = y - yOut /\ rest > 0
    BY <1>0, <1>2
  <1>4. FeeOf(rest) # Err
    <2>1. r = InputWithSourceFee(x, y, yOut)
      BY DEF CalcInputForExactOutput
    <2>2. FeeOf(WrapSub(y, yOut)) # Err
      BY <2>1 DEF InputWithSourceFee
    <2>3. WrapSub(y, yOut) = rest
      BY <1>0, <1>3, ModulusAssumption DEF WrapSub, Balance
    <2>4. QED  BY <2>2, <2>3
  <1>5. PICK v \in Nat : v = FeeOf(rest) /\ rest * FeeNum < (v + 1) * FeeDen
    BY <1>3, <1>4, FeeLowerBound DEF NatOrErr
  <1>6. x * yOut < (q + 1) * (rest - v)
    BY <1>2, <1>3, <1>5
  <1>7. PICK k \in Nat : k = FeeDen - FeeNum /\ k > 0
    BY <1>0
  <1>8. z \in Nat /\ (q + 1) * (FeeDen - 1) < (z + 1) * (k * rest)
    <2>1. (q + 1) * (FeeDen - 1) \in Nat /\ k * rest \in Nat /\ k * rest > 0
      BY <1>0, <1>3, <1>7
    <2>2. z = ((q + 1) * (FeeDen - 1)) \div (k * rest)
      BY <1>1, <1>3, <1>7
    <2>3. QED  BY <2>1, <2>2, DivBounds, DivNat
  <1>9. PICK b \in Nat : b = q + 2 + z
    BY <1>8
  <1>10. PICK fee : fee = FeeOf(b)
    OBVIOUS
  <1>11. PICK part : part = FxSub(FromBalance(b), FromBalance(fee))
    OBVIOUS
  <1>12. PICK out : out = OutputFor(x, y, part)
    OBVIOUS
  <1>13. fee # Err /\ out # Err /\ f.amount = out
    <2>1. f = IF fee = Err \/ out = Err THEN Err ELSE [amount |-> out, fee |-> fee]
      BY <1>1, <1>9, <1>10, <1>11, <1>12 DEF CalcOutputForExactInput
    <2>2. fee # Err /\ out # Err
      BY <2>1
    <2>3. f = [amount |-> out, fee |-> fee]
      BY <2>1, <2>2
    <2>4. QED  BY <2>2, <2>3
  <1>14. fee \in Nat /\ fee <= b /\ fee * FeeDen <= b * FeeNum
    BY <1>9, <1>10, <1>13, FeeFacts DEF NatOrErr
  <1>15. part \in FixedOrErr /\ (part # Err => part = b - fee)
    <2>1. /\ FromBalance(b) \in FixedOrErr /\ (FromBalance(b) # Err => FromBalance(b) = b)
          /\ FromBalance(fee) \in FixedOrErr
          /\ (FromBalance(fee) # Err => FromBalance(fee) = fee)
      BY <1>9, <1>14, FromBalanceFacts DEF NatOrErr
    <2>2. QED  BY <1>11, <2>1, AddSubFacts
  <1>16. /\ out \in Nat /\ part \in Nat /\ part = b - fee
         /\ part * y < (out + 1) * (x + part)
    <2>1. part # Err => part >= 0
      BY <1>14, <1>15
    <2>2. out \in Nat /\ part \in Nat /\ part * y < (out + 1) * (x + part)
      BY <1>0, <1>12, <1>13, <1>15, <2>1, OutputLowerBound
    <2>3. QED  BY <1>15, <2>2, ErrAssumption
  <1>17. (rest - v) * FeeDen <= k * rest + (FeeDen - 1)
    <2>1. (v + 1) * FeeDen = v * FeeDen + FeeDen /\ (rest - v) * FeeDen = rest * FeeDen - v * FeeDen
          /\ k * rest = rest * FeeDen - rest * FeeNum
      BY <1>0, <1>7
    <2>2. v * FeeDen \in Int /\ rest * FeeDen \in Int /\ rest * FeeNum \in Int
      BY <1>0
    <2>3. QED  BY <1>0, <1>5, <2>1, <2>2
  <1>18. b * k <= part * FeeDen
    <2>1. part * FeeDen = b * FeeDen - fee * FeeDen /\ b * k = b * FeeDen - b * FeeNum
      BY <1>0, <1>7, <1>14, <1>16
    <2>2. fee * FeeDen \in Int /\ b * FeeDen \in Int /\ b * FeeNum \in Int
      BY <1>0, <1>14
    <2>3. QED  BY <1>14, <2>1, <2>2
  <1>19. x * yOut < part * rest
    <2>1. (x * yOut) * FeeDen < ((q + 1) * (rest - v)) * FeeDen
      BY <1>0, <1>6, ScaleLess
    <2>2. ((rest - v) * FeeDen) * (q + 1) <= (k * rest + (FeeDen - 1)) * (q + 1)
      BY <1>0, <1>17, ScaleLeq
    <2>3. (b * k) * rest <= (part * FeeDen) * rest
      BY <1>0, <1>16, <1>18, ScaleLeq
    <2>4. /\ ((q + 1) * (rest - v)) * FeeDen = ((rest - v) * FeeDen) * (q + 1)
          /\ (k * rest + (FeeDen - 1)) * (q + 1) = (q + 1) * (k * rest) + (q + 1) * (FeeDen - 1)
          /\ (part * FeeDen) * rest = (part * rest) * FeeDen
      BY <1>0, <1>16
    <2>5. (b * k) * rest = (q + 1) * (k * rest) + (z + 1) * (k * rest)
      <3>1. (b * k) * rest = b * (k * rest)
        OBVIOUS
      <3>2. b = (q + 1) + (z + 1)
        BY <1>8, <1>9
      <3>3. ((q + 1) + (z + 1)) * (k * rest) = (q + 1) * (k * rest) + (z + 1) * (k * rest)
        BY <1>8
      <3>4. QED  BY <3>1, <3>2, <3>3
    <2>6. /\ (q + 1) * (k * rest) \in Int /\ (z + 1) * (k * rest) \in Int
          /\ (q + 1) * (FeeDen - 1) \in Int /\ (part * rest) * FeeDen \in Int
          /\ (x * yOut) * FeeDen \in Int /\ ((rest - v) * FeeDen) * (q + 1) \in Int
      BY <1>0, <1>8, <1>16
    <2>7. (x * yOut) * FeeDen < (part * rest) * FeeDen
      BY <1>8, <2>1, <2>2, <2>3, <2>4, <2>5, <2>6
    <2>8. x * yOut \in Int /\ part * rest \in Int
      BY <1>0, <1>16
    <2>9. QED  BY <1>0, <2>7, <2>8, CancelFactor
  <1>20. yOut < out + 1
    <2>1. yOut * (x + part) = x * yOut + part * yOut /\ part * rest = part * y - part * yOut
      BY <1>0, <1>3, <1>16
    <2>2. x * yOut \in Int /\ part * yOut \in Int /\ part * y \in Int
      BY <1>0, <1>16
    <2>3. (out + 1) * (x + part) \in Int
      BY <1>0, <1>16
    <2>4. yOut * (x + part) < (out + 1) * (x + part)
      BY <1>16, <1>19, <2>1, <2>2, <2>3
    <2>5. x + part \in Nat
      BY <1>0, <1>16
    <2>6. QED  BY <1>0, <1>16, <2>4, <2>5, CancelFactor
  <1>21. QED  BY <1>0, <1>8, <1>13, <1>16, <1>20

-----------------------------------------------------------------------------
(* Deposits and withdrawals.                                               *)

\* A quote is an amount or an error.
LEMMA QuoteType ==
  ASSUME NEW amount \in Nat, NEW ra \in Nat, NEW rb \in Nat
  PROVE  CalculateQuote(amount, ra, rb) \in NatOrErr
  <1> DEFINE p == FxMul(FromBalance(amount), FromBalance(rb))
             q == FxDiv(p, FromBalance(ra))
  <1>1. /\ FromBalance(amount) \in FixedOrErr /\ FromBalance(rb) \in FixedOrErr
        /\ FromBalance(rb) \in Int \cup {Err} /\ FromBalance(ra) \in Int \cup {Err}
    BY FromBalanceFacts, FixedFacts DEF NatOrErr, FixedOrErr
  <1>2. p \in FixedOrErr
    BY <1>1, MulFacts
  <1>3. q \in FixedOrErr
    BY <1>1, <1>2, DivTypeFacts
  <1>4. QED  BY <1>3, ToBalanceFacts DEF CalculateQuote

\* calculate_optimal_deposit, for every pool: both amounts lie between the
\* minimum and the desired amount, whichever side is lowered.
THEOREM DepositStaysWithinRange ==
  ASSUME NEW ra \in Nat, NEW rb \in Nat, NEW aDesired \in Nat, NEW bDesired \in Nat,
         NEW aMin \in Nat, NEW bMin \in Nat
  PROVE  DepositWithinRange(ra, rb, aDesired, bDesired, aMin, bMin)
  <1> DEFINE aOpt == CalculateQuote(bDesired, rb, ra)
             bOpt == CalculateQuote(aDesired, ra, rb)
             opt == CalculateOptimalDeposit(ra, rb, aDesired, bDesired, aMin, bMin)
  <1> SUFFICES ASSUME opt # Err, aMin <= aDesired, bMin <= bDesired
               PROVE  opt.a \in aMin .. aDesired /\ opt.b \in bMin .. bDesired
    BY DEF DepositWithinRange
  <1>1. aOpt \in Nat /\ bOpt \in Nat
    BY QuoteType DEF NatOrErr, CalculateOptimalDeposit
  <1>2. CASE bOpt <= bDesired
    <2>1. opt = [a |-> aDesired, b |-> bOpt] /\ bOpt >= bMin
      BY <1>2 DEF CalculateOptimalDeposit
    <2>2. QED  BY <1>1, <1>2, <2>1
  <1>3. CASE ~(bOpt <= bDesired)
    <2>1. opt = [a |-> aOpt, b |-> bDesired] /\ aOpt >= aMin /\ aOpt <= aDesired
      BY <1>3 DEF CalculateOptimalDeposit
    <2>2. QED  BY <1>1, <2>1
  <1>4. QED  BY <1>2, <1>3

\* The marker tokens of one side of a deposit, for every reserve and supply: at
\* most amount * t / reserve, but for the rounding of reserve / t.
THEOREM MarkerIsAtMostTheShare ==
  ASSUME NEW amount \in Nat, NEW reserve \in Nat, NEW t \in Nat
  PROVE  /\ MarkerFor(amount, reserve, t) \in NatOrErr
         /\ MarkerFor(amount, reserve, t) # Err => t > 0
         /\ MarkerIsAtMostShare(amount, reserve, t)
  <1> DEFINE fa == FromBalance(amount)
             fr == FromBalance(reserve)
             ft == FromBalance(t)
             q == FxDiv(fr, ft)
             o == FxDiv(fa, q)
             m == MarkerFor(amount, reserve, t)
  <1>1. /\ fa \in FixedOrErr /\ (fa # Err => fa = amount)
        /\ fr \in FixedOrErr /\ (fr # Err => fr = reserve)
        /\ ft \in FixedOrErr /\ (ft # Err => ft = t) /\ ft \in Int \cup {Err}
    <2>0. amount \in NatOrErr /\ reserve \in NatOrErr /\ t \in NatOrErr
      BY DEF NatOrErr
    <2>1. fa \in FixedOrErr /\ (fa # Err => fa = amount)
      BY <2>0, FromBalanceFacts
    <2>2. fr \in FixedOrErr /\ (fr # Err => fr = reserve)
      BY <2>0, FromBalanceFacts
    <2>3. ft \in FixedOrErr /\ (ft # Err => ft = t)
      BY <2>0, FromBalanceFacts
    <2> HIDE DEF fa, fr, ft
    <2>4. ft \in Int \cup {Err}
      BY <2>3, FixedFacts DEF FixedOrErr
    <2>5. QED  BY <2>1, <2>2, <2>3, <2>4
  <1>2. q \in FixedOrErr /\ q \in Int \cup {Err}
        /\ (q # Err => fr # Err /\ ft # Err /\ ft # 0)
    BY <1>1, DivTypeFacts, FixedFacts DEF FixedOrErr
  <1>3. o \in FixedOrErr /\ (o # Err => fa # Err /\ q # Err /\ q # 0)
    <2> HIDE DEF fa, fr, ft, q
    <2>1. QED  BY <1>1, <1>2, DivTypeFacts
  <1>4. m \in NatOrErr /\ (m # Err => m = o /\ o # Err)
    BY <1>3, ToBalanceFacts, ErrAssumption DEF MarkerFor, ToBalance
  <1>5. ASSUME m # Err
        PROVE  t > 0 /\ m * (reserve * Unit - t) <= amount * t * Unit
    <2>1. fa = amount /\ fr = reserve /\ ft = t /\ t > 0 /\ q # Err /\ q # 0 /\ o # Err
      BY <1>1, <1>2, <1>3, <1>4, <1>5
    <2>2. q \in Nat /\ reserve * Unit < (q + 1) * t
      BY <1>1, <2>1, DivFacts
    <2>3. o \in Nat /\ o * q <= amount * Unit
      BY <1>1, <1>2, <2>1, <2>2, DivFacts
    <2>4. reserve * Unit - t <= q * t
      BY <2>2, FixedFacts
    <2>5. (reserve * Unit - t) * o <= (q * t) * o
      BY <2>2, <2>3, <2>4, FixedFacts, ScaleLeq
    <2>6. (o * q) * t <= (amount * Unit) * t
      BY <2>2, <2>3, FixedFacts, ScaleLeq
    <2>7. (q * t) * o = (o * q) * t /\ amount * t * Unit = (amount * Unit) * t
          /\ (reserve * Unit - t) * o = o * (reserve * Unit - t)
      BY <2>2, <2>3, FixedFacts
    <2>8. /\ o * (reserve * Unit - t) \in Int /\ (o * q) * t \in Int
          /\ (amount * Unit) * t \in Int
      BY <2>2, <2>3, FixedFacts
    <2>9. QED  BY <1>4, <1>5, <2>1, <2>5, <2>6, <2>7, <2>8
  <1>6. QED  BY <1>4, <1>5 DEF MarkerIsAtMostShare

\* One side of a withdrawal, for every reserve, supply and number of tokens: at
\* most reserve * k / (t + MIN_LIQUIDITY), so MIN_LIQUIDITY parts stay behind.
THEOREM WithdrawIsAtMostTheShare ==
  ASSUME NEW reserve \in Nat, NEW k \in Nat, NEW t \in Nat
  PROVE  /\ WithdrawShare(reserve, k, t) \in NatOrErr
         /\ WithdrawIsAtMostShare(reserve, k, t)
  <1> DEFINE fr == FromBalance(reserve)
             fk == FromBalance(k)
             ft == FromBalance(t)
             p == FxMul(fr, fk)
             s == FxAdd(ft, MinLiquidity)
             o == FxDiv(p, s)
             out == WithdrawShare(reserve, k, t)
  <1>0. MinLiquidity \in Nat /\ MinLiquidity > 0
    BY MinLiquidityAssumption
  <1>1. /\ fr \in FixedOrErr /\ (fr # Err => fr = reserve)
        /\ fk \in FixedOrErr /\ (fk # Err => fk = k) /\ fk \in Int \cup {Err}
        /\ ft \in FixedOrErr /\ (ft # Err => ft = t) /\ ft \in Int \cup {Err}
    BY FromBalanceFacts, FixedFacts DEF NatOrErr, FixedOrErr
  <1>2. p \in FixedOrErr
        /\ (p # Err => fr # Err /\ fk # Err /\ p = (fr * fk) \div Unit)
    BY <1>1, MulFacts
  <1>3. s \in Int \cup {Err} /\ (s # Err => s = t + MinLiquidity)
    <2>1. CASE ft = Err
      BY <2>1 DEF FxAdd
    <2>2. CASE ft # Err
      <3>1. t + MinLiquidity \in Int /\ MinLiquidity # Err
        BY <1>0, ErrAssumption
      <3>2. s = Checked(t + MinLiquidity)
        BY <1>1, <2>2, <3>1 DEF FxAdd
      <3>3. QED  BY <3>1, <3>2, CheckedFacts, FixedFacts DEF FixedOrErr
    <2>3. QED  BY <2>1, <2>2
  <1>4. o \in FixedOrErr /\ (o # Err => p # Err /\ s # Err)
    BY <1>2, <1>3, DivTypeFacts
  <1>5. out \in NatOrErr /\ (out # Err => out = o /\ o # Err)
    BY <1>4, ToBalanceFacts, ErrAssumption DEF WithdrawShare, ToBalance
  <1>6. ASSUME out # Err
        PROVE  out * (t + MinLiquidity) <= reserve * k
    <2>1. p = (reserve * k) \div Unit /\ s = t + MinLiquidity /\ s > 0
          /\ p # Err /\ o # Err
      BY <1>0, <1>1, <1>2, <1>3, <1>4, <1>5, <1>6
    <2>2. reserve * k \in Nat
      OBVIOUS
    <2>3. p * Unit <= reserve * k /\ p \in Nat
      BY <2>1, <2>2, DivBounds, DivNat, FixedFacts
    <2>4. o * s <= p * Unit /\ o \in Nat
      <3>1. p \in FixedOrErr /\ s \in Int \cup {Err} /\ p >= 0 /\ s > 0 /\ o # Err
        BY <1>2, <1>3, <2>1, <2>3
      <3> HIDE DEF p, s
      <3>2. QED  BY <3>1, DivFacts
    <2>5. o * s \in Nat /\ p * Unit \in Nat
      BY <1>0, <2>1, <2>3, <2>4, FixedFacts
    <2>6. QED  BY <1>5, <1>6, <2>1, <2>2, <2>3, <2>4, <2>5
  <1>7. QED  BY <1>5, <1>6 DEF WithdrawIsAtMostShare

\* The terms of a deposit: no more marker tokens than the share of either side.
LEMMA DepositLiquidityFacts ==
  ASSUME NEW ra \in Nat, NEW rb \in Nat, NEW t \in Nat,
         NEW aDesired \in Nat, NEW bDesired \in Nat, NEW aMin, NEW bMin,
         NEW dep, dep # Err,
         dep = CalcDepositLiquidity(t, ra, rb, aDesired, bDesired, aMin, bMin)
  PROVE  /\ t > 0
         /\ dep.a \in Nat /\ dep.b \in Nat /\ dep.marker \in Nat
         /\ MarkerFor(dep.a, ra, t) \in Nat /\ dep.marker <= MarkerFor(dep.a, ra, t)
         /\ MarkerFor(dep.b, rb, t) \in Nat /\ dep.marker <= MarkerFor(dep.b, rb, t)
  <1> DEFINE aOpt == CalculateQuote(bDesired, rb, ra)
             bOpt == CalculateQuote(aDesired, ra, rb)
             opt == CalculateOptimalDeposit(ra, rb, aDesired, bDesired, aMin, bMin)
             lhs == MarkerFor(opt.a, ra, t)
             rhs == MarkerFor(opt.b, rb, t)
             mk == IF lhs <= rhs THEN lhs ELSE rhs
  <1>1. opt # Err
    BY DEF CalcDepositLiquidity
  <1>2. opt.a \in Nat /\ opt.b \in Nat
    <2>1. aOpt \in NatOrErr /\ bOpt \in NatOrErr
      BY QuoteType
    <2>2. aOpt # Err /\ bOpt # Err
          /\ \/ opt = [a |-> aDesired, b |-> bOpt]
             \/ opt = [a |-> aOpt, b |-> bDesired]
      BY <1>1 DEF CalculateOptimalDeposit
    <2>3. QED  BY <2>1, <2>2 DEF NatOrErr
  <1>3. lhs # Err /\ rhs # Err /\ dep = [a |-> opt.a, b |-> opt.b, marker |-> mk]
    BY <1>1 DEF CalcDepositLiquidity
  <1>4. lhs \in Nat /\ rhs \in Nat /\ t > 0
    BY <1>2, <1>3, MarkerIsAtMostTheShare DEF NatOrErr
  <1>5. mk \in Nat /\ mk <= lhs /\ mk <= rhs
    BY <1>4
  <1>6. QED  BY <1>2, <1>3, <1>4, <1>5

\* Depositing and redeeming at once, for every pool whose supply is small enough
\* for MIN_LIQUIDITY to cover the deposit's rounding: nothing is gained.  If more
\* than dep.a came back, the depositor's tokens would be worth more than the
\* share of a supply of t + MIN_LIQUIDITY, which MarkerIsAtMostTheShare excludes.
THEOREM RoundTripGainsNothing ==
  ASSUME NEW ra \in Nat, NEW rb \in Nat, NEW t \in Nat,
         NEW aDesired \in Nat, NEW bDesired \in Nat
  PROVE  RoundTripIsNoGain(ra, rb, t, aDesired, bDesired)
  <1> DEFINE dep == CalcDepositLiquidity(t, ra, rb, aDesired, bDesired, 0, 0)
             a == dep.a
             mk == dep.marker
             back == WithdrawShare(ra + a, mk, t + mk)
             gain == RoundTripGain(ra, rb, t, aDesired, bDesired)
             m == MarkerFor(a, ra, t)
             room == ra * Unit - t
  <1>1. SUFFICES ASSUME t * (t + MinLiquidity) <= MinLiquidity * Unit * ra
               PROVE  gain <= 0
    BY DEF RoundTripIsNoGain
  <1>2. MinLiquidity \in Nat /\ MinLiquidity > 0 /\ Unit \in Nat /\ Unit > 0
    BY MinLiquidityAssumption, FixedFacts
  <1>3. CASE dep = Err \/ back = Err
    BY <1>3 DEF RoundTripGain
  <1>4. CASE dep # Err /\ back # Err
    <2>1. gain = back - a
      BY <1>4 DEF RoundTripGain
    <2>2. a \in Nat /\ mk \in Nat /\ m \in Nat /\ mk <= m /\ t > 0
      BY <1>4, DepositLiquidityFacts
    <2>3. m * room <= a * t * Unit
      BY <2>2, MarkerIsAtMostTheShare, ErrAssumption DEF MarkerIsAtMostShare
    <2>4. back \in Nat /\ back * (t + mk + MinLiquidity) <= (ra + a) * mk
      <3>1. ra + a \in Nat /\ t + mk \in Nat
        BY <2>2
      <3>2. QED
        BY <1>4, <2>2, <3>1, WithdrawIsAtMostTheShare
        DEF WithdrawIsAtMostShare, NatOrErr
    <2>5. SUFFICES ASSUME back > a  PROVE FALSE
      BY <2>1, <2>2, <2>4
    <2>6. room \in Int /\ room > 0
      <3>1. t * MinLiquidity < t * (t + MinLiquidity)
        BY <1>2, <2>2
      <3>2. t * MinLiquidity < (ra * Unit) * MinLiquidity
        BY <1>2, <1>1, <2>2, <3>1
      <3>3. t < ra * Unit
        BY <1>2, <3>2, CancelFactor
      <3>4. QED  BY <1>2, <3>3
    <2>7. a * (t + MinLiquidity) < ra * mk
      <3>1. a * (t + mk + MinLiquidity) < back * (t + mk + MinLiquidity)
        BY <1>2, <2>2, <2>4, <2>5, ScaleLess
      <3>2. a * (t + mk + MinLiquidity) = a * (t + MinLiquidity) + a * mk
            /\ (ra + a) * mk = ra * mk + a * mk
        BY <1>2, <2>2
      <3>3. /\ a * (t + MinLiquidity) \in Int /\ a * mk \in Int /\ ra * mk \in Int
            /\ back * (t + mk + MinLiquidity) \in Int
        BY <1>2, <2>2, <2>4
      <3>4. QED  BY <2>4, <3>1, <3>2, <3>3
    <2>8. (a * (t + MinLiquidity)) * room < (ra * m) * room
      <3>1. ra * mk <= ra * m
        BY <2>2
      <3>2. a * (t + MinLiquidity) < ra * m
        BY <1>2, <2>2, <2>7, <3>1
      <3>3. QED  BY <1>2, <2>2, <2>6, <3>2, ScaleLess
    <2>9. (ra * m) * room <= ra * (a * t * Unit)
      <3>1. (m * room) * ra <= (a * t * Unit) * ra
        BY <1>2, <2>2, <2>3, <2>6, ScaleLeq
      <3>2. QED  BY <1>2, <2>2, <2>6, <3>1
    <2>10. a * ((t + MinLiquidity) * room) < a * (ra * t * Unit)
      <3>1. (a * (t + MinLiquidity)) * room = a * ((t + MinLiquidity) * room)
            /\ ra * (a * t * Unit) = a * (ra * t * Unit)
        BY <1>2, <2>2, <2>6
      <3>2. /\ (ra * m) * room \in Int
            /\ a * ((t + MinLiquidity) * room) \in Int /\ a * (ra * t * Unit) \in Int
        BY <1>2, <2>2, <2>6
      <3>3. QED  BY <2>8, <2>9, <3>1, <3>2
    <2>11. (t + MinLiquidity) * room < ra * t * Unit
      <3>1. (t + MinLiquidity) * room \in Int /\ ra * t * Unit \in Int
        BY <1>2, <2>2, <2>6
      <3>2. ((t + MinLiquidity) * room) * a < (ra * t * Unit) * a
        BY <2>2, <2>10, <3>1
      <3>3. QED  BY <2>2, <3>1, <3>2, CancelFactor
    <2>12. (t + MinLiquidity) * room =
               ra * t * Unit + MinLiquidity * Unit * ra - t * (t + MinLiquidity)
      BY <1>2, <2>2
    <2>13. QED
      <3>1. /\ ra * t * Unit \in Int /\ MinLiquidity * Unit * ra \in Int
            /\ t * (t + MinLiquidity) \in Int
        BY <1>2, <2>2
      <3>2. QED  BY <1>1, <2>11, <2>12, <3>1
  <1>5. QED  BY <1>3, <1>4
=============================================================================
