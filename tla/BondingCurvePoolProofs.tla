----------------------- MODULE BondingCurvePoolProofs -----------------------
(***************************************************************************)
(* Theorems about BondingCurvePool, for any width, unit, prices and        *)
(* coefficients: the main asset is conserved and no balance is negative,   *)
(* an exchange leaves the pool as well covered as it was, a round trip     *)
(* costs the spread and the price formulas are inverse to each other, each *)
(* but for roundings that the theorem names.                               *)
(***************************************************************************)
EXTENDS BondingCurvePool, TotalsProofs

-----------------------------------------------------------------------------
(* Fixed-point operations that return.                                     *)

IntOrErr == Int \cup {Err}

\* The range of Fixed: a symmetric interval of integers around zero.
LEMMA FixedFacts ==
  /\ FixedMax \in Nat
  /\ Fixed \subseteq Int
  /\ 2 * FixedMax < Modulus
  /\ Unit \in Nat /\ Unit > 0
  /\ \A v \in Fixed : v <= FixedMax
  /\ 0 .. FixedMax \subseteq Fixed
  BY UnitAssumption, ModulusAssumption DEF FixedMax, Fixed, Signed

\* A checked result is the value itself or an error.
LEMMA CheckedFacts ==
  ASSUME NEW v \in Int
  PROVE  /\ Checked(v) \in IntOrErr
         /\ Checked(v) # Err => Checked(v) = v /\ v \in Fixed
         /\ v \in Fixed => Checked(v) = v /\ v # Err
  BY ErrAssumption, FixedFacts DEF Checked, Fixed, IntOrErr

\* What the operations return is exact but for the roundings.
LEMMA OperationFacts ==
  ASSUME NEW f \in IntOrErr, NEW g \in IntOrErr
  PROVE  /\ FxAdd(f, g) \in IntOrErr
         /\ FxAdd(f, g) # Err =>
              f # Err /\ g # Err /\ FxAdd(f, g) = f + g /\ f + g \in Fixed
         /\ FxSub(f, g) \in IntOrErr
         /\ FxSub(f, g) # Err =>
              f # Err /\ g # Err /\ FxSub(f, g) = f - g /\ f - g \in Fixed
         /\ FxMul(f, g) \in IntOrErr
         /\ FxMul(f, g) # Err =>
              /\ f # Err /\ g # Err
              /\ FxMul(f, g) = (f * g) \div Unit /\ (f * g) \div Unit \in Fixed
  <1>1. CASE f = Err \/ g = Err
    BY <1>1 DEF FxAdd, FxSub, FxMul, IntOrErr
  <1>2. CASE f # Err /\ g # Err
    <2>1. f \in Int /\ g \in Int
      BY <1>2 DEF IntOrErr
    <2>2. f + g \in Int /\ f - g \in Int /\ f * g \in Int
      BY <2>1
    <2>3. (f * g) \div Unit \in Int
      BY <2>2, FixedFacts, DivBounds
    <2>4. /\ FxAdd(f, g) = Checked(f + g) /\ FxSub(f, g) = Checked(f - g)
          /\ FxMul(f, g) = Checked((f * g) \div Unit)
      BY <1>2 DEF FxAdd, FxSub, FxMul
    <2> QED
      BY <1>2, <2>2, <2>3, <2>4, CheckedFacts
  <1> QED
    BY <1>1, <1>2

\* A quotient by a positive number.
LEMMA QuotientFacts ==
  ASSUME NEW f \in IntOrErr, NEW g \in IntOrErr, g # Err => g > 0
  PROVE  /\ FxDiv(f, g) \in IntOrErr
         /\ FxDiv(f, g) # Err =>
              /\ f # Err /\ g # Err
              /\ FxDiv(f, g) = (f * Unit) \div g /\ (f * Unit) \div g \in Fixed
  <1>1. CASE f = Err \/ g = Err
    BY <1>1 DEF FxDiv, IntOrErr
  <1>2. CASE f # Err /\ g # Err
    <2>1. f \in Int /\ g \in Int /\ g > 0 /\ Unit \in Int /\ g # 0
      BY <1>2, FixedFacts DEF IntOrErr
    <2>2. f * Unit \in Int
      BY <2>1
    <2>3. (f * Unit) \div g \in Int
      BY <2>1, <2>2, DivBounds
    <2>4. FxDiv(f, g) = Checked((f * Unit) \div g)
      BY <1>2, <2>1 DEF FxDiv, FloorDiv
    <2> QED
      BY <1>2, <2>3, <2>4, CheckedFacts
  <1> QED
    BY <1>1, <1>2

\* The integer square root is one.
LEMMA RootFacts ==
  ASSUME NEW n \in Nat
  PROVE  /\ IntSqrt(n) \in Nat
         /\ IntSqrt(n) * IntSqrt(n) <= n
         /\ n < (IntSqrt(n) + 1) * (IntSqrt(n) + 1)
  <1>1. \E r \in 0 .. n : r * r <= n /\ n < (r + 1) * (r + 1)
    BY RootExists
  <1>2. /\ IntSqrt(n) \in 0 .. n /\ IntSqrt(n) * IntSqrt(n) <= n
        /\ n < (IntSqrt(n) + 1) * (IntSqrt(n) + 1)
    BY <1>1 DEF IntSqrt
  <1> QED
    BY <1>2

\* The root of a Fixed is that of so many units.
LEMMA SqrtFacts ==
  ASSUME NEW f \in IntOrErr
  PROVE  /\ FxSqrt(f) \in IntOrErr
         /\ FxSqrt(f) # Err =>
              /\ f # Err /\ f \in Nat /\ FxSqrt(f) \in Nat
              /\ FxSqrt(f) * FxSqrt(f) <= f * Unit
              /\ f * Unit < (FxSqrt(f) + 1) * (FxSqrt(f) + 1)
  <1>1. CASE f = Err \/ f < 0
    BY <1>1 DEF FxSqrt, IntOrErr
  <1>2. CASE ~ (f = Err \/ f < 0)
    <2>1. f \in Nat
      BY <1>2 DEF IntOrErr
    <2>2. f * Unit \in Nat
      BY <2>1, FixedFacts
    <2>3. FxSqrt(f) = IntSqrt(f * Unit)
      BY <1>2 DEF FxSqrt
    <2> QED
      BY <1>2, <2>1, <2>2, <2>3, RootFacts DEF IntOrErr
  <1> QED
    BY <1>1, <1>2

\* Balances that are Fixed values convert to themselves, and back.
LEMMA ConversionFacts ==
  /\ \A b \in Nat : /\ FromBalance(b) \in IntOrErr
                    /\ FromBalance(b) # Err => FromBalance(b) = b /\ b <= FixedMax
                    /\ b <= FixedMax => FromBalance(b) = b /\ FromBalance(b) # Err
  /\ \A f \in IntOrErr : /\ ToBalance(f) \in Nat \cup {Err}
                         /\ ToBalance(f) # Err => ToBalance(f) = f /\ f # Err /\ f \in Nat
                         /\ f \in Nat => ToBalance(f) = f /\ f # Err
  <1>1. ASSUME NEW b \in Nat
        PROVE  /\ FromBalance(b) \in IntOrErr
               /\ FromBalance(b) # Err => FromBalance(b) = b /\ b <= FixedMax
               /\ b <= FixedMax => FromBalance(b) = b /\ FromBalance(b) # Err
    <2>1. b <= FixedMax => b \in Fixed
      BY FixedFacts
    <2> QED
      BY <2>1, CheckedFacts, FixedFacts DEF FromBalance
  <1>2. ASSUME NEW f \in IntOrErr
        PROVE  /\ ToBalance(f) \in Nat \cup {Err}
               /\ ToBalance(f) # Err => ToBalance(f) = f /\ f # Err /\ f \in Nat
               /\ f \in Nat => ToBalance(f) = f /\ f # Err
    BY ErrAssumption DEF ToBalance, IntOrErr
  <1> QED
    BY <1>1, <1>2

-----------------------------------------------------------------------------
(* The curve.                                                              *)

\* StepTimesRate and StepRatePrice without the checks of the operations.
S == (PriceChangeStep * PriceChangeRate) \div Unit
P == (S * InitialPrice) \div Unit

\* The value of CurveAt(q), and twice S times the integral it rounds.
Value(q) == ((((q * Unit) \div (2 * S)) + InitialPrice) * q) \div Unit
Integral(q) == q * q + 2 * (q * P)

\* The products of the parameters are exact.
LEMMA ParameterFacts ==
  /\ Unit \in Nat /\ Unit > 0 /\ InitialPrice \in Nat
  /\ PriceChangeStep \in Nat /\ PriceChangeRate \in Nat
  /\ S \in Nat /\ S > 0 /\ S * Unit = PriceChangeStep * PriceChangeRate
  /\ P \in Nat /\ P * Unit = S * InitialPrice
  /\ SellPriceCoefficient \in Nat /\ SellPriceCoefficient > 0 /\ SellPriceCoefficient <= Unit
  /\ FreeCoefficient \in Nat /\ FreeCoefficient + SellPriceCoefficient <= Unit
  /\ Fee \in Nat /\ Fee <= Unit
  <1>1. /\ Unit \in Nat /\ Unit > 0
        /\ PriceChangeStep \in Nat \ {0} /\ PriceChangeRate \in Nat \ {0}
        /\ InitialPrice \in Nat \ {0}
    BY FixedFacts, CurveAssumption
  <1>2. /\ SellPriceCoefficient \in Nat /\ SellPriceCoefficient > 0
        /\ SellPriceCoefficient <= Unit
        /\ FreeCoefficient \in Nat /\ FreeCoefficient + SellPriceCoefficient <= Unit
        /\ Fee \in Nat /\ Fee <= Unit
    BY <1>1, CurveAssumption, CoverAssumption
  <1>3. \A k \in Nat : k % Unit = 0 => (k \div Unit) * Unit = k
    BY <1>1
  <1>4. PriceChangeStep * PriceChangeRate \in Nat /\ PriceChangeStep * PriceChangeRate > 0
    BY <1>1
  <1>5. S * Unit = PriceChangeStep * PriceChangeRate
    BY <1>3, <1>4, CoverAssumption DEF S
  <1>6. S \in Nat
    BY <1>1, <1>4, DivNat DEF S
  <1>7. S > 0
    BY <1>1, <1>4, <1>5, <1>6
  <1>8. S * InitialPrice \in Nat
    BY <1>1, <1>6
  <1>9. P * Unit = S * InitialPrice
    BY <1>3, <1>8, CoverAssumption DEF P, S
  <1>10. P \in Nat
    BY <1>1, <1>8, DivNat DEF P
  <1> QED
    BY <1>1, <1>2, <1>5, <1>6, <1>7, <1>9, <1>10

\* StepTimesRate and StepRatePrice are S and P when they are not errors.
LEMMA ParametersReturn ==
  /\ StepTimesRate \in IntOrErr /\ (StepTimesRate # Err => StepTimesRate = S)
  /\ StepRatePrice \in IntOrErr
  /\ StepRatePrice # Err => StepTimesRate # Err /\ StepRatePrice = P
  /\ FxMul(FxMul(Two, PriceChangeStep), PriceChangeRate) \in IntOrErr
  /\ FxMul(FxMul(Two, PriceChangeStep), PriceChangeRate) # Err =>
        /\ FxMul(FxMul(Two, PriceChangeStep), PriceChangeRate) = 2 * S
        /\ StepTimesRate # Err
  <1>1. /\ PriceChangeStep \in IntOrErr /\ PriceChangeRate \in IntOrErr
        /\ InitialPrice \in IntOrErr /\ Two \in IntOrErr
    BY ParameterFacts DEF IntOrErr, Two
  <1>2. StepTimesRate \in IntOrErr /\ (StepTimesRate # Err => StepTimesRate = S)
    BY <1>1, OperationFacts DEF StepTimesRate, S
  <1>3. /\ StepRatePrice \in IntOrErr
        /\ StepRatePrice # Err => StepTimesRate # Err /\ StepRatePrice = P
    BY <1>1, <1>2, OperationFacts DEF StepRatePrice, P
  <1> DEFINE twice == FxMul(Two, PriceChangeStep)
  <1>4. /\ twice \in IntOrErr
        /\ twice # Err => twice = ((2 * Unit) * PriceChangeStep) \div Unit
    BY <1>1, OperationFacts DEF Two
  <1>5. ((2 * Unit) * PriceChangeStep) \div Unit = 2 * PriceChangeStep
    <2>1. (2 * Unit) * PriceChangeStep = (2 * PriceChangeStep) * Unit
      BY ParameterFacts
    <2>2. \A k \in Nat : (k * Unit) \div Unit = k
      BY ParameterFacts
    <2>3. 2 * PriceChangeStep \in Nat
      BY ParameterFacts
    <2> QED
      BY <2>1, <2>2, <2>3
  <1> HIDE DEF twice
  <1>6. /\ FxMul(twice, PriceChangeRate) \in IntOrErr
        /\ FxMul(twice, PriceChangeRate) # Err =>
              /\ FxMul(twice, PriceChangeRate) = ((2 * PriceChangeStep) * PriceChangeRate) \div Unit
              /\ ((2 * PriceChangeStep) * PriceChangeRate) \div Unit \in Fixed
    BY <1>1, <1>4, <1>5, OperationFacts
  <1>7. ((2 * PriceChangeStep) * PriceChangeRate) \div Unit = 2 * S
    <2>1. (2 * PriceChangeStep) * PriceChangeRate = (2 * S) * Unit
      BY ParameterFacts
    <2>2. \A k \in Nat : (k * Unit) \div Unit = k
      BY ParameterFacts
    <2>3. 2 * S \in Nat
      BY ParameterFacts
    <2> QED
      BY <2>1, <2>2, <2>3
  <1>8. 2 * S \in Fixed => StepTimesRate # Err
    <2>1. 2 * S \in Fixed => S \in Fixed
      BY ParameterFacts, FixedFacts
    <2>2. StepTimesRate = Checked(S)
      <3>1. PriceChangeStep # Err /\ PriceChangeRate # Err
        BY ParameterFacts, ErrAssumption
      <3> QED
        BY <3>1 DEF StepTimesRate, FxMul, S
    <2> QED
      BY <2>1, <2>2, ParameterFacts, CheckedFacts
  <1> QED
    BY <1>2, <1>3, <1>6, <1>7, <1>8 DEF twice

\* CurveAt is Value when it returns.
LEMMA CurveReturns ==
  ASSUME NEW q \in IntOrErr
  PROVE  /\ CurveAt(q) \in IntOrErr
         /\ CurveAt(q) # Err =>
              q # Err /\ q \in Int /\ CurveAt(q) = Value(q) /\ StepTimesRate # Err
  <1> DEFINE divisor == FxMul(FxMul(Two, PriceChangeStep), PriceChangeRate)
  <1>1. /\ divisor \in IntOrErr
        /\ divisor # Err => divisor = 2 * S /\ divisor > 0 /\ StepTimesRate # Err
    BY ParametersReturn, ParameterFacts
  <1>2. CurveAt(q) = FxMul(FxAdd(FxDiv(q, divisor), InitialPrice), q)
    BY DEF CurveAt
  <1> HIDE DEF divisor
  <1>3. /\ FxDiv(q, divisor) \in IntOrErr
        /\ FxDiv(q, divisor) # Err =>
              FxDiv(q, divisor) = (q * Unit) \div (2 * S) /\ StepTimesRate # Err
    BY <1>1, QuotientFacts
  <1>4. InitialPrice \in IntOrErr
    BY ParameterFacts DEF IntOrErr
  <1>5. /\ FxAdd(FxDiv(q, divisor), InitialPrice) \in IntOrErr
        /\ FxAdd(FxDiv(q, divisor), InitialPrice) # Err =>
              /\ FxAdd(FxDiv(q, divisor), InitialPrice) = (q * Unit) \div (2 * S) + InitialPrice
              /\ StepTimesRate # Err
    BY <1>3, <1>4, OperationFacts
  <1>6. /\ CurveAt(q) \in IntOrErr
        /\ CurveAt(q) # Err => q # Err /\ CurveAt(q) = Value(q) /\ StepTimesRate # Err
    BY <1>2, <1>5, OperationFacts DEF Value
  <1> QED
    BY <1>6 DEF IntOrErr

\* The curve rounds its integral down, by less than q / Unit + 1.
LEMMA ValueBounds ==
  ASSUME NEW q \in Nat
  PROVE  /\ Value(q) \in Nat /\ Integral(q) \in Nat
         /\ (2 * S) * Value(q) <= Integral(q)
         /\ Integral(q) * Unit < (2 * S) * ((Value(q) + 1) * Unit + q)
  <1> DEFINE x == (q * Unit) \div (2 * S)
             v == Value(q)
  <1>1. q * Unit \in Nat /\ 2 * S \in Nat /\ 2 * S > 0
    BY ParameterFacts
  <1>2. x \in Nat /\ x * (2 * S) <= q * Unit /\ q * Unit < (x + 1) * (2 * S)
    BY <1>1, DivBounds, DivNat
  <1> HIDE DEF x
  <1>3. (x + InitialPrice) * q \in Nat
    BY <1>2, ParameterFacts
  <1>4. v = ((x + InitialPrice) * q) \div Unit
    BY DEF Value, x
  <1>5. v \in Nat /\ v * Unit <= (x + InitialPrice) * q /\ (x + InitialPrice) * q < (v + 1) * Unit
    BY <1>3, <1>4, ParameterFacts, DivBounds, DivNat
  <1> HIDE DEF v
  <1>6. Integral(q) \in Nat /\ Integral(q) = q * q + 2 * (q * P)
    BY ParameterFacts DEF Integral
  <1>7. Integral(q) * Unit = (q * Unit + (2 * S) * InitialPrice) * q
    <2>1. Integral(q) * Unit = (q * Unit) * q + (2 * q) * (P * Unit)
      BY <1>6, ParameterFacts
    <2>2. (2 * q) * (S * InitialPrice) = ((2 * S) * InitialPrice) * q
      BY ParameterFacts
    <2>3. ((q * Unit) * q) + (((2 * S) * InitialPrice) * q) = (q * Unit + (2 * S) * InitialPrice) * q
      BY ParameterFacts
    <2> QED
      BY <2>1, <2>2, <2>3, ParameterFacts
  <1>8. (2 * S) * v <= Integral(q)
    <2>1. (v * Unit) * (2 * S) <= ((x + InitialPrice) * q) * (2 * S)
      BY <1>1, <1>3, <1>5, ParameterFacts, ScaleLeq
    <2>2. ((x + InitialPrice) * q) * (2 * S) = (x * (2 * S) + (2 * S) * InitialPrice) * q
      BY <1>2, ParameterFacts
    <2>3. (x * (2 * S) + (2 * S) * InitialPrice) * q <= (q * Unit + (2 * S) * InitialPrice) * q
      <3>1. x * (2 * S) \in Int /\ (2 * S) * InitialPrice \in Int
        BY <1>2, ParameterFacts
      <3>2. /\ x * (2 * S) + (2 * S) * InitialPrice \in Int
            /\ q * Unit + (2 * S) * InitialPrice \in Int
            /\ x * (2 * S) + (2 * S) * InitialPrice <= q * Unit + (2 * S) * InitialPrice
        BY <1>1, <1>2, <3>1
      <3> QED
        BY <3>2, ScaleLeq
    <2>4. (v * Unit) * (2 * S) = ((2 * S) * v) * Unit /\ (2 * S) * v \in Int
      BY <1>5, ParameterFacts
    <2>5. /\ ((2 * S) * v) * Unit \in Int /\ Integral(q) * Unit \in Int
          /\ ((2 * S) * v) * Unit <= Integral(q) * Unit
      <3>1. /\ ((2 * S) * v) * Unit \in Int /\ Integral(q) * Unit \in Int
            /\ ((x + InitialPrice) * q) * (2 * S) \in Int
        BY <1>2, <1>6, <2>4, ParameterFacts
      <3> QED
        BY <3>1, <2>1, <2>2, <2>3, <2>4, <1>7
    <2>6. (Integral(q) + 1) * Unit > ((2 * S) * v) * Unit
      BY <2>4, <2>5, <1>6, ParameterFacts
    <2>7. (2 * S) * v < Integral(q) + 1
      BY <2>4, <2>6, <1>6, ParameterFacts, CancelFactor
    <2> QED
      BY <2>4, <2>7, <1>6
  <1>9. Integral(q) * Unit < (2 * S) * ((v + 1) * Unit + q)
    <2>1. (q * Unit + (2 * S) * InitialPrice) * q <= ((x + 1) * (2 * S) + (2 * S) * InitialPrice) * q
      <3>1. (x + 1) * (2 * S) \in Int /\ (2 * S) * InitialPrice \in Int
        BY <1>2, ParameterFacts
      <3>2. /\ (x + 1) * (2 * S) + (2 * S) * InitialPrice \in Int
            /\ q * Unit + (2 * S) * InitialPrice \in Int
            /\ q * Unit + (2 * S) * InitialPrice <= (x + 1) * (2 * S) + (2 * S) * InitialPrice
        BY <1>1, <1>2, <3>1
      <3> QED
        BY <3>2, ScaleLeq
    <2>2. ((x + 1) * (2 * S) + (2 * S) * InitialPrice) * q
             = ((x + InitialPrice) * q) * (2 * S) + (2 * S) * q
      BY <1>2, ParameterFacts
    <2>3. ((x + InitialPrice) * q) * (2 * S) < ((v + 1) * Unit) * (2 * S)
      BY <1>1, <1>3, <1>5, ParameterFacts, ScaleLess
    <2>4. ((v + 1) * Unit) * (2 * S) + (2 * S) * q = (2 * S) * ((v + 1) * Unit + q)
      BY <1>5, ParameterFacts
    <2>5. /\ ((x + InitialPrice) * q) * (2 * S) \in Int /\ (2 * S) * q \in Int
          /\ ((v + 1) * Unit) * (2 * S) \in Int /\ Integral(q) * Unit \in Int
      BY <1>2, <1>5, <1>6, ParameterFacts
    <2> QED
      BY <1>7, <2>1, <2>2, <2>3, <2>4, <2>5
  <1> QED
    BY <1>5, <1>6, <1>8, <1>9 DEF v

\* The curve rises.
LEMMA ValueRises ==
  ASSUME NEW q \in Nat, NEW r \in Nat, q <= r
  PROVE  Value(q) <= Value(r)
  <1> DEFINE x(k) == (k * Unit) \div (2 * S)
  <1>1. q * Unit \in Int /\ r * Unit \in Int /\ q * Unit <= r * Unit
    BY ParameterFacts, ScaleLeq
  <1>2. 2 * S \in Nat /\ 2 * S > 0
    BY ParameterFacts
  <1>3. x(q) <= x(r)
    BY <1>1, <1>2, DivMonotone
  <1>4. x(q) \in Nat /\ x(r) \in Nat
    <2>1. q * Unit \in Nat /\ r * Unit \in Nat
      BY ParameterFacts
    <2> QED
      BY <2>1, <1>2, DivNat
  <1>5. /\ Value(q) = ((x(q) + InitialPrice) * q) \div Unit
        /\ Value(r) = ((x(r) + InitialPrice) * r) \div Unit
    BY DEF Value
  <1> HIDE DEF x
  <1>6. (x(q) + InitialPrice) * q <= (x(r) + InitialPrice) * r
    <2>1. x(q) + InitialPrice \in Nat /\ x(r) + InitialPrice \in Nat
          /\ x(q) + InitialPrice <= x(r) + InitialPrice
      BY <1>3, <1>4, ParameterFacts
    <2>2. (x(q) + InitialPrice) * q <= (x(r) + InitialPrice) * q
      BY <2>1, ScaleLeq
    <2>3. q * (x(r) + InitialPrice) <= r * (x(r) + InitialPrice)
      BY <2>1, ScaleLeq
    <2>4. /\ q * (x(r) + InitialPrice) = (x(r) + InitialPrice) * q
          /\ r * (x(r) + InitialPrice) = (x(r) + InitialPrice) * r
          /\ (x(q) + InitialPrice) * q \in Int
          /\ (x(r) + InitialPrice) * q \in Int /\ (x(r) + InitialPrice) * r \in Int
      BY <2>1
    <2> QED
      BY <2>2, <2>3, <2>4
  <1>7. (x(q) + InitialPrice) * q \in Int /\ (x(r) + InitialPrice) * r \in Int
    BY <1>4, ParameterFacts
  <1> QED
    BY <1>5, <1>6, <1>7, DivMonotone, ParameterFacts

-----------------------------------------------------------------------------
(* Buying for a desired input: the root of price_for_collateral_asset.     *)

\* The number under the root, without the checks of the operations.
UnderRoot(q, paid) ==
    (q * q) \div Unit + ((2 * q) * P) \div Unit
      + (S * ((P * InitialPrice) \div Unit + 2 * paid)) \div Unit

\* BuyUnderRoot is UnderRoot when it returns.
LEMMA UnderRootReturns ==
  ASSUME NEW q \in Nat, NEW paid \in Nat
  PROVE  /\ BuyUnderRoot(q, paid) \in IntOrErr
         /\ BuyUnderRoot(q, paid) # Err =>
              /\ StepTimesRate # Err /\ StepRatePrice # Err
              /\ BuyUnderRoot(q, paid) = UnderRoot(q, paid)
  <1>1. /\ q \in IntOrErr /\ paid \in IntOrErr /\ InitialPrice \in IntOrErr /\ Two \in IntOrErr
        /\ StepTimesRate \in IntOrErr /\ StepRatePrice \in IntOrErr
    BY ParameterFacts, ParametersReturn DEF IntOrErr, Two
  <1>2. \A k \in Nat : FxMul(Two, k) \in IntOrErr /\ (FxMul(Two, k) # Err => FxMul(Two, k) = 2 * k)
    <2> TAKE k \in Nat
    <2>1. /\ FxMul(Two, k) \in IntOrErr
          /\ FxMul(Two, k) # Err => FxMul(Two, k) = (Two * k) \div Unit
      <3>1. k \in IntOrErr
        BY DEF IntOrErr
      <3> QED
        BY <1>1, <3>1, OperationFacts
    <2>2. (2 * Unit) * k = (2 * k) * Unit /\ 2 * k \in Nat
      BY ParameterFacts
    <2>3. \A n \in Nat : (n * Unit) \div Unit = n
      BY ParameterFacts
    <2> QED
      BY <2>1, <2>2, <2>3 DEF Two
  <1>3. /\ FxMul(q, q) \in IntOrErr
        /\ FxMul(q, q) # Err => FxMul(q, q) = (q * q) \div Unit
    BY <1>1, OperationFacts
  <1>4. /\ FxMul(FxMul(Two, q), StepRatePrice) \in IntOrErr
        /\ FxMul(FxMul(Two, q), StepRatePrice) # Err =>
              FxMul(FxMul(Two, q), StepRatePrice) = ((2 * q) * P) \div Unit
    <2> DEFINE double == FxMul(Two, q)
    <2>1. double \in IntOrErr /\ (double # Err => double = 2 * q)
      BY <1>2
    <2> HIDE DEF double
    <2>2. /\ FxMul(double, StepRatePrice) \in IntOrErr
          /\ FxMul(double, StepRatePrice) # Err =>
                /\ double # Err /\ StepRatePrice # Err
                /\ FxMul(double, StepRatePrice) = (double * StepRatePrice) \div Unit
      BY <1>1, <2>1, OperationFacts
    <2> QED
      BY <2>1, <2>2, ParametersReturn DEF double
  <1> DEFINE inner == FxAdd(FxMul(StepRatePrice, InitialPrice), FxMul(Two, paid))
  <1>5. /\ FxMul(StepRatePrice, InitialPrice) \in IntOrErr
        /\ FxMul(StepRatePrice, InitialPrice) # Err =>
              /\ StepRatePrice # Err
              /\ FxMul(StepRatePrice, InitialPrice) = (P * InitialPrice) \div Unit
    BY <1>1, ParametersReturn, OperationFacts
  <1>6. inner \in IntOrErr /\ (inner # Err => /\ StepRatePrice # Err
                                              /\ inner = (P * InitialPrice) \div Unit + 2 * paid)
    BY <1>2, <1>5, OperationFacts
  <1> HIDE DEF inner
  <1>7. /\ FxMul(StepTimesRate, inner) \in IntOrErr
        /\ FxMul(StepTimesRate, inner) # Err =>
              /\ StepTimesRate # Err /\ StepRatePrice # Err
              /\ FxMul(StepTimesRate, inner) =
                   (S * ((P * InitialPrice) \div Unit + 2 * paid)) \div Unit
    BY <1>1, <1>6, ParametersReturn, OperationFacts
  <1>8. BuyUnderRoot(q, paid) = FxAdd(FxAdd(FxMul(q, q), FxMul(FxMul(Two, q), StepRatePrice)),
                                      FxMul(StepTimesRate, inner))
    BY DEF BuyUnderRoot, inner
  <1>9. /\ FxAdd(FxMul(q, q), FxMul(FxMul(Two, q), StepRatePrice)) \in IntOrErr
        /\ FxAdd(FxMul(q, q), FxMul(FxMul(Two, q), StepRatePrice)) # Err =>
              FxAdd(FxMul(q, q), FxMul(FxMul(Two, q), StepRatePrice))
                = (q * q) \div Unit + ((2 * q) * P) \div Unit
    BY <1>3, <1>4, OperationFacts
  <1> QED
    BY <1>7, <1>8, <1>9, OperationFacts DEF UnderRoot

\* So many units of the number under the root are at most a square and what was paid.
LEMMA UnderRootBound ==
  ASSUME NEW q \in Nat, NEW paid \in Nat
  PROVE  /\ UnderRoot(q, paid) \in Nat
         /\ UnderRoot(q, paid) * Unit <= (q + P) * (q + P) + (2 * S) * paid
  <1> DEFINE a == (q * q) \div Unit
             b == ((2 * q) * P) \div Unit
             c == (P * InitialPrice) \div Unit
             d == (S * (c + 2 * paid)) \div Unit
  <1>1. a \in Nat /\ a * Unit <= q * q
    <2>1. q * q \in Nat
      OBVIOUS
    <2> QED
      BY <2>1, ParameterFacts, DivBounds, DivNat
  <1>2. b \in Nat /\ b * Unit <= (2 * q) * P
    <2>1. (2 * q) * P \in Nat
      BY ParameterFacts
    <2> QED
      BY <2>1, ParameterFacts, DivBounds, DivNat
  <1>3. c \in Nat /\ c * Unit <= P * InitialPrice
    <2>1. P * InitialPrice \in Nat
      BY ParameterFacts
    <2> QED
      BY <2>1, ParameterFacts, DivBounds, DivNat
  <1> HIDE DEF a, b, c
  <1>4. d \in Nat /\ d * Unit <= S * (c + 2 * paid)
    <2>1. S * (c + 2 * paid) \in Nat
      BY <1>3, ParameterFacts
    <2> QED
      BY <2>1, ParameterFacts, DivBounds, DivNat
  <1> HIDE DEF d
  <1>5. UnderRoot(q, paid) = a + b + d
    BY DEF UnderRoot, a, b, c, d
  <1>6. S * c <= P * P
    <2>1. (c * Unit) * S <= (P * InitialPrice) * S
      BY <1>3, ParameterFacts, ScaleLeq
    <2>2. (P * InitialPrice) * S = P * (S * InitialPrice)
      BY ParameterFacts
    <2>3. P * (P * Unit) = (P * P) * Unit /\ (c * Unit) * S = (S * c) * Unit
      BY <1>3, ParameterFacts
    <2>4. (S * c) * Unit <= (P * P) * Unit
      BY <2>1, <2>2, <2>3, ParameterFacts
    <2>5. /\ S * c \in Int /\ P * P \in Int
          /\ (S * c) * Unit \in Int /\ (P * P) * Unit \in Int
      BY <1>3, ParameterFacts
    <2>6. (S * c) * Unit < (P * P + 1) * Unit
      <3>1. (P * P + 1) * Unit = (P * P) * Unit + Unit
        BY <2>5, ParameterFacts
      <3> QED
        BY <2>4, <2>5, <3>1, ParameterFacts
    <2>7. S * c < P * P + 1
      BY <2>5, <2>6, ParameterFacts, CancelFactor
    <2> QED
      BY <2>5, <2>7
  <1>7. S * (c + 2 * paid) = S * c + (2 * S) * paid
    BY <1>3, ParameterFacts
  <1>8. (a + b + d) * Unit = a * Unit + b * Unit + d * Unit
    BY <1>1, <1>2, <1>4, ParameterFacts
  <1>9. (q + P) * (q + P) = q * q + (2 * q) * P + P * P
    BY ParameterFacts
  <1>10. /\ a * Unit \in Int /\ b * Unit \in Int /\ d * Unit \in Int /\ S * c \in Int
         /\ q * q \in Int /\ (2 * q) * P \in Int /\ P * P \in Int /\ (2 * S) * paid \in Int
    BY <1>1, <1>2, <1>3, <1>4, ParameterFacts
  <1>11. (a + b + d) * Unit <= (q + P) * (q + P) + (2 * S) * paid
    BY <1>1, <1>2, <1>4, <1>6, <1>7, <1>8, <1>9, <1>10
  <1> QED
    BY <1>1, <1>2, <1>4, <1>5, <1>11

\* So many units of the number under the root are no further below than its roundings.
LEMMA UnderRootShort ==
  ASSUME NEW q \in Nat, NEW paid \in Nat
  PROVE  (q + P) * (q + P) + (2 * S) * paid < UnderRoot(q, paid) * Unit + (3 * Unit + S)
  <1> DEFINE a == (q * q) \div Unit
             b == ((2 * q) * P) \div Unit
             c == (P * InitialPrice) \div Unit
             d == (S * (c + 2 * paid)) \div Unit
  <1>1. a \in Nat /\ q * q \in Nat /\ q * q < (a + 1) * Unit
    <2>1. q * q \in Nat
      OBVIOUS
    <2> QED
      BY <2>1, ParameterFacts, DivBounds, DivNat
  <1>2. b \in Nat /\ (2 * q) * P \in Nat /\ (2 * q) * P < (b + 1) * Unit
    <2>1. (2 * q) * P \in Nat
      BY ParameterFacts
    <2> QED
      BY <2>1, ParameterFacts, DivBounds, DivNat
  <1>3. c \in Nat /\ P * InitialPrice < (c + 1) * Unit
    <2>1. P * InitialPrice \in Nat
      BY ParameterFacts
    <2> QED
      BY <2>1, ParameterFacts, DivBounds, DivNat
  <1> HIDE DEF a, b, c
  <1>4. d \in Nat /\ S * (c + 2 * paid) < (d + 1) * Unit
    <2>1. S * (c + 2 * paid) \in Nat
      BY <1>3, ParameterFacts
    <2> QED
      BY <2>1, ParameterFacts, DivBounds, DivNat
  <1> HIDE DEF d
  <1>5. UnderRoot(q, paid) = a + b + d
    BY DEF UnderRoot, a, b, c, d
  <1>6. P * P < S * c + S
    <2>1. (P * InitialPrice) * S < ((c + 1) * Unit) * S
      <3>1. P * InitialPrice \in Int /\ (c + 1) * Unit \in Int
        BY <1>3, ParameterFacts
      <3> QED
        BY <1>3, <3>1, ParameterFacts, ScaleLess
    <2>2. (P * InitialPrice) * S = P * (S * InitialPrice)
      BY ParameterFacts
    <2>3. P * (P * Unit) = (P * P) * Unit /\ ((c + 1) * Unit) * S = (S * c + S) * Unit
      BY <1>3, ParameterFacts
    <2>4. P * P \in Int /\ S * c + S \in Int
      BY <1>3, ParameterFacts
    <2>5. (P * P) * Unit < (S * c + S) * Unit
      BY <2>1, <2>2, <2>3, ParameterFacts
    <2> QED
      BY <2>4, <2>5, ParameterFacts, CancelFactor
  <1>7. S * (c + 2 * paid) = S * c + (2 * S) * paid
    BY <1>3, ParameterFacts
  <1>8. /\ (a + b + d) * Unit = a * Unit + b * Unit + d * Unit
        /\ (a + 1) * Unit = a * Unit + Unit
        /\ (b + 1) * Unit = b * Unit + Unit
        /\ (d + 1) * Unit = d * Unit + Unit
    BY <1>1, <1>2, <1>4, ParameterFacts
  <1>9. (q + P) * (q + P) = q * q + (2 * q) * P + P * P
    BY ParameterFacts
  <1>10. /\ a * Unit \in Int /\ b * Unit \in Int /\ d * Unit \in Int /\ S * c \in Int
         /\ P * P \in Int /\ (2 * S) * paid \in Int
    BY <1>1, <1>2, <1>3, <1>4, ParameterFacts
  <1>11. (q + P) * (q + P) + (2 * S) * paid < (a + b + d) * Unit + (3 * Unit + S)
    BY <1>1, <1>2, <1>4, <1>6, <1>7, <1>8, <1>9, <1>10, ParameterFacts
  <1> QED
    BY <1>5, <1>11

\* What is bought for a desired input is worth at most that on the curve, but
\* for the curve's own rounding.
LEMMA BoughtIsPaidFor ==
  ASSUME NEW q \in Nat, NEW paid \in Nat, NEW m \in Nat,
         (m + (q + P)) * (m + (q + P)) <= (q + P) * (q + P) + (2 * S) * paid
  PROVE  Value(q + m) <= Value(q) + (paid + CurveRounding(q))
  <1> DEFINE v == Value(q)
             w == Value(q + m)
             k == q \div Unit
  <1>1. v \in Nat /\ Integral(q) \in Nat /\ Integral(q) * Unit < (2 * S) * ((v + 1) * Unit + q)
    BY ValueBounds
  <1>2. w \in Nat /\ Integral(q + m) \in Nat /\ (2 * S) * w <= Integral(q + m)
    <2>1. q + m \in Nat
      OBVIOUS
    <2> QED
      BY <2>1, ValueBounds
  <1>3. k \in Nat /\ q < (k + 1) * Unit
    BY ParameterFacts, DivBounds, DivNat
  <1> HIDE DEF v, w, k
  <1>4. Integral(q + m) <= Integral(q) + (2 * S) * paid
    <2>1. /\ Integral(q + m) = (m + (q + P)) * (m + (q + P)) - P * P
          /\ Integral(q) = (q + P) * (q + P) - P * P
      <3>1. P \in Int
        BY ParameterFacts
      <3>2. /\ (q + P) * (q + P) = (q * q + 2 * (q * P)) + P * P
            /\ (m + (q + P)) * (m + (q + P))
                 = ((q + m) * (q + m) + 2 * ((q + m) * P)) + P * P
            /\ P * P \in Int /\ q * q + 2 * (q * P) \in Int
            /\ (q + m) * (q + m) + 2 * ((q + m) * P) \in Int
        BY <3>1
      <3> QED
        BY <3>2 DEF Integral
    <2>2. /\ (m + (q + P)) * (m + (q + P)) \in Int /\ (q + P) * (q + P) \in Int
          /\ P * P \in Int /\ (2 * S) * paid \in Int
      BY ParameterFacts
    <2> QED
      BY <2>1, <2>2
  <1>5. ((2 * S) * w) * Unit <= Integral(q) * Unit + ((2 * S) * paid) * Unit
    <2>1. /\ (2 * S) * w \in Int /\ (2 * S) * paid \in Int
          /\ (2 * S) * w <= Integral(q) + (2 * S) * paid
      BY <1>1, <1>2, <1>4, ParameterFacts
    <2>2. ((2 * S) * w) * Unit <= (Integral(q) + (2 * S) * paid) * Unit
      BY <1>1, <2>1, ParameterFacts, ScaleLeq
    <2>3. (Integral(q) + (2 * S) * paid) * Unit = Integral(q) * Unit + ((2 * S) * paid) * Unit
      BY <1>1, <2>1, ParameterFacts
    <2> QED
      BY <2>2, <2>3
  <1>6. ((2 * S) * w) * Unit < (2 * S) * (((v + 1) * Unit + q) + paid * Unit)
    <2>1. /\ (2 * S) * (((v + 1) * Unit + q) + paid * Unit)
               = (2 * S) * ((v + 1) * Unit + q) + ((2 * S) * paid) * Unit
      BY <1>1, ParameterFacts
    <2>2. /\ ((2 * S) * w) * Unit \in Int /\ Integral(q) * Unit \in Int
          /\ ((2 * S) * paid) * Unit \in Int /\ (2 * S) * ((v + 1) * Unit + q) \in Int
      BY <1>1, <1>2, ParameterFacts
    <2> QED
      BY <1>1, <1>5, <2>1, <2>2
  <1>7. w * Unit < ((v + 1) * Unit + q) + paid * Unit
    <2>1. ((2 * S) * w) * Unit = (w * Unit) * (2 * S) /\ w * Unit \in Int
      BY <1>2, ParameterFacts
    <2>2. /\ ((v + 1) * Unit + q) + paid * Unit \in Int
          /\ (2 * S) * (((v + 1) * Unit + q) + paid * Unit)
               = (((v + 1) * Unit + q) + paid * Unit) * (2 * S)
      BY <1>1, ParameterFacts
    <2>3. 2 * S \in Nat
      BY ParameterFacts
    <2> QED
      BY <1>6, <2>1, <2>2, <2>3, CancelFactor
  <1>8. w * Unit < ((v + 1) + paid + (k + 1)) * Unit
    <2>1. ((v + 1) + paid + (k + 1)) * Unit = (v + 1) * Unit + paid * Unit + (k + 1) * Unit
      BY <1>1, <1>3, ParameterFacts
    <2>2. /\ w * Unit \in Int /\ (v + 1) * Unit \in Int /\ paid * Unit \in Int
          /\ (k + 1) * Unit \in Int
      BY <1>1, <1>2, <1>3, ParameterFacts
    <2> QED
      BY <1>3, <1>7, <2>1, <2>2
  <1>9. w < (v + 1) + paid + (k + 1)
    BY <1>1, <1>2, <1>3, <1>8, ParameterFacts, CancelFactor
  <1>10. w <= v + (paid + (k + 1))
    BY <1>1, <1>2, <1>3, <1>9
  <1> QED
    BY <1>10 DEF v, w, k, CurveRounding

-----------------------------------------------------------------------------
(* Selling for a desired output.                                           *)

\* The term squared under the root, and what is taken off its square.
Term(q) == (((q * SellPriceCoefficient) \div Unit) * Unit) \div S
             + (InitialPrice * SellPriceCoefficient) \div Unit
PaidTerm(paid) == ((((2 * SellPriceCoefficient) * paid) \div Unit) * Unit) \div S

\* SellUnderRoot when it returns.
LEMMA SellRootReturns ==
  ASSUME NEW q \in Nat, NEW paid \in Nat, StepTimesRate # Err
  PROVE  /\ SellUnderRoot(q, paid) \in IntOrErr
         /\ SellUnderRoot(q, paid) # Err =>
              SellUnderRoot(q, paid) = (Term(q) * Term(q)) \div Unit - PaidTerm(paid)
  <1>1. /\ q \in IntOrErr /\ paid \in IntOrErr /\ InitialPrice \in IntOrErr /\ Two \in IntOrErr
        /\ SellPriceCoefficient \in IntOrErr /\ StepTimesRate \in IntOrErr
        /\ StepTimesRate = S /\ S > 0
    BY ParameterFacts, ParametersReturn DEF IntOrErr, Two
  <1>2. /\ FxMul(Two, SellPriceCoefficient) \in IntOrErr
        /\ FxMul(Two, SellPriceCoefficient) # Err =>
              FxMul(Two, SellPriceCoefficient) = 2 * SellPriceCoefficient
    <2>1. /\ FxMul(Two, SellPriceCoefficient) \in IntOrErr
          /\ FxMul(Two, SellPriceCoefficient) # Err =>
                FxMul(Two, SellPriceCoefficient) = (Two * SellPriceCoefficient) \div Unit
      BY <1>1, OperationFacts
    <2>2. /\ (2 * Unit) * SellPriceCoefficient = (2 * SellPriceCoefficient) * Unit
          /\ 2 * SellPriceCoefficient \in Nat
      BY ParameterFacts
    <2>3. \A n \in Nat : (n * Unit) \div Unit = n
      BY ParameterFacts
    <2> QED
      BY <2>1, <2>2, <2>3 DEF Two
  <1> DEFINE part == FxMul(q, SellPriceCoefficient)
             base == FxMul(InitialPrice, SellPriceCoefficient)
             two == FxMul(Two, SellPriceCoefficient)
             off == FxMul(two, paid)
  <1>3. /\ part \in IntOrErr /\ (part # Err => part = (q * SellPriceCoefficient) \div Unit)
        /\ base \in IntOrErr
        /\ (base # Err => base = (InitialPrice * SellPriceCoefficient) \div Unit)
    BY <1>1, OperationFacts
  <1>4. two \in IntOrErr /\ (two # Err => two = 2 * SellPriceCoefficient)
    BY <1>2
  <1> HIDE DEF two
  <1>5. off \in IntOrErr /\ (off # Err => off = ((2 * SellPriceCoefficient) * paid) \div Unit)
    BY <1>1, <1>4, OperationFacts
  <1>6. /\ SellTerm(q) = FxAdd(FxDiv(part, StepTimesRate), base)
        /\ SellUnderRoot(q, paid)
             = FxSub(FxMul(SellTerm(q), SellTerm(q)), FxDiv(off, StepTimesRate))
    BY DEF SellTerm, SellUnderRoot, two
  <1> HIDE DEF part, base, off
  <1>7. /\ FxDiv(part, StepTimesRate) \in IntOrErr
        /\ FxDiv(part, StepTimesRate) # Err =>
              FxDiv(part, StepTimesRate)
                = (((q * SellPriceCoefficient) \div Unit) * Unit) \div S
        /\ FxDiv(off, StepTimesRate) \in IntOrErr
        /\ FxDiv(off, StepTimesRate) # Err => FxDiv(off, StepTimesRate) = PaidTerm(paid)
    BY <1>1, <1>3, <1>5, QuotientFacts DEF PaidTerm
  <1>8. SellTerm(q) \in IntOrErr /\ (SellTerm(q) # Err => SellTerm(q) = Term(q))
    BY <1>3, <1>6, <1>7, OperationFacts DEF Term
  <1>9. /\ FxMul(SellTerm(q), SellTerm(q)) \in IntOrErr
        /\ FxMul(SellTerm(q), SellTerm(q)) # Err =>
              FxMul(SellTerm(q), SellTerm(q)) = (Term(q) * Term(q)) \div Unit
    BY <1>8, OperationFacts
  <1> QED
    BY <1>6, <1>7, <1>9, OperationFacts

\* The term is at most the sell coefficient's part of q + P, counted in S.
LEMMA TermBound ==
  ASSUME NEW q \in Nat
  PROVE  /\ Term(q) \in Nat
         /\ S * Term(q) <= SellPriceCoefficient * (q + P)
  <1> DEFINE c == SellPriceCoefficient
             a == (q * c) \div Unit
             b == (a * Unit) \div S
             d == (InitialPrice * c) \div Unit
  <1>1. c \in Nat
    BY ParameterFacts
  <1> HIDE DEF c
  <1>2. a \in Nat /\ a * Unit <= q * c
    <2>1. q * c \in Nat
      BY <1>1
    <2> QED
      BY <2>1, ParameterFacts, DivBounds, DivNat
  <1>3. d \in Nat /\ d * Unit <= InitialPrice * c
    <2>1. InitialPrice * c \in Nat
      BY <1>1, ParameterFacts
    <2> QED
      BY <2>1, ParameterFacts, DivBounds, DivNat
  <1> HIDE DEF a, d
  <1>4. b \in Nat /\ b * S <= a * Unit
    <2>1. a * Unit \in Nat
      BY <1>2, ParameterFacts
    <2> QED
      BY <2>1, ParameterFacts, DivBounds, DivNat
  <1> HIDE DEF b
  <1>5. S * d <= c * P
    <2>1. (d * Unit) * S <= (InitialPrice * c) * S
      BY <1>1, <1>3, ParameterFacts, ScaleLeq
    <2>2. (InitialPrice * c) * S = (S * InitialPrice) * c
      BY <1>1, ParameterFacts
    <2>3. (P * Unit) * c = (c * P) * Unit /\ (d * Unit) * S = (S * d) * Unit
      BY <1>1, <1>3, ParameterFacts
    <2>4. S * d \in Int /\ c * P \in Int /\ (S * d) * Unit \in Int /\ (c * P) * Unit \in Int
      BY <1>1, <1>3, ParameterFacts
    <2>5. (S * d) * Unit < (c * P + 1) * Unit
      <3>1. (c * P + 1) * Unit = (c * P) * Unit + Unit
        BY <2>4, ParameterFacts
      <3> QED
        BY <2>1, <2>2, <2>3, <2>4, <3>1, ParameterFacts
    <2>6. S * d < c * P + 1
      BY <2>4, <2>5, ParameterFacts, CancelFactor
    <2> QED
      BY <2>4, <2>6
  <1>6. Term(q) = b + d
    BY DEF Term, a, b, c, d
  <1>7. S * (b + d) = b * S + S * d /\ c * (q + P) = q * c + c * P
    BY <1>1, <1>3, <1>4, ParameterFacts
  <1>8. /\ b * S \in Int /\ S * d \in Int /\ q * c \in Int /\ c * P \in Int /\ a * Unit \in Int
    BY <1>1, <1>2, <1>3, <1>4, ParameterFacts
  <1>9. S * (b + d) <= c * (q + P)
    BY <1>2, <1>4, <1>5, <1>7, <1>8
  <1> QED
    BY <1>3, <1>4, <1>6, <1>9 DEF c

\* And no further below that than its roundings.
LEMMA TermShort ==
  ASSUME NEW q \in Nat
  PROVE  SellPriceCoefficient * (q + P) < S * Term(q) + (Unit + 2 * S)
  <1> DEFINE c == SellPriceCoefficient
             a == (q * c) \div Unit
             b == (a * Unit) \div S
             d == (InitialPrice * c) \div Unit
  <1>1. c \in Nat
    BY ParameterFacts
  <1> HIDE DEF c
  <1>2. a \in Nat /\ q * c < (a + 1) * Unit
    <2>1. q * c \in Nat
      BY <1>1
    <2> QED
      BY <2>1, ParameterFacts, DivBounds, DivNat
  <1>3. d \in Nat /\ InitialPrice * c < (d + 1) * Unit
    <2>1. InitialPrice * c \in Nat
      BY <1>1, ParameterFacts
    <2> QED
      BY <2>1, ParameterFacts, DivBounds, DivNat
  <1> HIDE DEF a, d
  <1>4. b \in Nat /\ a * Unit < (b + 1) * S
    <2>1. a * Unit \in Nat
      BY <1>2, ParameterFacts
    <2> QED
      BY <2>1, ParameterFacts, DivBounds, DivNat
  <1> HIDE DEF b
  <1>5. c * P < S * d + S
    <2>1. (InitialPrice * c) * S < ((d + 1) * Unit) * S
      <3>1. InitialPrice * c \in Int /\ (d + 1) * Unit \in Int
        BY <1>1, <1>3, ParameterFacts
      <3> QED
        BY <1>3, <3>1, ParameterFacts, ScaleLess
    <2>2. (InitialPrice * c) * S = (S * InitialPrice) * c
      BY <1>1, ParameterFacts
    <2>3. (P * Unit) * c = (c * P) * Unit /\ ((d + 1) * Unit) * S = (S * d + S) * Unit
      BY <1>1, <1>3, ParameterFacts
    <2>4. c * P \in Int /\ S * d + S \in Int
      BY <1>1, <1>3, ParameterFacts
    <2>5. (c * P) * Unit < (S * d + S) * Unit
      BY <2>1, <2>2, <2>3, ParameterFacts
    <2> QED
      BY <2>4, <2>5, ParameterFacts, CancelFactor
  <1>6. Term(q) = b + d
    BY DEF Term, a, b, c, d
  <1>7. /\ S * (b + d) = b * S + S * d /\ c * (q + P) = q * c + c * P
        /\ (a + 1) * Unit = a * Unit + Unit /\ (b + 1) * S = b * S + S
    BY <1>1, <1>2, <1>3, <1>4, ParameterFacts
  <1>8. /\ b * S \in Int /\ S * d \in Int /\ q * c \in Int /\ c * P \in Int /\ a * Unit \in Int
    BY <1>1, <1>2, <1>3, <1>4, ParameterFacts
  <1>9. c * (q + P) < S * (b + d) + (Unit + 2 * S)
    BY <1>2, <1>4, <1>5, <1>7, <1>8, ParameterFacts
  <1> QED
    BY <1>6, <1>9 DEF c

\* What is taken off is at least what was paid, but for its roundings.
LEMMA PaidTermBound ==
  ASSUME NEW paid \in Nat
  PROVE  /\ PaidTerm(paid) \in Nat
         /\ (2 * SellPriceCoefficient) * paid - Unit - S < S * PaidTerm(paid)
  <1> DEFINE n == (2 * SellPriceCoefficient) * paid
             a == n \div Unit
             b == (a * Unit) \div S
  <1>1. n \in Nat
    BY ParameterFacts
  <1> HIDE DEF n
  <1>2. a \in Nat /\ n < (a + 1) * Unit
    BY <1>1, ParameterFacts, DivBounds, DivNat
  <1> HIDE DEF a
  <1>3. a * Unit \in Nat
    BY <1>2, ParameterFacts
  <1>4. b \in Nat /\ a * Unit < (b + 1) * S
    BY <1>3, ParameterFacts, DivBounds, DivNat
  <1> HIDE DEF b
  <1>5. (a + 1) * Unit = a * Unit + Unit /\ (b + 1) * S = S * b + S /\ S * b \in Int
    BY <1>2, <1>4, ParameterFacts
  <1>6. n - Unit - S < S * b
    BY <1>1, <1>2, <1>3, <1>4, <1>5, ParameterFacts
  <1>7. PaidTerm(paid) = b
    BY DEF PaidTerm, a, b, n
  <1> QED
    BY <1>4, <1>6, <1>7 DEF n

\* And at most what was paid.
LEMMA PaidTermLeq ==
  ASSUME NEW paid \in Nat
  PROVE  S * PaidTerm(paid) <= (2 * SellPriceCoefficient) * paid
  <1> DEFINE n == (2 * SellPriceCoefficient) * paid
             a == n \div Unit
             b == (a * Unit) \div S
  <1>1. n \in Nat
    BY ParameterFacts
  <1> HIDE DEF n
  <1>2. a \in Nat /\ a * Unit <= n
    BY <1>1, ParameterFacts, DivBounds, DivNat
  <1> HIDE DEF a
  <1>3. a * Unit \in Nat
    BY <1>2, ParameterFacts
  <1>4. b \in Nat /\ b * S <= a * Unit
    BY <1>3, ParameterFacts, DivBounds, DivNat
  <1> HIDE DEF b
  <1>5. S * b = b * S /\ S * b \in Int
    BY <1>4, ParameterFacts
  <1>6. S * b <= n
    BY <1>1, <1>2, <1>3, <1>4, <1>5
  <1>7. PaidTerm(paid) = b
    BY DEF PaidTerm, a, b, n
  <1> QED
    BY <1>6, <1>7 DEF n

\* What a sale for a desired output burns was worth that to the reserves, but for
\* the roundings of the curve and of the root.
LEMMA SoldIsWorthIt ==
  ASSUME NEW q \in Nat, NEW r \in Nat, r <= q, NEW paid \in Nat, NEW root \in Nat,
         StepTimesRate # Err,
         root * root <= ((Term(q) * Term(q)) \div Unit - PaidTerm(paid)) * Unit,
         SellPriceCoefficient * (r + P) <= S * root
  PROVE  (SellPriceCoefficient * Value(r)) \div Unit + paid
            <= (SellPriceCoefficient * Value(q)) \div Unit + CurveRounding(q) + RootRounding
  <1> DEFINE c == SellPriceCoefficient
             t == Term(q)
             b == PaidTerm(paid)
             v == Value(q)
             w == Value(r)
             E == (c * v) \div Unit
             F == (c * w) \div Unit
             k == q \div Unit
             a == (Unit + S) \div (2 * c)
             gap == Integral(q) - Integral(r)
             x == r + P
             y == q + P
  <1>1. /\ c \in Nat /\ c > 0 /\ c <= Unit /\ S \in Nat /\ S > 0 /\ P \in Nat
        /\ Unit \in Nat /\ Unit > 0 /\ x \in Nat /\ y \in Nat
    BY ParameterFacts
  <1>2. t \in Nat /\ S * t <= c * y
    BY TermBound
  <1>3. b \in Nat /\ (2 * c) * paid - Unit - S < S * b
    BY PaidTermBound
  <1>4. /\ v \in Nat /\ Integral(q) \in Nat
        /\ Integral(q) * Unit < (2 * S) * ((v + 1) * Unit + q)
    BY ValueBounds
  <1>5. w \in Nat /\ Integral(r) \in Nat /\ (2 * S) * w <= Integral(r)
    BY ValueBounds
  <1>6. gap \in Int /\ gap = y * y - x * x
    <2>1. /\ (q + P) * (q + P) = (q * q + 2 * (q * P)) + P * P
          /\ (r + P) * (r + P) = (r * r + 2 * (r * P)) + P * P
          /\ P * P \in Int /\ q * q + 2 * (q * P) \in Int /\ r * r + 2 * (r * P) \in Int
      BY <1>1
    <2> QED
      BY <2>1, <1>4, <1>5 DEF Integral
  <1>7. root * root <= ((t * t) \div Unit - b) * Unit /\ c * x <= S * root
    OBVIOUS
  <1>8. E \in Nat /\ c * v < (E + 1) * Unit
    <2>1. c * v \in Nat
      BY <1>1, <1>4
    <2> QED
      BY <2>1, <1>1, DivBounds, DivNat
  <1>9. F \in Nat /\ F * Unit <= c * w
    <2>1. c * w \in Nat
      BY <1>1, <1>5
    <2> QED
      BY <2>1, <1>1, DivBounds, DivNat
  <1>10. k \in Nat /\ q < (k + 1) * Unit
    BY <1>1, DivBounds, DivNat
  <1>11. a \in Nat /\ Unit + S < (a + 1) * (2 * c)
    <2>1. Unit + S \in Nat /\ 2 * c \in Nat /\ 2 * c > 0
      BY <1>1
    <2> QED
      BY <2>1, DivBounds, DivNat
  <1> HIDE DEF c, t, b, v, w, E, F, k, a, gap, x, y
  <1>12. root * root <= t * t - b * Unit
    <2>1. t * t \in Nat
      BY <1>2
    <2>2. (t * t) \div Unit \in Int /\ ((t * t) \div Unit) * Unit <= t * t
      BY <2>1, <1>1, DivBounds
    <2>3. ((t * t) \div Unit - b) * Unit = ((t * t) \div Unit) * Unit - b * Unit
      BY <2>2, <1>1, <1>3
    <2>4. ((t * t) \div Unit) * Unit \in Int /\ b * Unit \in Int /\ root * root \in Int
      BY <2>2, <1>1, <1>3
    <2> QED
      BY <1>7, <2>1, <2>2, <2>3, <2>4
  <1>13. (c * x) * (c * x) <= (S * root) * (S * root)
    <2>1. c * x \in Nat /\ S * root \in Nat
      BY <1>1
    <2> QED
      BY <1>7, <2>1, SquareLeq
  <1>14. (S * t) * (S * t) <= (c * y) * (c * y)
    <2>1. S * t \in Nat /\ c * y \in Nat
      BY <1>1, <1>2
    <2> QED
      BY <1>2, <2>1, SquareLeq
  <1>15. (S * root) * (S * root) <= (S * t) * (S * t) - (S * b) * (S * Unit)
    <2>1. (root * root) * (S * S) <= (t * t - b * Unit) * (S * S)
      <3>1. root * root \in Int /\ t * t - b * Unit \in Int /\ S * S \in Nat
        BY <1>1, <1>2, <1>3
      <3> QED
        BY <1>12, <3>1, ScaleLeq
    <2>2. (root * root) * (S * S) = (S * root) * (S * root)
      BY <1>1
    <2>3. (t * t - b * Unit) * (S * S) = (S * t) * (S * t) - (S * b) * (S * Unit)
      BY <1>1, <1>2, <1>3
    <2> QED
      BY <2>1, <2>2, <2>3
  <1>16. (S * b) * (S * Unit) <= (c * c) * gap
    <2>1. (c * c) * gap = (c * y) * (c * y) - (c * x) * (c * x)
      BY <1>1, <1>6
    <2>2. /\ (c * x) * (c * x) \in Int /\ (c * y) * (c * y) \in Int
          /\ (S * root) * (S * root) \in Int /\ (S * t) * (S * t) \in Int
          /\ (S * b) * (S * Unit) \in Int
      BY <1>1, <1>2, <1>3
    <2> QED
      BY <1>13, <1>14, <1>15, <2>1, <2>2
  <1> DEFINE owed == (2 * c) * paid - Unit - S
  <1>17. owed \in Int /\ owed < S * b /\ S * b \in Int
    BY <1>1, <1>3
  <1> HIDE DEF owed
  <1>18. owed * (S * Unit) < (c * c) * gap
    <2>1. S * Unit \in Nat /\ S * Unit > 0
      BY <1>1
    <2>2. owed * (S * Unit) < (S * b) * (S * Unit)
      BY <2>1, <1>17, ScaleLess
    <2>3. /\ owed * (S * Unit) \in Int /\ (S * b) * (S * Unit) \in Int
          /\ (c * c) * gap \in Int
      BY <1>1, <1>3, <1>6, <1>17
    <2> QED
      BY <1>16, <2>2, <2>3
  <1> DEFINE step == (v - w + 1) * Unit + q
  <1>19. step \in Int
    BY <1>1, <1>4, <1>5
  <1>20. gap * Unit < (2 * S) * step
    <2>1. ((2 * S) * w) * Unit <= Integral(r) * Unit
      <3>1. (2 * S) * w \in Int
        BY <1>1, <1>5
      <3> QED
        BY <1>1, <1>5, <3>1, ScaleLeq
    <2>2. gap * Unit = Integral(q) * Unit - Integral(r) * Unit
      BY <1>1, <1>4, <1>5 DEF gap
    <2>3. (2 * S) * step = (2 * S) * ((v + 1) * Unit + q) - ((2 * S) * w) * Unit
      BY <1>1, <1>4, <1>5
    <2>4. /\ Integral(q) * Unit \in Int /\ Integral(r) * Unit \in Int
          /\ ((2 * S) * w) * Unit \in Int /\ (2 * S) * ((v + 1) * Unit + q) \in Int
      BY <1>1, <1>4, <1>5
    <2> QED
      BY <1>4, <2>1, <2>2, <2>3, <2>4
  <1> HIDE DEF step
  <1>21. (owed * Unit) * Unit < (2 * (c * c)) * step
    <2>1. (owed * (S * Unit)) * Unit < ((c * c) * gap) * Unit
      <3>1. owed * (S * Unit) \in Int /\ (c * c) * gap \in Int
        BY <1>1, <1>6, <1>17
      <3> QED
        BY <1>1, <1>18, <3>1, ScaleLess
    <2>2. (gap * Unit) * (c * c) < ((2 * S) * step) * (c * c)
      <3>1. gap * Unit \in Int /\ (2 * S) * step \in Int /\ c * c \in Nat /\ c * c > 0
        BY <1>1, <1>6, <1>19
      <3> QED
        BY <1>20, <3>1, ScaleLess
    <2>3. /\ (owed * (S * Unit)) * Unit = ((owed * Unit) * Unit) * S
          /\ ((c * c) * gap) * Unit = (gap * Unit) * (c * c)
          /\ ((2 * S) * step) * (c * c) = ((2 * (c * c)) * step) * S
      BY <1>1, <1>6, <1>17, <1>19
    <2>4. /\ ((owed * Unit) * Unit) * S \in Int /\ ((2 * (c * c)) * step) * S \in Int
          /\ (gap * Unit) * (c * c) \in Int
          /\ (owed * Unit) * Unit \in Int /\ (2 * (c * c)) * step \in Int
      BY <1>1, <1>6, <1>17, <1>19
    <2>5. ((owed * Unit) * Unit) * S < ((2 * (c * c)) * step) * S
      BY <2>1, <2>2, <2>3, <2>4
    <2> QED
      BY <1>1, <2>4, <2>5, CancelFactor
  <1> DEFINE left == (E + 2 - F) * Unit + q
  <1>22. left \in Int
    BY <1>1, <1>8, <1>9
  <1>23. c * step <= left * Unit
    <2>1. c * step = ((c * v) - (c * w)) * Unit + c * Unit + c * q
      BY <1>1, <1>4, <1>5 DEF step
    <2>2. (c * v) - (c * w) < (E + 1 - F) * Unit
      <3>1. (E + 1 - F) * Unit = (E + 1) * Unit - F * Unit
        BY <1>1, <1>8, <1>9
      <3>2. /\ c * v \in Int /\ c * w \in Int /\ (E + 1) * Unit \in Int /\ F * Unit \in Int
        BY <1>1, <1>4, <1>5, <1>8, <1>9
      <3> QED
        BY <1>8, <1>9, <3>1, <3>2
    <2>3. ((c * v) - (c * w)) * Unit <= ((E + 1 - F) * Unit) * Unit
      <3>1. (c * v) - (c * w) \in Int /\ (E + 1 - F) * Unit \in Int
        BY <1>1, <1>4, <1>5, <1>8, <1>9
      <3>2. (c * v) - (c * w) <= (E + 1 - F) * Unit
        BY <2>2, <3>1
      <3> QED
        BY <1>1, <3>1, <3>2, ScaleLeq
    <2>4. c * Unit <= Unit * Unit
      BY <1>1, ScaleLeq
    <2>5. c * q <= Unit * q
      BY <1>1, ScaleLeq
    <2>6. left * Unit = ((E + 1 - F) * Unit) * Unit + Unit * Unit + Unit * q
      BY <1>1, <1>8, <1>9
    <2>7. /\ ((c * v) - (c * w)) * Unit \in Int /\ ((E + 1 - F) * Unit) * Unit \in Int
          /\ c * Unit \in Int /\ Unit * Unit \in Int /\ c * q \in Int /\ Unit * q \in Int
      BY <1>1, <1>4, <1>5, <1>8, <1>9
    <2> HIDE DEF left
    <2> QED
      BY <2>1, <2>3, <2>4, <2>5, <2>6, <2>7
  <1> HIDE DEF left
  <1>24. owed * Unit < (2 * c) * left
    <2>1. (c * step) * (2 * c) <= (left * Unit) * (2 * c)
      <3>1. c * step \in Int /\ left * Unit \in Int /\ 2 * c \in Nat
        BY <1>1, <1>19, <1>22
      <3> QED
        BY <1>23, <3>1, ScaleLeq
    <2>2. /\ (c * step) * (2 * c) = (2 * (c * c)) * step
          /\ (left * Unit) * (2 * c) = ((2 * c) * left) * Unit
      BY <1>1, <1>19, <1>22
    <2>3. /\ (owed * Unit) * Unit \in Int /\ (2 * (c * c)) * step \in Int
          /\ ((2 * c) * left) * Unit \in Int /\ owed * Unit \in Int /\ (2 * c) * left \in Int
      BY <1>1, <1>17, <1>19, <1>22
    <2>4. (owed * Unit) * Unit < ((2 * c) * left) * Unit
      BY <1>21, <2>1, <2>2, <2>3
    <2> QED
      BY <1>1, <2>3, <2>4, CancelFactor
  <1> DEFINE sum == E + 3 - F + k
  <1>25. sum \in Int /\ left < sum * Unit
    <2>1. sum * Unit = (E + 2 - F) * Unit + (k + 1) * Unit
      BY <1>1, <1>8, <1>9, <1>10
    <2>2. (E + 2 - F) * Unit \in Int /\ (k + 1) * Unit \in Int
      BY <1>1, <1>8, <1>9, <1>10
    <2> QED
      BY <1>8, <1>9, <1>10, <2>1, <2>2 DEF left
  <1> HIDE DEF sum
  <1>26. owed < (2 * c) * sum
    <2>1. left * (2 * c) < (sum * Unit) * (2 * c)
      <3>1. 2 * c \in Nat /\ 2 * c > 0 /\ sum * Unit \in Int
        BY <1>1, <1>25
      <3> QED
        BY <1>22, <1>25, <3>1, ScaleLess
    <2>2. /\ left * (2 * c) = (2 * c) * left
          /\ (sum * Unit) * (2 * c) = ((2 * c) * sum) * Unit
      BY <1>1, <1>22, <1>25
    <2>3. /\ (2 * c) * left \in Int /\ ((2 * c) * sum) * Unit \in Int
          /\ (2 * c) * sum \in Int /\ owed * Unit \in Int
      BY <1>1, <1>17, <1>22, <1>25
    <2>4. owed * Unit < ((2 * c) * sum) * Unit
      BY <1>24, <2>1, <2>2, <2>3
    <2> QED
      BY <1>1, <1>17, <2>3, <2>4, CancelFactor
  <1>27. paid * (2 * c) < (sum + (a + 1)) * (2 * c)
    <2>1. (sum + (a + 1)) * (2 * c) = (2 * c) * sum + (a + 1) * (2 * c)
      BY <1>1, <1>11, <1>25
    <2>2. paid * (2 * c) = (2 * c) * paid /\ (2 * c) * paid \in Int
          /\ (2 * c) * sum \in Int /\ (a + 1) * (2 * c) \in Int
      BY <1>1, <1>11, <1>25
    <2>3. (2 * c) * paid < (2 * c) * sum + (Unit + S)
      BY <1>1, <1>26, <2>2 DEF owed
    <2> QED
      BY <1>1, <1>11, <2>1, <2>2, <2>3
  <1>28. paid < sum + (a + 1)
    <2>1. sum + (a + 1) \in Int /\ 2 * c \in Nat
      BY <1>1, <1>11, <1>25
    <2> QED
      BY <1>27, <2>1, CancelFactor
  <1>29. F + paid <= E + (k + 1) + (a + 2)
    BY <1>8, <1>9, <1>10, <1>11, <1>28 DEF sum
  <1>30. S = StepTimesRate
    BY ParametersReturn
  <1> QED
    BY <1>29, <1>30 DEF E, F, k, a, c, v, w, CurveRounding, RootRounding

-----------------------------------------------------------------------------
(* What the formulas return.                                               *)

\* price_for_main_asset: a part of the curve between two issuances.
LEMMA MainAssetPrice ==
  ASSUME NEW q \in Nat, NEW m \in Nat
  PROVE  /\ \A kind : PriceForMainAsset(q, m, kind) \in Nat \cup {Err}
         /\ PriceForMainAsset(q, m, Buy) # Err =>
              /\ PriceForMainAsset(q, m, Buy) = Value(q + m) - Value(q)
              /\ m <= FixedMax /\ StepTimesRate # Err
         /\ m <= q /\ PriceForMainAsset(q, m, Sell) # Err =>
              /\ PriceForMainAsset(q, m, Sell)
                   = (SellPriceCoefficient * (Value(q) - Value(q - m))) \div Unit
              /\ PriceForMainAsset(q, m, Sell) <= FixedMax
              /\ m <= FixedMax /\ StepTimesRate # Err
  <1> DEFINE qf == FromBalance(q)
             mf == FromBalance(m)
             up == FxSub(CurveAt(FxAdd(qf, mf)), CurveAt(qf))
             down == FxSub(CurveAt(qf), CurveAt(FxSub(qf, mf)))
  <1>1. /\ qf \in IntOrErr /\ (qf # Err => qf = q)
        /\ mf \in IntOrErr /\ (mf # Err => mf = m /\ m <= FixedMax)
    BY ConversionFacts
  <1>2. /\ PriceForMainAsset(q, m, Buy) = ToBalance(up)
        /\ \A kind : kind # Buy =>
              PriceForMainAsset(q, m, kind) = ToBalance(FxMul(SellPriceCoefficient, down))
        /\ Buy # Sell
    BY DEF PriceForMainAsset, Buy, Sell
  <1> HIDE DEF qf, mf
  <1>3. /\ FxAdd(qf, mf) \in IntOrErr /\ (FxAdd(qf, mf) # Err => mf # Err /\ FxAdd(qf, mf) = q + m)
        /\ FxSub(qf, mf) \in IntOrErr /\ (FxSub(qf, mf) # Err => mf # Err /\ FxSub(qf, mf) = q - m)
    BY <1>1, OperationFacts
  <1>4. /\ CurveAt(qf) \in IntOrErr
        /\ CurveAt(qf) # Err => CurveAt(qf) = Value(q) /\ StepTimesRate # Err
    BY <1>1, CurveReturns
  <1>5. /\ CurveAt(FxAdd(qf, mf)) \in IntOrErr
        /\ CurveAt(FxAdd(qf, mf)) # Err => mf # Err /\ CurveAt(FxAdd(qf, mf)) = Value(q + m)
    BY <1>3, CurveReturns
  <1>6. /\ CurveAt(FxSub(qf, mf)) \in IntOrErr
        /\ CurveAt(FxSub(qf, mf)) # Err => mf # Err /\ CurveAt(FxSub(qf, mf)) = Value(q - m)
    BY <1>3, CurveReturns
  <1>7. /\ up \in IntOrErr
        /\ up # Err => mf # Err /\ StepTimesRate # Err /\ up = Value(q + m) - Value(q)
    BY <1>4, <1>5, OperationFacts
  <1>8. /\ down \in IntOrErr
        /\ down # Err => mf # Err /\ StepTimesRate # Err /\ down = Value(q) - Value(q - m)
    BY <1>4, <1>6, OperationFacts
  <1> HIDE DEF up, down
  <1>9. /\ FxMul(SellPriceCoefficient, down) \in IntOrErr
        /\ FxMul(SellPriceCoefficient, down) # Err =>
             /\ down # Err
             /\ FxMul(SellPriceCoefficient, down) = (SellPriceCoefficient * down) \div Unit
             /\ (SellPriceCoefficient * down) \div Unit <= FixedMax
    <2>1. SellPriceCoefficient \in IntOrErr
      BY ParameterFacts DEF IntOrErr
    <2> QED
      BY <1>8, <2>1, OperationFacts, FixedFacts
  <1>10. \A kind : PriceForMainAsset(q, m, kind) \in Nat \cup {Err}
    BY <1>2, <1>7, <1>9, ConversionFacts
  <1>11. PriceForMainAsset(q, m, Buy) # Err =>
              /\ PriceForMainAsset(q, m, Buy) = Value(q + m) - Value(q)
              /\ m <= FixedMax /\ StepTimesRate # Err
    BY <1>1, <1>2, <1>7, ConversionFacts
  <1>12. PriceForMainAsset(q, m, Sell) # Err =>
              /\ PriceForMainAsset(q, m, Sell)
                   = (SellPriceCoefficient * (Value(q) - Value(q - m))) \div Unit
              /\ PriceForMainAsset(q, m, Sell) <= FixedMax
              /\ m <= FixedMax /\ StepTimesRate # Err
    BY <1>1, <1>2, <1>8, <1>9, ConversionFacts
  <1> QED
    BY <1>10, <1>11, <1>12

\* The numbers under the roots are integers or errors, and absorb errors.
LEMMA RootsReturn ==
  ASSUME NEW q \in IntOrErr, NEW paid \in IntOrErr
  PROVE  /\ BuyUnderRoot(q, paid) \in IntOrErr /\ SellUnderRoot(q, paid) \in IntOrErr
         /\ BuyUnderRoot(q, paid) # Err => paid # Err
         /\ SellUnderRoot(q, paid) # Err => paid # Err
  <1>1. /\ InitialPrice \in IntOrErr /\ Two \in IntOrErr /\ SellPriceCoefficient \in IntOrErr
        /\ StepTimesRate \in IntOrErr /\ StepRatePrice \in IntOrErr
        /\ StepTimesRate # Err => StepTimesRate > 0
    BY ParameterFacts, ParametersReturn DEF IntOrErr, Two
  <1> DEFINE two == FxMul(Two, paid)
             inner == FxAdd(FxMul(StepRatePrice, InitialPrice), two)
             outer == FxMul(StepTimesRate, inner)
             sum == FxAdd(FxMul(q, q), FxMul(FxMul(Two, q), StepRatePrice))
  <1>2. two \in IntOrErr /\ (two # Err => paid # Err)
    BY <1>1, OperationFacts
  <1> HIDE DEF two
  <1>3. inner \in IntOrErr /\ (inner # Err => paid # Err)
    <2>1. FxMul(StepRatePrice, InitialPrice) \in IntOrErr
      BY <1>1, OperationFacts
    <2> QED
      BY <1>2, <2>1, OperationFacts
  <1> HIDE DEF inner
  <1>4. outer \in IntOrErr /\ (outer # Err => paid # Err)
    BY <1>1, <1>3, OperationFacts
  <1>5. sum \in IntOrErr
    <2>1. FxMul(q, q) \in IntOrErr /\ FxMul(Two, q) \in IntOrErr
      BY <1>1, OperationFacts
    <2>2. FxMul(FxMul(Two, q), StepRatePrice) \in IntOrErr
      BY <1>1, <2>1, OperationFacts
    <2> QED
      BY <2>1, <2>2, OperationFacts
  <1>6. BuyUnderRoot(q, paid) = FxAdd(sum, outer)
    BY DEF BuyUnderRoot, sum, outer, inner, two
  <1> HIDE DEF outer, sum
  <1>7. BuyUnderRoot(q, paid) \in IntOrErr /\ (BuyUnderRoot(q, paid) # Err => paid # Err)
    BY <1>4, <1>5, <1>6, OperationFacts
  <1> DEFINE off == FxMul(FxMul(Two, SellPriceCoefficient), paid)
             taken == FxDiv(off, StepTimesRate)
             square == FxMul(SellTerm(q), SellTerm(q))
  <1>8. off \in IntOrErr /\ (off # Err => paid # Err)
    <2>1. FxMul(Two, SellPriceCoefficient) \in IntOrErr
      BY <1>1, OperationFacts
    <2> QED
      BY <2>1, OperationFacts
  <1> HIDE DEF off
  <1>9. taken \in IntOrErr /\ (taken # Err => paid # Err)
    BY <1>1, <1>8, QuotientFacts
  <1>10. square \in IntOrErr
    <2>1. /\ FxMul(q, SellPriceCoefficient) \in IntOrErr
          /\ FxMul(InitialPrice, SellPriceCoefficient) \in IntOrErr
      BY <1>1, OperationFacts
    <2>2. FxDiv(FxMul(q, SellPriceCoefficient), StepTimesRate) \in IntOrErr
      BY <1>1, <2>1, QuotientFacts
    <2>3. SellTerm(q) \in IntOrErr
      BY <2>1, <2>2, OperationFacts DEF SellTerm
    <2> QED
      BY <2>3, OperationFacts
  <1>11. SellUnderRoot(q, paid) = FxSub(square, taken)
    BY DEF SellUnderRoot, square, taken, off
  <1> HIDE DEF taken, square
  <1>12. SellUnderRoot(q, paid) \in IntOrErr /\ (SellUnderRoot(q, paid) # Err => paid # Err)
    BY <1>9, <1>10, <1>11, OperationFacts
  <1> QED
    BY <1>7, <1>12

\* price_for_collateral_asset: a root of what BoughtIsPaidFor and SoldIsWorthIt ask.
LEMMA CollateralPrice ==
  ASSUME NEW q \in Nat, NEW paid \in Nat
  PROVE  /\ \A kind : PriceForCollateralAsset(q, paid, kind) \in Nat \cup {Err}
         /\ LET m == PriceForCollateralAsset(q, paid, Buy)
            IN  m # Err =>
                  /\ m <= FixedMax /\ StepTimesRate # Err /\ StepRatePrice = P
                  /\ (m + (q + P)) * (m + (q + P)) <= (q + P) * (q + P) + (2 * S) * paid
                  /\ UnderRoot(q, paid) * Unit < (m + (q + P) + 1) * (m + (q + P) + 1)
         /\ LET m == PriceForCollateralAsset(q, paid, Sell)
            IN  m # Err =>
                  /\ paid <= FixedMax /\ StepTimesRate # Err /\ StepRatePrice = P
                  /\ (q - m) + P \in Nat
                  /\ \E root \in Nat :
                        /\ root * root
                             <= ((Term(q) * Term(q)) \div Unit - PaidTerm(paid)) * Unit
                        /\ ((Term(q) * Term(q)) \div Unit - PaidTerm(paid)) * Unit
                             < (root + 1) * (root + 1)
                        /\ SellPriceCoefficient * ((q - m) + P) <= S * root
                        /\ S * root < SellPriceCoefficient * ((q - m) + P + 1) + Unit
  <1> DEFINE qf == FromBalance(q)
             pf == FromBalance(paid)
             bought == FxSqrt(BuyUnderRoot(qf, pf))
             sold == FxSqrt(SellUnderRoot(qf, pf))
             shifted == FxSub(bought, qf)
             gain == FxSub(shifted, StepRatePrice)
             scaled == FxMul(StepTimesRate, sold)
             rest == FxDiv(scaled, SellPriceCoefficient)
             top == FxAdd(qf, StepRatePrice)
             give == FxSub(top, rest)
  <1>1. /\ qf \in IntOrErr /\ (qf # Err => qf = q)
        /\ pf \in IntOrErr /\ (pf # Err => pf = paid /\ paid <= FixedMax)
    BY ConversionFacts
  <1>2. /\ PriceForCollateralAsset(q, paid, Buy) = ToBalance(gain)
        /\ \A kind : kind # Buy => PriceForCollateralAsset(q, paid, kind) = ToBalance(give)
        /\ Buy # Sell
    BY DEF PriceForCollateralAsset, Buy, Sell
  <1> HIDE DEF qf, pf
  <1>3. /\ StepTimesRate \in IntOrErr /\ (StepTimesRate # Err => StepTimesRate = S)
        /\ StepRatePrice \in IntOrErr
        /\ StepRatePrice # Err => StepTimesRate # Err /\ StepRatePrice = P
        /\ S \in Nat /\ S > 0 /\ P \in Nat
        /\ SellPriceCoefficient \in IntOrErr /\ SellPriceCoefficient \in Nat
        /\ SellPriceCoefficient > 0
    BY ParametersReturn, ParameterFacts DEF IntOrErr
  <1>4. BuyUnderRoot(qf, pf) \in IntOrErr /\ SellUnderRoot(qf, pf) \in IntOrErr
    BY <1>1, <1>3, RootsReturn
  <1>5. /\ bought \in IntOrErr
        /\ bought # Err =>
             /\ BuyUnderRoot(qf, pf) # Err /\ bought \in Nat
             /\ bought * bought <= BuyUnderRoot(qf, pf) * Unit
             /\ BuyUnderRoot(qf, pf) * Unit < (bought + 1) * (bought + 1)
        /\ sold \in IntOrErr
        /\ sold # Err =>
             /\ SellUnderRoot(qf, pf) # Err /\ sold \in Nat
             /\ sold * sold <= SellUnderRoot(qf, pf) * Unit
             /\ SellUnderRoot(qf, pf) * Unit < (sold + 1) * (sold + 1)
    BY <1>4, SqrtFacts
  <1> HIDE DEF bought, sold
  <1>6. /\ shifted \in IntOrErr
        /\ shifted # Err => bought # Err /\ qf # Err /\ shifted = bought - q
    BY <1>1, <1>5, OperationFacts
  <1> HIDE DEF shifted
  <1>7. /\ gain \in IntOrErr
        /\ gain # Err => /\ bought # Err /\ qf # Err /\ StepTimesRate # Err
                         /\ StepRatePrice # Err
                         /\ gain = (bought - q) - P /\ gain <= FixedMax
    BY <1>3, <1>6, OperationFacts, FixedFacts
  <1>8. /\ scaled \in IntOrErr
        /\ scaled # Err => StepTimesRate # Err /\ sold # Err /\ scaled = (S * sold) \div Unit
    BY <1>3, <1>5, OperationFacts
  <1> HIDE DEF scaled
  <1>9. /\ rest \in IntOrErr
        /\ rest # Err => scaled # Err /\ rest = (scaled * Unit) \div SellPriceCoefficient
    BY <1>3, <1>8, QuotientFacts
  <1>10. /\ top \in IntOrErr
         /\ top # Err => qf # Err /\ StepRatePrice = P /\ top = q + P
    <2>1. qf \in IntOrErr /\ StepRatePrice \in IntOrErr
      BY <1>1, <1>3
    <2>2. /\ top \in IntOrErr
          /\ top # Err => qf # Err /\ StepRatePrice # Err /\ top = qf + StepRatePrice
      BY <2>1, OperationFacts
    <2> QED
      BY <1>1, <1>3, <2>2
  <1> HIDE DEF rest, top
  <1>11. give \in IntOrErr /\ (give # Err => top # Err /\ rest # Err /\ give = (q + P) - rest)
    BY <1>9, <1>10, OperationFacts
  <1> HIDE DEF gain, give
  <1>12. \A kind : PriceForCollateralAsset(q, paid, kind) \in Nat \cup {Err}
    BY <1>2, <1>7, <1>11, ConversionFacts
  <1>13. ASSUME NEW m, m = PriceForCollateralAsset(q, paid, Buy), m # Err
         PROVE  /\ m <= FixedMax /\ StepTimesRate # Err /\ StepRatePrice = P
                /\ (m + (q + P)) * (m + (q + P)) <= (q + P) * (q + P) + (2 * S) * paid
                /\ UnderRoot(q, paid) * Unit < (m + (q + P) + 1) * (m + (q + P) + 1)
    <2>1. /\ gain = m /\ m \in Nat /\ gain # Err
      BY <1>2, <1>7, <1>13, ConversionFacts
    <2>2. /\ bought \in Nat /\ BuyUnderRoot(qf, pf) # Err /\ qf = q
          /\ bought * bought <= BuyUnderRoot(qf, pf) * Unit
          /\ BuyUnderRoot(qf, pf) * Unit < (bought + 1) * (bought + 1)
          /\ bought = m + (q + P)
      BY <1>1, <1>3, <1>5, <1>7, <2>1
    <2>3. pf # Err
      BY <1>1, <1>3, <2>2, RootsReturn
    <2>4. BuyUnderRoot(qf, pf) = UnderRoot(q, paid)
      BY <1>1, <2>2, <2>3, UnderRootReturns
    <2>5. /\ UnderRoot(q, paid) \in Nat
          /\ UnderRoot(q, paid) * Unit <= (q + P) * (q + P) + (2 * S) * paid
      BY UnderRootBound
    <2>6. /\ UnderRoot(q, paid) * Unit \in Int /\ bought * bought \in Int
          /\ (q + P) * (q + P) + (2 * S) * paid \in Int
      BY <1>3, <2>2, <2>5, ParameterFacts
    <2>7. bought * bought <= (q + P) * (q + P) + (2 * S) * paid
      BY <2>2, <2>4, <2>5, <2>6
    <2> QED
      BY <1>3, <1>7, <2>1, <2>2, <2>4, <2>7
  <1>14. ASSUME NEW m, m = PriceForCollateralAsset(q, paid, Sell), m # Err
         PROVE  /\ paid <= FixedMax /\ StepTimesRate # Err /\ StepRatePrice = P
                /\ (q - m) + P \in Nat
                /\ \E root \in Nat :
                      /\ root * root
                           <= ((Term(q) * Term(q)) \div Unit - PaidTerm(paid)) * Unit
                      /\ ((Term(q) * Term(q)) \div Unit - PaidTerm(paid)) * Unit
                           < (root + 1) * (root + 1)
                      /\ SellPriceCoefficient * ((q - m) + P) <= S * root
                      /\ S * root < SellPriceCoefficient * ((q - m) + P + 1) + Unit
    <2>1. /\ give = m /\ m \in Nat /\ give # Err
      BY <1>2, <1>11, <1>14, ConversionFacts
    <2>2. /\ rest # Err /\ scaled # Err /\ sold # Err /\ qf = q /\ rest = (q - m) + P
          /\ rest = (scaled * Unit) \div SellPriceCoefficient
          /\ scaled = (S * sold) \div Unit /\ StepTimesRate # Err /\ StepRatePrice = P
          /\ sold \in Nat /\ SellUnderRoot(qf, pf) # Err
          /\ sold * sold <= SellUnderRoot(qf, pf) * Unit
          /\ SellUnderRoot(qf, pf) * Unit < (sold + 1) * (sold + 1)
      <3>1. /\ rest # Err /\ scaled # Err /\ sold # Err /\ qf = q /\ m = (q + P) - rest
        BY <1>1, <1>8, <1>9, <1>10, <1>11, <2>1
      <3>2. rest \in Int
        BY <1>9, <3>1 DEF IntOrErr
      <3>3. rest = (q - m) + P
        BY <1>3, <3>1, <3>2
      <3> QED
        BY <1>5, <1>8, <1>9, <1>10, <1>11, <2>1, <3>1, <3>3
    <2>3. pf # Err
      BY <1>1, <1>3, <2>2, RootsReturn
    <2>4. SellUnderRoot(qf, pf) = (Term(q) * Term(q)) \div Unit - PaidTerm(paid)
      BY <1>1, <2>2, <2>3, SellRootReturns
    <2>5. /\ rest \in Nat
          /\ SellPriceCoefficient * rest <= S * sold
          /\ S * sold < SellPriceCoefficient * (rest + 1) + Unit
      <3>1. S * sold \in Nat
        BY <1>3, <2>2
      <3>2. /\ scaled \in Nat /\ scaled * Unit <= S * sold
            /\ S * sold < (scaled + 1) * Unit
        BY <3>1, <2>2, ParameterFacts, DivBounds, DivNat
      <3>3. scaled * Unit \in Nat /\ (scaled + 1) * Unit = scaled * Unit + Unit
        BY <3>2, ParameterFacts
      <3>4. /\ rest \in Nat /\ rest * SellPriceCoefficient <= scaled * Unit
            /\ scaled * Unit < (rest + 1) * SellPriceCoefficient
        BY <1>3, <2>2, <3>3, DivBounds, DivNat
      <3>5. /\ rest * SellPriceCoefficient = SellPriceCoefficient * rest
            /\ (rest + 1) * SellPriceCoefficient = SellPriceCoefficient * (rest + 1)
            /\ SellPriceCoefficient * rest \in Int /\ SellPriceCoefficient * (rest + 1) \in Int
        BY <1>3, <3>4
      <3> QED
        BY <3>1, <3>2, <3>3, <3>4, <3>5, ParameterFacts
    <2> QED
      BY <1>1, <2>2, <2>3, <2>4, <2>5
  <1> QED
    BY <1>12, <1>13, <1>14

-----------------------------------------------------------------------------
(* Shares of an amount and the reserves.                                   *)

\* A coefficient of at most one takes a part of an amount.
LEMMA PartFacts ==
  ASSUME NEW c \in 0 .. Unit, NEW n \in 0 .. FixedMax
  PROVE  /\ ToBalance(FxMul(c, n)) \in 0 .. n
         /\ ToBalance(FxMul(c, n)) * Unit <= n * c
         /\ ToBalance(FxMul(c, FromBalance(n))) = ToBalance(FxMul(c, n))
         /\ ToBalance(FxMul(FromBalance(n), c)) = ToBalance(FxMul(c, n))
         /\ ToBalance(FxMul(n, c)) = ToBalance(FxMul(c, n))
  <1> DEFINE k == (n * c) \div Unit
  <1>1. Unit \in Nat /\ Unit > 0 /\ c \in Nat /\ c <= Unit /\ n \in Nat /\ n <= FixedMax
    BY FixedFacts
  <1>2. n * c \in Nat /\ n * c <= n * Unit
    <2>1. c * n <= Unit * n
      BY <1>1, ScaleLeq
    <2>2. c * n = n * c /\ Unit * n = n * Unit /\ n * c \in Nat /\ n * Unit \in Nat
      BY <1>1
    <2> QED
      BY <2>1, <2>2
  <1>3. k \in Nat /\ k * Unit <= n * c
    BY <1>1, <1>2, DivBounds, DivNat
  <1> HIDE DEF k
  <1>4. k <= n
    <2>1. k * Unit \in Int /\ n * Unit \in Int /\ (n + 1) * Unit = n * Unit + Unit
      BY <1>1, <1>3
    <2>2. k * Unit < (n + 1) * Unit
      BY <1>1, <1>2, <1>3, <2>1
    <2>3. k < n + 1
      BY <1>1, <1>3, <2>2, CancelFactor
    <2> QED
      BY <1>1, <1>3, <2>3
  <1>5. k \in Fixed /\ n \in Fixed
    BY <1>1, <1>3, <1>4, FixedFacts
  <1>6. c # Err /\ n # Err /\ FromBalance(n) = n
    BY <1>1, ErrAssumption, ConversionFacts
  <1>7. FxMul(c, n) = Checked((c * n) \div Unit) /\ FxMul(n, c) = Checked(k)
    BY <1>6 DEF FxMul, k
  <1>8. (c * n) \div Unit = k
    <2>1. c * n = n * c
      BY <1>1
    <2> QED
      BY <2>1 DEF k
  <1>9. FxMul(c, n) = k /\ FxMul(n, c) = k
    BY <1>3, <1>5, <1>7, <1>8, CheckedFacts
  <1>10. ToBalance(k) = k
    BY <1>3, ConversionFacts DEF IntOrErr
  <1> QED
    BY <1>3, <1>4, <1>6, <1>9, <1>10

\* The fee is a part of the amount.
LEMMA FeePart ==
  ASSUME NEW n \in 0 .. FixedMax
  PROVE  FeeFor(n) \in 0 .. n
  <1>1. Fee \in 0 .. Unit
    BY ParameterFacts
  <1> QED
    BY <1>1, PartFacts DEF FeeFor

\* The free part of the reserves is a part of their surplus.
LEMMA FreeFacts ==
  ASSUME NEW reserves \in Nat, NEW expected \in Nat
  PROVE  LET free == FreeAmount(reserves, expected)
         IN  /\ free \in Nat /\ free <= reserves
             /\ reserves > expected => free * Unit <= (reserves - expected) * FreeCoefficient
             /\ reserves <= expected => free = 0
  <1> DEFINE free == FreeAmount(reserves, expected)
  <1>1. CASE Exceed(reserves, expected)
    <2>1. reserves <= FixedMax /\ reserves > expected /\ free
            = ToBalance(FxMul(reserves - expected, FreeCoefficient))
      BY <1>1, ConversionFacts DEF Exceed, FreeAmount
    <2>2. reserves - expected \in 0 .. FixedMax /\ FreeCoefficient \in 0 .. Unit
      BY <2>1, FixedFacts, ParameterFacts
    <2>3. /\ free \in 0 .. (reserves - expected)
          /\ free * Unit <= (reserves - expected) * FreeCoefficient
      BY <2>1, <2>2, PartFacts
    <2> HIDE DEF free
    <2>4. free \in Nat /\ free <= reserves /\ ~ (reserves <= expected)
      BY <2>1, <2>3
    <2> QED
      BY <2>1, <2>3, <2>4 DEF free
  <1>2. CASE ~ Exceed(reserves, expected)
    <2>1. free = 0
      BY <1>2 DEF FreeAmount
    <2>2. (reserves - expected) * FreeCoefficient >= 0 \/ ~ (reserves > expected)
      BY ParameterFacts
    <2>3. 0 * Unit = 0
      BY FixedFacts
    <2> HIDE DEF free
    <2> QED
      BY <2>1, <2>2, <2>3 DEF free
  <1> QED
    BY <1>1, <1>2

\* The price of the whole issuance.
LEMMA ExpectedFacts ==
  ASSUME NEW q \in Nat
  PROVE  /\ ReservesExpected(q) \in Nat \cup {Err}
         /\ ReservesExpected(q) # Err =>
              /\ ReservesExpected(q) = (SellPriceCoefficient * Value(q)) \div Unit
              /\ StepTimesRate # Err
  <1>1. Value(q - q) = 0
    <2>1. q - q = 0 /\ (0 * Unit) \div (2 * S) \in Int
      <3>1. 0 * Unit = 0 /\ 2 * S \in Int /\ 2 * S > 0
        BY ParameterFacts
      <3> QED
        BY <3>1, DivBounds
    <2>2. ((0 * Unit) \div (2 * S) + InitialPrice) * 0 = 0
      BY <2>1, ParameterFacts
    <2>3. 0 \div Unit = 0
      BY ParameterFacts
    <2> QED
      BY <2>1, <2>2, <2>3 DEF Value
  <1>2. Value(q) - 0 = Value(q)
    BY ValueBounds
  <1> QED
    BY <1>1, <1>2, MainAssetPrice DEF ReservesExpected

-----------------------------------------------------------------------------
(* Every balance is one and the main asset is conserved.                   *)

\* The members of the accounts' sets are accounts.
LEMMA AccountFacts ==
  /\ IsFiniteSet(Account) /\ Users \subseteq Account /\ ReserveAccounts \subseteq Account
  /\ Beneficiaries \subseteq Account /\ Market \in Account
  /\ \A u \in Users : u \notin ReserveAccounts /\ u # Market /\ u \notin Beneficiaries
  /\ \A a \in ReserveAccounts : a # Market /\ a \notin Beneficiaries
  /\ Market \notin Beneficiaries
  BY AccountsAssumption DEF Account

\* One account's balance of the main asset goes up or down by n.
LEMMA OneChanges ==
  ASSUME NEW f \in [Account -> Int], NEW g \in [Account -> Int], NEW a \in Account,
         NEW n \in Int, g[a] = f[a] + n, \A b \in Account \ {a} : g[b] = f[b]
  PROVE  SumFunction(g) = SumFunction(f) + n
  <1> DEFINE h == [b \in Account |-> IF b = a THEN n ELSE 0]
  <1>1. SumFunctionOnSet(h, Account) = n
    <2>1. h[a] = n /\ \A b \in Account \ {a} : h[b] = 0
      OBVIOUS
    <2> HIDE DEF h
    <2> QED
      BY <2>1, AccountFacts, SumSingle
  <1>2. \A b \in Account : f[b] \in Int /\ h[b] \in Int /\ g[b] = f[b] + h[b]
    OBVIOUS
  <1> HIDE DEF h
  <1>3. SumFunctionOnSet(g, Account) = SumFunctionOnSet(f, Account) + SumFunctionOnSet(h, Account)
    BY <1>2, AccountFacts, SumPlus
  <1> QED
    BY <1>1, <1>3 DEF SumFunction

\* The initial state.
LEMMA TypeInit == Init => TypeOK
  <1> SUFFICES ASSUME Init PROVE TypeOK
    OBVIOUS
  <1>1. reservesAcc \in ReserveAccounts /\ permitted = {} /\ exchanges = 0
    BY DEF Init
  <1>2. PICK r \in InitialReserves :
          collateral = [a \in Account |-> CASE a \in Users -> Endowment
                                            [] a = reservesAcc -> r
                                            [] OTHER -> 0]
    BY DEF Init
  <1>3. PICK q \in InitialIssuances, u \in Users :
          /\ issuance = q + MarketLiquidity
          /\ main = [a \in Account |-> CASE a = u -> q
                                         [] a = Market -> MarketLiquidity
                                         [] OTHER -> 0]
    BY DEF Init
  <1>4. /\ q \in Nat /\ MarketLiquidity \in Nat /\ Endowment \in Nat /\ r \in Nat
        /\ issuance \in Balance
    BY <1>3, AmountAssumption DEF Balance
  <1>5. u \in Account /\ Market \in Account /\ u # Market
    BY AccountFacts
  <1>6. /\ main \in [Account -> Nat] /\ main[u] = q /\ main[Market] = MarketLiquidity
        /\ \A a \in Account : a # u /\ a # Market => main[a] = 0
    BY <1>3, <1>4, <1>5
  <1>7. SumFunction(main) = q + MarketLiquidity
    <2> DEFINE one == [a \in Account |-> IF a = u THEN q ELSE 0]
    <2>1. /\ one[u] = q /\ \A a \in Account \ {u} : one[a] = 0
          /\ one \in [Account -> Int] /\ one[Market] = 0
      BY <1>4, <1>5
    <2> HIDE DEF one
    <2>2. SumFunctionOnSet(one, Account) = q
      BY <1>4, <1>5, <2>1, AccountFacts, SumSingle
    <2>3. SumFunction(one) = q
      BY <2>1, <2>2 DEF SumFunction
    <2>4. /\ main \in [Account -> Int] /\ main[Market] = one[Market] + MarketLiquidity
          /\ \A a \in Account \ {Market} : main[a] = one[a]
      BY <1>4, <1>5, <1>6, <2>1
    <2>5. SumFunction(main) = SumFunction(one) + MarketLiquidity
      BY <1>4, <1>5, <2>1, <2>4, OneChanges
    <2> QED
      BY <2>3, <2>5
  <1>8. collateral \in [Account -> Nat]
    BY <1>2, <1>4
  <1>9. exchanges \in 0 .. MaxExchanges /\ permitted \subseteq RegisteredAccounts
    BY <1>1, BoundAssumption
  <1> QED
    BY <1>1, <1>3, <1>4, <1>6, <1>7, <1>8, <1>9 DEF TypeOK

\* What an exchange that buys pays and gets.
LEMMA BuyAmounts ==
  ASSUME NEW q \in Nat, NEW variant \in Variants, NEW amount \in Nat,
         DecideBuyAmounts(q, variant, amount).input # Err,
         DecideBuyAmounts(q, variant, amount).output # Err
  PROVE  LET amounts == DecideBuyAmounts(q, variant, amount)
         IN  /\ amounts.input \in Nat /\ amounts.output \in 0 .. FixedMax
             /\ Value(q + amounts.output) <= Value(q) + (amounts.input + CurveRounding(q))
  <1> DEFINE amounts == DecideBuyAmounts(q, variant, amount)
  <1>1. /\ CurveRounding(q) \in Nat /\ Value(q) \in Nat
    BY ValueBounds, ParameterFacts, DivNat DEF CurveRounding
  <1>2. CASE variant = "input"
    <2>1. /\ amounts.input = amount
          /\ amounts.output = PriceForCollateralAsset(q, amount, Buy)
      BY <1>2 DEF DecideBuyAmounts
    <2>2. PICK m : m = PriceForCollateralAsset(q, amount, Buy)
      OBVIOUS
    <2>3. m \in Nat /\ m # Err
      BY <2>1, <2>2, CollateralPrice, ErrAssumption
    <2>4. /\ m <= FixedMax
          /\ (m + (q + P)) * (m + (q + P)) <= (q + P) * (q + P) + (2 * S) * amount
      BY <2>2, <2>3, CollateralPrice
    <2>5. Value(q + m) <= Value(q) + (amount + CurveRounding(q))
      BY <2>3, <2>4, BoughtIsPaidFor
    <2> QED
      BY <2>1, <2>2, <2>3, <2>4, <2>5, FixedFacts
  <1>3. CASE variant = "output"
    <2>1. /\ amounts.input = PriceForMainAsset(q, amount, Buy)
          /\ amounts.output = amount
      BY <1>3 DEF DecideBuyAmounts
    <2>2. PICK p : p = PriceForMainAsset(q, amount, Buy)
      OBVIOUS
    <2>3. /\ p \in Nat /\ p # Err
      BY <2>1, <2>2, MainAssetPrice, ErrAssumption
    <2>4. p = Value(q + amount) - Value(q) /\ amount <= FixedMax
      BY <2>2, <2>3, MainAssetPrice
    <2>5. Value(q + amount) \in Nat
      <3>1. q + amount \in Nat
        OBVIOUS
      <3> QED
        BY <3>1, ValueBounds
    <2>6. Value(q + amount) <= Value(q) + (p + CurveRounding(q))
      BY <1>1, <2>3, <2>4, <2>5
    <2> QED
      BY <2>1, <2>2, <2>3, <2>4, <2>6, FixedFacts
  <1> QED
    BY <1>2, <1>3 DEF Variants

\* What an exchange that sells gives and is paid.
LEMMA SellAmounts ==
  ASSUME NEW q \in Nat, NEW variant \in Variants, NEW amount \in Nat,
         DecideSellAmounts(q, variant, amount).input # Err,
         DecideSellAmounts(q, variant, amount).output # Err
  PROVE  LET amounts == DecideSellAmounts(q, variant, amount)
         IN  /\ amounts.input \in Nat
             /\ amounts.input <= q =>
                  /\ amounts.output \in 0 .. FixedMax
                  /\ (SellPriceCoefficient * Value(q - amounts.input)) \div Unit + amounts.output
                        <= (SellPriceCoefficient * Value(q)) \div Unit
                             + CurveRounding(q) + RootRounding
  <1> DEFINE amounts == DecideSellAmounts(q, variant, amount)
  <1>1. /\ CurveRounding(q) \in Nat /\ Value(q) \in Nat
    BY ValueBounds, ParameterFacts, DivNat DEF CurveRounding
  <1>2. CASE variant = "input"
    <2>1. /\ amounts.input = amount
          /\ amounts.output = PriceForMainAsset(q, amount, Sell)
      BY <1>2 DEF DecideSellAmounts
    <2>2. PICK p : p = PriceForMainAsset(q, amount, Sell)
      OBVIOUS
    <2>3. p \in Nat /\ p # Err
      BY <2>1, <2>2, MainAssetPrice, ErrAssumption
    <2>4. ASSUME amount <= q
          PROVE  /\ p \in 0 .. FixedMax
                 /\ (SellPriceCoefficient * Value(q - amount)) \div Unit + p
                       <= (SellPriceCoefficient * Value(q)) \div Unit
                            + CurveRounding(q) + RootRounding
      <3> DEFINE x == SellPriceCoefficient * Value(q)
                 y == SellPriceCoefficient * Value(q - amount)
      <3>1. /\ p = (SellPriceCoefficient * (Value(q) - Value(q - amount))) \div Unit
            /\ p <= FixedMax /\ StepTimesRate # Err
        BY <2>2, <2>3, <2>4, MainAssetPrice
      <3>2. Value(q - amount) \in Nat
        <4>1. q - amount \in Nat
          BY <2>4
        <4> QED
          BY <4>1, ValueBounds
      <3>3. x \in Int /\ y \in Int
            /\ SellPriceCoefficient * (Value(q) - Value(q - amount)) = x - y
        BY <1>1, <3>2, ParameterFacts
      <3> HIDE DEF x, y
      <3>4. p = (x - y) \div Unit
        BY <3>1, <3>3
      <3>5. y \div Unit + (x - y) \div Unit <= x \div Unit
        <4>1. /\ y \div Unit \in Int /\ (x - y) \div Unit \in Int /\ x \div Unit \in Int
              /\ (y \div Unit) * Unit <= y /\ ((x - y) \div Unit) * Unit <= x - y
              /\ x < (x \div Unit + 1) * Unit
          BY <3>3, ParameterFacts, DivBounds
        <4> DEFINE k == y \div Unit  l == (x - y) \div Unit  n == x \div Unit
        <4> HIDE DEF k, l, n
        <4>2. /\ k \in Int /\ l \in Int /\ n \in Int
              /\ k * Unit <= y /\ l * Unit <= x - y /\ x < (n + 1) * Unit
          BY <4>1 DEF k, l, n
        <4>3. (k + l) * Unit = k * Unit + l * Unit
              /\ k * Unit \in Int /\ l * Unit \in Int /\ (n + 1) * Unit \in Int
          BY <4>2, ParameterFacts
        <4>4. (k + l) * Unit < (n + 1) * Unit
          BY <3>3, <4>2, <4>3
        <4>5. k + l < n + 1
          BY <4>2, <4>4, ParameterFacts, CancelFactor
        <4>6. k + l <= n
          BY <4>2, <4>5
        <4> QED
          BY <4>6 DEF k, l, n
      <3>6. RootRounding \in Nat
        <4>1. StepTimesRate = S /\ S \in Nat
          BY <3>1, ParametersReturn, ParameterFacts
        <4>2. Unit + StepTimesRate \in Nat /\ 2 * SellPriceCoefficient \in Nat
              /\ 2 * SellPriceCoefficient > 0
          BY <4>1, ParameterFacts
        <4> QED
          BY <4>2, DivNat DEF RootRounding
      <3>7. x \div Unit \in Int /\ y \div Unit \in Int
        BY <3>3, ParameterFacts, DivBounds
      <3>8. y \div Unit + p <= x \div Unit + CurveRounding(q) + RootRounding
        BY <1>1, <2>3, <3>4, <3>5, <3>6, <3>7
      <3> QED
        BY <2>3, <3>1, <3>8, FixedFacts DEF x, y
    <2> QED
      BY <2>1, <2>2, <2>3, <2>4
  <1>3. CASE variant = "output"
    <2>1. /\ amounts.input = PriceForCollateralAsset(q, amount, Sell)
          /\ amounts.output = amount
      BY <1>3 DEF DecideSellAmounts
    <2>2. PICK m : m = PriceForCollateralAsset(q, amount, Sell)
      OBVIOUS
    <2>3. m \in Nat /\ m # Err
      BY <2>1, <2>2, CollateralPrice, ErrAssumption
    <2>4. /\ amount <= FixedMax /\ StepTimesRate # Err
          /\ \E root \in Nat :
                /\ root * root
                     <= ((Term(q) * Term(q)) \div Unit - PaidTerm(amount)) * Unit
                /\ SellPriceCoefficient * ((q - m) + P) <= S * root
      BY <2>2, <2>3, CollateralPrice
    <2>5. ASSUME m <= q
          PROVE  (SellPriceCoefficient * Value(q - m)) \div Unit + amount
                    <= (SellPriceCoefficient * Value(q)) \div Unit
                         + CurveRounding(q) + RootRounding
      <3>1. PICK root \in Nat :
                /\ root * root
                     <= ((Term(q) * Term(q)) \div Unit - PaidTerm(amount)) * Unit
                /\ SellPriceCoefficient * ((q - m) + P) <= S * root
        BY <2>4
      <3>2. q - m \in Nat /\ q - m <= q
        BY <2>3, <2>5
      <3> QED
        BY <2>4, <3>1, <3>2, SoldIsWorthIt
    <2> QED
      BY <2>1, <2>2, <2>3, <2>4, <2>5, FixedFacts
  <1> QED
    BY <1>2, <1>3 DEF Variants

\* The shares of what was swapped, and what they add up to.
LEMMA DistributionFacts ==
  ASSUME NEW swapped \in 0 .. FixedMax
  PROVE  /\ \A b \in Beneficiaries : ShareOf(b, swapped) \in 0 .. swapped
         /\ ValPart(swapped) \in 0 .. swapped
         /\ Distributed(swapped) \in Int
         /\ swapped = 0 => Distributed(swapped) = 0
  <1> DEFINE shares == [b \in Beneficiaries |-> ShareOf(b, swapped)]
  <1>1. \A b \in Beneficiaries : ShareOf(b, swapped) \in 0 .. swapped
    <2> TAKE b \in Beneficiaries
    <2>1. Coefficient[b] \in 0 .. Unit
      BY CurveAssumption
    <2> QED
      BY <2>1, PartFacts DEF ShareOf
  <1>2. ValPart(swapped) \in 0 .. swapped
    <2>1. ValCoefficient \in 0 .. Unit
      BY CurveAssumption
    <2> QED
      BY <2>1, PartFacts DEF ValPart
  <1>3. /\ \A b \in Beneficiaries : shares[b] \in 0 .. swapped /\ shares[b] \in Int
        /\ DOMAIN shares = Beneficiaries
    BY <1>1
  <1>4. Distributed(swapped) = SumFunctionOnSet(shares, Beneficiaries) + ValPart(swapped)
    BY <1>3 DEF Distributed, SumFunction
  <1>5. IsFiniteSet(Beneficiaries)
    BY AccountFacts, FS_Subset
  <1> HIDE DEF shares
  <1>6. SumFunctionOnSet(shares, Beneficiaries) \in Int
    BY <1>3, <1>5, SumInt
  <1>7. swapped = 0 => SumFunctionOnSet(shares, Beneficiaries) = 0
    <2> SUFFICES ASSUME swapped = 0 PROVE SumFunctionOnSet(shares, Beneficiaries) = 0
      OBVIOUS
    <2>1. \A b \in Beneficiaries \ {} : shares[b] = 0
      BY <1>3
    <2>2. \A b \in {} : shares[b] \in Int /\ shares[b] = shares[b]
      OBVIOUS
    <2>3. SumFunctionOnSet(shares, Beneficiaries) = SumFunctionOnSet(shares, {})
      BY <1>5, <2>1, <2>2, SumOn
    <2> QED
      BY <2>3, SumNothing
  <1>8. swapped = 0 => ValPart(swapped) = 0
    BY <1>2
  <1>9. Distributed(swapped) \in Int
    BY <1>2, <1>4, <1>6
  <1>10. swapped = 0 => Distributed(swapped) = 0
    BY <1>4, <1>7, <1>8
  <1> QED
    BY <1>1, <1>2, <1>9, <1>10

\* What leaves the source and the reserves reaches the beneficiaries and the source
\* again, and the minted output is new.
LEMMA DistributeFacts ==
  ASSUME NEW f \in [Account -> Nat], NEW g, NEW r \in ReserveAccounts, NEW u \in Users,
         NEW swapped \in 0 .. FixedMax, NEW minted \in Nat,
         swapped <= f[Market], Distributed(swapped) \in 0 .. (f[r] + swapped),
         g = [a \in Account |->
               f[a]
               + (IF a \in Beneficiaries THEN ShareOf(a, swapped) ELSE 0)
               + (IF a = r THEN swapped - Distributed(swapped) ELSE 0)
               + (IF a = Market THEN ValPart(swapped) - swapped ELSE 0)
               + (IF a = u THEN minted ELSE 0)]
  PROVE  g \in [Account -> Nat] /\ SumFunction(g) = SumFunction(f) + minted
  <1> DEFINE share == [a \in Account |-> IF a \in Beneficiaries THEN ShareOf(a, swapped) ELSE 0]
             shares == [b \in Beneficiaries |-> ShareOf(b, swapped)]
             kept == swapped - Distributed(swapped)
             net == ValPart(swapped) - swapped
             f1 == [a \in Account |-> f[a] + share[a]]
             f2 == [a \in Account |-> f1[a] + (IF a = r THEN kept ELSE 0)]
             f3 == [a \in Account |-> f2[a] + (IF a = Market THEN net ELSE 0)]
             f4 == [a \in Account |-> f3[a] + (IF a = u THEN minted ELSE 0)]
  <1>1. /\ \A b \in Beneficiaries : ShareOf(b, swapped) \in Nat
        /\ ValPart(swapped) \in Nat /\ Distributed(swapped) \in Int
        /\ swapped \in Nat
        /\ kept \in Int /\ net \in Int /\ f[r] + kept >= 0 /\ f[Market] + net >= 0
    BY DistributionFacts, AccountFacts
  <1>2. /\ r \in Account /\ u \in Account /\ Market \in Account /\ Beneficiaries \subseteq Account
        /\ r # u /\ r # Market /\ u # Market
        /\ r \notin Beneficiaries /\ u \notin Beneficiaries /\ Market \notin Beneficiaries
    BY AccountFacts
  <1>3. /\ share \in [Account -> Nat] /\ \A b \in Beneficiaries : share[b] = shares[b]
        /\ \A a \in Account \ Beneficiaries : share[a] = 0
        /\ \A b \in Beneficiaries : shares[b] \in Int
        /\ share[r] = 0 /\ share[u] = 0 /\ share[Market] = 0
    BY <1>1, <1>2
  <1>4. /\ Distributed(swapped) = SumFunctionOnSet(shares, Beneficiaries) + ValPart(swapped)
    BY DEF Distributed, SumFunction
  <1> HIDE DEF share, shares
  <1>5. SumFunctionOnSet(share, Account) = SumFunctionOnSet(shares, Beneficiaries)
    BY <1>2, <1>3, AccountFacts, SumOn
  <1>6. SumFunctionOnSet(shares, Beneficiaries) \in Int
    <2>1. IsFiniteSet(Beneficiaries)
      BY AccountFacts, FS_Subset
    <2> QED
      BY <1>3, <2>1, SumInt
  <1> HIDE DEF kept, net
  <1>7. f1 \in [Account -> Nat] /\ f1[r] = f[r] /\ f1[Market] = f[Market] /\ f1[u] = f[u]
    BY <1>2, <1>3
  <1>8. SumFunction(f1) = SumFunction(f) + SumFunctionOnSet(shares, Beneficiaries)
    <2>1. \A a \in Account : f[a] \in Int /\ share[a] \in Int /\ f1[a] = f[a] + share[a]
      BY <1>3
    <2>2. DOMAIN f1 = Account /\ DOMAIN f = Account
      OBVIOUS
    <2> HIDE DEF f1
    <2>3. SumFunctionOnSet(f1, Account)
            = SumFunctionOnSet(f, Account) + SumFunctionOnSet(share, Account)
      BY <2>1, AccountFacts, SumPlus
    <2> QED
      BY <1>5, <2>2, <2>3 DEF SumFunction
  <1> HIDE DEF f1
  <1>9. /\ f2 \in [Account -> Nat] /\ f2[r] = f1[r] + kept
        /\ \A a \in Account \ {r} : f2[a] = f1[a]
    BY <1>1, <1>2, <1>7
  <1> HIDE DEF f2
  <1>10. /\ f3 \in [Account -> Nat] /\ f3[Market] = f2[Market] + net
         /\ \A a \in Account \ {Market} : f3[a] = f2[a]
    <2>1. f2[Market] = f[Market]
      BY <1>2, <1>7, <1>9
    <2>2. \A a \in Account : f2[a] \in Nat
      BY <1>9
    <2>3. f2[Market] + net \in Nat
      BY <1>1, <1>2, <2>1, <2>2
    <2> QED
      BY <1>2, <2>2, <2>3, <1>1
  <1> HIDE DEF f3
  <1>11. /\ f4 \in [Account -> Nat] /\ f4[u] = f3[u] + minted
         /\ \A a \in Account \ {u} : f4[a] = f3[a]
    BY <1>2, <1>10
  <1>12. g = f4
    <2>1. \A a \in Account : g[a] = f4[a]
      <3> TAKE a \in Account
      <3>1. g[a] = f[a] + share[a] + (IF a = r THEN kept ELSE 0)
                     + (IF a = Market THEN net ELSE 0) + (IF a = u THEN minted ELSE 0)
        BY DEF share, kept, net
      <3>2. f4[a] = f[a] + share[a] + (IF a = r THEN kept ELSE 0)
                     + (IF a = Market THEN net ELSE 0) + (IF a = u THEN minted ELSE 0)
        BY DEF f1, f2, f3
      <3> QED
        BY <3>1, <3>2
    <2>2. DOMAIN g = Account /\ DOMAIN f4 = Account
          /\ g = [a \in Account |-> g[a]] /\ f4 = [a \in Account |-> f4[a]]
      OBVIOUS
    <2> HIDE DEF f4
    <2> QED
      BY <2>1, <2>2
  <1> HIDE DEF f4
  <1>13. /\ f1 \in [Account -> Int] /\ f2 \in [Account -> Int] /\ f3 \in [Account -> Int]
         /\ f4 \in [Account -> Int]
    BY <1>7, <1>9, <1>10, <1>11
  <1>14. SumFunction(f2) = SumFunction(f1) + kept
    <2>1. kept \in Int /\ r \in Account
      BY <1>1, <1>2
    <2> QED
      BY <1>9, <1>13, <2>1, OneChanges
  <1>15. SumFunction(f3) = SumFunction(f2) + net
    <2>1. net \in Int /\ Market \in Account
      BY <1>1, <1>2
    <2> QED
      BY <1>10, <1>13, <2>1, OneChanges
  <1>16. SumFunction(f4) = SumFunction(f3) + minted
    BY <1>2, <1>11, <1>13, OneChanges
  <1>17. SumFunction(f) \in Int
    <2>1. \A a \in Account : f[a] \in Int
      OBVIOUS
    <2>2. DOMAIN f = Account
      OBVIOUS
    <2> QED
      BY <2>1, <2>2, AccountFacts, SumInt DEF SumFunction
  <1>18. kept + net + SumFunctionOnSet(shares, Beneficiaries) = 0
    BY <1>1, <1>4, <1>6 DEF kept, net
  <1>19. SumFunction(f4) = SumFunction(f) + minted
    BY <1>1, <1>6, <1>8, <1>14, <1>15, <1>16, <1>17, <1>18
  <1> QED
    BY <1>11, <1>12, <1>19

\* What BuyMainAsset::swap does, with the numbers it computes.
LEMMA BuyFacts ==
  ASSUME TypeOK, NEW sender \in Users, NEW receiver \in Users, NEW variant \in Variants,
         NEW amount \in Amounts, NEW swapped \in Returns,
         BuyMainAsset(sender, receiver, variant, amount, swapped)
  PROVE  \E paid, output, minted, free \in Nat :
            /\ minted <= output /\ paid <= collateral[sender]
            /\ Value(issuance + output) <= Value(issuance) + (paid + CurveRounding(issuance))
            /\ ReservesExpected(issuance) \in Nat
            /\ free = FreeAmount(collateral[reservesAcc] + paid, ReservesExpected(issuance))
            /\ issuance' = issuance + minted /\ issuance' \in Balance
            /\ issuance' = SumFunction(main)'
            /\ main' \in [Account -> Nat]
            /\ DepositInput(sender, paid, free)
            /\ UNCHANGED <<reservesAcc, permitted>>
  <1> DEFINE amounts == DecideBuyAmounts(issuance, variant, amount)
             expected == ReservesExpected(issuance)
  <1>1. /\ issuance \in Nat /\ amount \in Nat /\ swapped \in Nat
        /\ main \in [Account -> Nat] /\ collateral \in [Account -> Nat]
        /\ reservesAcc \in ReserveAccounts /\ issuance = SumFunction(main)
    BY AmountAssumption DEF TypeOK, Balance
  <1>2. PICK paid, output :
           paid = amounts.input /\ output = amounts.output /\ paid # Err /\ output # Err
    BY DEF BuyMainAsset
  <1>3. /\ paid \in Nat /\ output \in 0 .. FixedMax
        /\ Value(issuance + output) <= Value(issuance) + (paid + CurveRounding(issuance))
    BY <1>1, <1>2, BuyAmounts
  <1>4. /\ expected # Err /\ expected \in Nat
    BY <1>1, ExpectedFacts DEF BuyMainAsset
  <1>5. PICK fee, minted, free : /\ fee = FeeFor(output) /\ minted = output - fee
                                 /\ free = FreeAmount(collateral[reservesAcc] + paid, expected)
    OBVIOUS
  <1>6. fee \in 0 .. output /\ minted \in Nat /\ minted <= output /\ output \in Nat
    BY <1>3, <1>5, FeePart
  <1>7. collateral[reservesAcc] \in Nat /\ collateral[reservesAcc] + paid \in Nat
    BY <1>1, <1>3, AccountFacts
  <1>8. free \in Nat
    BY <1>4, <1>5, <1>7, FreeFacts
  <1>9. /\ paid <= collateral[sender]
        /\ IF free = 0 THEN swapped = 0
           ELSE /\ swapped <= main[Market] /\ FromBalance(swapped) # Err
                /\ Distributed(swapped) \in 0 .. (main[reservesAcc] + swapped)
        /\ issuance + minted \in Balance
        /\ DepositInput(sender, paid, free)
        /\ DistributeAndMint(receiver, swapped, minted)
        /\ issuance' = issuance + minted
        /\ UNCHANGED <<reservesAcc, permitted>>
    BY <1>2, <1>5 DEF BuyMainAsset
  <1> HIDE DEF amounts, expected
  <1>10. /\ swapped \in 0 .. FixedMax /\ swapped <= main[Market]
         /\ Distributed(swapped) \in 0 .. (main[reservesAcc] + swapped)
    <2>1. main[Market] \in Nat /\ main[reservesAcc] \in Nat
      BY <1>1, AccountFacts
    <2>2. CASE free = 0
      <3>1. swapped = 0 /\ 0 \in 0 .. FixedMax
        BY <1>9, <2>2, FixedFacts
      <3>2. Distributed(swapped) = 0
        BY <3>1, DistributionFacts
      <3> QED
        BY <2>1, <3>1, <3>2
    <2>3. CASE free # 0
      <3>1. FromBalance(swapped) # Err /\ swapped <= main[Market]
            /\ Distributed(swapped) \in 0 .. (main[reservesAcc] + swapped)
        BY <1>9, <2>3
      <3> QED
        BY <1>1, <3>1, ConversionFacts, FixedFacts
    <2> QED
      BY <2>2, <2>3
  <1>11. main' \in [Account -> Nat] /\ SumFunction(main') = SumFunction(main) + minted
    <2>1. main' = [a \in Account |->
               main[a]
               + (IF a \in Beneficiaries THEN ShareOf(a, swapped) ELSE 0)
               + (IF a = reservesAcc THEN swapped - Distributed(swapped) ELSE 0)
               + (IF a = Market THEN ValPart(swapped) - swapped ELSE 0)
               + (IF a = receiver THEN minted ELSE 0)]
      BY <1>9 DEF DistributeAndMint
    <2>2. PICK g : g = main'
      OBVIOUS
    <2>3. g \in [Account -> Nat] /\ SumFunction(g) = SumFunction(main) + minted
      BY <1>1, <1>6, <1>10, <2>1, <2>2, DistributeFacts
    <2> QED
      BY <2>2, <2>3
  <1>12. issuance' = SumFunction(main)'
    BY <1>1, <1>9, <1>11 DEF SumFunction
  <1>13. issuance' \in Balance
    BY <1>9
  <1> QED
    BY <1>3, <1>4, <1>5, <1>6, <1>8, <1>9, <1>11, <1>12, <1>13 DEF expected

\* What sell_main_asset does, with the numbers it computes.
LEMMA SellFacts ==
  ASSUME TypeOK, NEW sender \in Users, NEW receiver \in Users, NEW variant \in Variants,
         NEW amount \in Amounts, SellMainAsset(sender, receiver, variant, amount)
  PROVE  \E input, output, paid \in Nat :
            /\ paid <= output /\ input <= issuance /\ paid <= collateral[reservesAcc]
            /\ (SellPriceCoefficient * Value(issuance - input)) \div Unit + output
                  <= (SellPriceCoefficient * Value(issuance)) \div Unit
                       + CurveRounding(issuance) + RootRounding
            /\ issuance' = issuance - input /\ issuance' \in Balance
            /\ issuance' = SumFunction(main)'
            /\ main' \in [Account -> Nat]
            /\ collateral' = [collateral EXCEPT ![reservesAcc] = @ - paid, ![receiver] = @ + paid]
            /\ UNCHANGED <<reservesAcc, permitted>>
  <1> DEFINE amounts == DecideSellAmounts(issuance, variant, amount)
  <1>1. /\ issuance \in Nat /\ amount \in Nat /\ issuance \in Balance
        /\ main \in [Account -> Nat] /\ collateral \in [Account -> Nat]
        /\ reservesAcc \in ReserveAccounts /\ issuance = SumFunction(main)
    BY AmountAssumption DEF TypeOK, Balance
  <1>2. PICK input, output :
           input = amounts.input /\ output = amounts.output /\ input # Err /\ output # Err
    BY DEF SellMainAsset
  <1>3. input \in Nat
    BY <1>1, <1>2, SellAmounts
  <1>4. PICK fee, paid : fee = FeeFor(output) /\ paid = output - fee
    OBVIOUS
  <1>5. /\ CoveredByReserves(paid) /\ input <= main[sender]
        /\ collateral' = [collateral EXCEPT ![reservesAcc] = @ - paid, ![receiver] = @ + paid]
        /\ main' = [main EXCEPT ![sender] = @ - input]
        /\ issuance' = issuance - input
        /\ UNCHANGED <<reservesAcc, permitted>>
    BY <1>2, <1>4 DEF SellMainAsset
  <1>6. main[sender] \in Nat /\ sender \in Account
    BY <1>1, AccountFacts
  <1>7. /\ main' \in [Account -> Nat] /\ main'[sender] = main[sender] - input
        /\ \A a \in Account \ {sender} : main'[a] = main[a]
    BY <1>1, <1>3, <1>5, <1>6
  <1>8. SumFunction(main') = SumFunction(main) + (0 - input)
    <2>1. PICK g : g = main'
      OBVIOUS
    <2>2. /\ g \in [Account -> Int] /\ g[sender] = main[sender] + (0 - input)
          /\ \A a \in Account \ {sender} : g[a] = main[a]
          /\ main \in [Account -> Int] /\ 0 - input \in Int
      BY <1>1, <1>3, <1>6, <1>7, <2>1
    <2>3. SumFunction(g) = SumFunction(main) + (0 - input)
      BY <1>6, <2>2, OneChanges
    <2> QED
      BY <2>1, <2>3
  <1>9. SumFunction(main') \in Nat
    <2>1. PICK g : g = main'
      OBVIOUS
    <2>2. g \in [Account -> Nat]
      BY <1>7, <2>1
    <2> DEFINE zero == [a \in Account |-> 0]
    <2>3. \A a \in Account : zero[a] \in Int /\ g[a] \in Int /\ zero[a] <= g[a]
      BY <2>2
    <2>4. \A a \in Account \ {} : zero[a] = 0
      OBVIOUS
    <2> HIDE DEF zero
    <2>5. SumFunctionOnSet(zero, Account) <= SumFunctionOnSet(g, Account)
      BY <2>3, AccountFacts, SumMonotone
    <2>6. SumFunctionOnSet(zero, Account) = SumFunctionOnSet(zero, {})
      <3>1. \A a \in {} : zero[a] \in Int /\ zero[a] = zero[a]
        OBVIOUS
      <3> QED
        BY <2>4, <3>1, AccountFacts, SumOn
    <2>7. SumFunctionOnSet(g, Account) \in Int
      BY <2>3, AccountFacts, SumInt
    <2>8. SumFunctionOnSet(g, Account) \in Nat
      BY <2>5, <2>6, <2>7, SumNothing
    <2>9. DOMAIN g = Account
      BY <2>2
    <2> QED
      BY <2>1, <2>8, <2>9 DEF SumFunction
  <1>10. input <= issuance /\ issuance' \in Balance
    <2>1. issuance - input = SumFunction(main')
      BY <1>1, <1>3, <1>8
    <2>2. issuance - input \in Nat
      BY <1>9, <2>1
    <2>3. input <= issuance /\ issuance - input <= issuance
      BY <1>1, <1>3, <2>2
    <2> QED
      BY <1>1, <1>5, <2>2, <2>3, ModulusAssumption DEF Balance
  <1>11. issuance' = SumFunction(main)'
    BY <1>1, <1>3, <1>5, <1>8 DEF SumFunction
  <1>12. /\ output \in 0 .. FixedMax
         /\ (SellPriceCoefficient * Value(issuance - input)) \div Unit + output
               <= (SellPriceCoefficient * Value(issuance)) \div Unit
                    + CurveRounding(issuance) + RootRounding
    BY <1>1, <1>2, <1>10, SellAmounts
  <1>13. output \in Nat /\ paid \in Nat /\ paid <= output
    BY <1>4, <1>12, FeePart
  <1>14. paid <= collateral[reservesAcc]
    BY <1>5 DEF CoveredByReserves
  <1> QED
    BY <1>3, <1>5, <1>7, <1>10, <1>11, <1>12, <1>13, <1>14

-----------------------------------------------------------------------------
(* Types.                                                                  *)

\* Every step keeps the types: what an exchange takes is there, and what it mints
\* or burns is the change of the issuance.
LEMMA TypeNext == TypeOK /\ [Next]_vars => TypeOK'
  <1> SUFFICES ASSUME TypeOK, [Next]_vars
               PROVE  TypeOK'
    OBVIOUS
  <1>1. /\ collateral \in [Account -> Nat] /\ reservesAcc \in ReserveAccounts
        /\ permitted \subseteq RegisteredAccounts /\ exchanges \in 0 .. MaxExchanges
        /\ MaxExchanges \in Nat
    BY BoundAssumption DEF TypeOK
  <1>2. ASSUME NEW a \in ReserveAccounts, SetReservesAccountId(a)
        PROVE  TypeOK'
    BY <1>2 DEF SetReservesAccountId, TypeOK, SumFunction
  <1>3. ASSUME NEW sender \in Users, NEW receiver \in Users, NEW variant \in Variants,
               NEW amount \in Amounts, Exchange(sender, receiver, variant, amount)
        PROVE  TypeOK'
    <2>1. exchanges' \in 0 .. MaxExchanges
      BY <1>1, <1>3 DEF Exchange
    <2>2. /\ sender \in Account /\ receiver \in Account /\ reservesAcc \in Account
          /\ Market \in Account /\ sender # reservesAcc /\ receiver # reservesAcc
          /\ sender # Market /\ receiver # Market /\ reservesAcc # Market
      BY <1>1, AccountFacts
    <2>3. ASSUME NEW swapped \in Returns,
                 BuyMainAsset(sender, receiver, variant, amount, swapped)
          PROVE  TypeOK'
      <3>1. PICK paid, output, minted, free \in Nat :
              /\ paid <= collateral[sender]
              /\ ReservesExpected(issuance) \in Nat
              /\ free = FreeAmount(collateral[reservesAcc] + paid, ReservesExpected(issuance))
              /\ issuance' \in Balance /\ issuance' = SumFunction(main)'
              /\ main' \in [Account -> Nat]
              /\ DepositInput(sender, paid, free)
              /\ UNCHANGED <<reservesAcc, permitted>>
        BY <2>3, BuyFacts
      <3>2. collateral[reservesAcc] + paid \in Nat
        BY <1>1, <2>2, <3>1
      <3>3. free <= collateral[reservesAcc] + paid
        BY <3>1, <3>2, FreeFacts
      <3>4. collateral' \in [Account -> Nat]
        BY <1>1, <2>2, <3>1, <3>3 DEF DepositInput
      <3> QED
        BY <1>1, <2>1, <3>1, <3>4 DEF TypeOK
    <2>4. ASSUME SellMainAsset(sender, receiver, variant, amount)
          PROVE  TypeOK'
      <3>1. PICK input, output, paid \in Nat :
              /\ paid <= collateral[reservesAcc]
              /\ issuance' \in Balance /\ issuance' = SumFunction(main)'
              /\ main' \in [Account -> Nat]
              /\ collateral' = [collateral EXCEPT ![reservesAcc] = @ - paid,
                                                  ![receiver] = @ + paid]
              /\ UNCHANGED <<reservesAcc, permitted>>
        BY <2>4, SellFacts
      <3>2. collateral' \in [Account -> Nat]
        BY <1>1, <2>2, <3>1
      <3> QED
        BY <1>1, <2>1, <3>1, <3>2 DEF TypeOK
    <2> QED
      BY <1>3, <2>3, <2>4 DEF Exchange
  <1>4. CASE UNCHANGED vars
    BY <1>4 DEF vars, TypeOK, SumFunction
  <1> QED
    BY <1>2, <1>3, <1>4 DEF Next

\* No account ever holds less than nothing of either asset, and the main asset
\* that exists is what the accounts hold: the shares of BuyMainAsset::swap never
\* add up to more than the exchange had.
THEOREM TypesAreKept == Spec => []TypeOK
  <1> QED
    BY TypeInit, TypeNext, PTL DEF Spec

-----------------------------------------------------------------------------
(* Cover.                                                                  *)

\* What is missing of the expected reserves.
Gap(expected, reserves) == IF expected > reserves THEN expected - reserves ELSE 0

\* Input that is worth at least the rise of the curve covers the rise of the
\* expected reserves, even less the free part of a surplus that the input itself
\* may have made.
LEMMA InputCovers ==
  ASSUME NEW u \in Nat, u > 0, NEW c \in Nat, NEW f \in Nat, f + c <= u,
         NEW v \in Nat, NEW w \in Nat, NEW p \in Nat, NEW e \in Nat, NEW held \in Nat,
         NEW free \in Nat, w <= v + (p + e),
         held + p > (c * v) \div u => free * u <= ((held + p) - (c * v) \div u) * f,
         held + p <= (c * v) \div u => free = 0
  PROVE  Gap((c * w) \div u, (held + p) - free) <= Gap((c * v) \div u, held) + e
  <1> DEFINE x == (c * v) \div u
             y == (c * w) \div u
  <1>1. c * v \in Nat /\ c * w \in Nat
    OBVIOUS
  <1>2. x \in Nat /\ c * v < (x + 1) * u
    BY <1>1, DivBounds, DivNat
  <1>3. y \in Nat /\ y * u <= c * w
    BY <1>1, DivBounds, DivNat
  <1>4. /\ held + p > x => free * u <= ((held + p) - x) * f
        /\ held + p <= x => free = 0
    OBVIOUS
  <1> HIDE DEF x, y
  <1>5. y * u < (x + 1) * u + c * p + c * e
    <2>1. c * w <= c * v + c * p + c * e
      <3>1. w * c <= (v + (p + e)) * c
        BY ScaleLeq
      <3>2. (v + (p + e)) * c = c * v + c * p + c * e /\ w * c = c * w
        OBVIOUS
      <3> QED
        BY <3>1, <3>2
    <2>2. /\ y * u \in Int /\ c * w \in Int /\ c * v \in Int /\ c * p \in Int /\ c * e \in Int
          /\ (x + 1) * u \in Int
      BY <1>2, <1>3
    <2> QED
      BY <1>2, <1>3, <2>1, <2>2
  <1>6. c * e <= e * u
    <2>1. c <= u
      OBVIOUS
    <2>2. c * e <= u * e
      BY <2>1, ScaleLeq
    <2> QED
      BY <2>2
  <1>7. CASE held + p <= x
    <2>1. free = 0 /\ x >= held
      BY <1>2, <1>4, <1>7
    <2>2. c * p <= p * u
      <3>1. c <= u
        OBVIOUS
      <3>2. c * p <= u * p
        BY <3>1, ScaleLeq
      <3> QED
        BY <3>2
    <2>3. y * u < (x + 1 + p + e) * u
      <3>1. (x + 1 + p + e) * u = (x + 1) * u + p * u + e * u
        BY <1>2
      <3>2. /\ y * u \in Int /\ c * p \in Int /\ c * e \in Int
            /\ (x + 1) * u \in Int /\ p * u \in Int /\ e * u \in Int
        BY <1>2, <1>3
      <3> QED
        BY <1>5, <1>6, <2>2, <3>1, <3>2
    <2>4. y < x + 1 + p + e
      BY <1>2, <1>3, <2>3, CancelFactor
    <2> QED
      BY <1>2, <1>3, <2>1, <2>4 DEF Gap, x, y
  <1>8. CASE held + p > x
    <2>1. PICK t : t = (held + p) - x
      OBVIOUS
    <2>2. t \in Nat /\ t > 0 /\ free * u <= t * f
      BY <1>2, <1>4, <1>8, <2>1
    <2>3. c * t <= (t - free) * u
      <3>1. t * f <= t * (u - c)
        <4>1. f <= u - c /\ u - c \in Int
          OBVIOUS
        <4>2. f * t <= (u - c) * t
          BY <2>2, <4>1, ScaleLeq
        <4> QED
          BY <2>2, <4>2
      <3>2. t * (u - c) = t * u - c * t /\ (t - free) * u = t * u - free * u
        BY <2>2
      <3>3. t * u \in Int /\ c * t \in Int /\ free * u \in Int /\ t * f \in Int
        BY <2>2
      <3> QED
        BY <2>2, <3>1, <3>2, <3>3
    <2>4. CASE held >= x
      <3>1. p <= t
        BY <1>2, <2>1, <2>4
      <3>2. c * p <= c * t
        <4>1. p * c <= t * c
          BY <2>2, <3>1, ScaleLeq
        <4> QED
          BY <2>2, <4>1
      <3>3. y * u < (x + 1 + (t - free) + e) * u
        <4>1. (x + 1 + (t - free) + e) * u = (x + 1) * u + (t - free) * u + e * u
          BY <1>2, <2>2
        <4>2. /\ y * u \in Int /\ c * p \in Int /\ c * e \in Int /\ c * t \in Int
              /\ (x + 1) * u \in Int /\ (t - free) * u \in Int /\ e * u \in Int
          BY <1>2, <1>3, <2>2
        <4> QED
          BY <1>5, <1>6, <2>3, <3>2, <4>1, <4>2
      <3>4. x + 1 + (t - free) + e \in Int
        BY <1>2, <2>2
      <3>5. y < x + 1 + (t - free) + e
        BY <1>3, <3>3, <3>4, CancelFactor
      <3> QED
        BY <1>2, <1>3, <2>1, <2>4, <3>5 DEF Gap, x, y
    <2>5. CASE held < x
      <3>1. PICK d : d = x - held
        OBVIOUS
      <3>2. d \in Nat /\ p = t + d
        BY <1>2, <2>1, <2>5, <3>1
      <3>3. c * p = c * t + c * d
        BY <2>2, <3>2
      <3>4. c * d <= d * u
        <4>1. c <= u
          OBVIOUS
        <4>2. c * d <= u * d
          BY <3>2, <4>1, ScaleLeq
        <4> QED
          BY <3>2, <4>2
      <3>5. y * u < (x + 1 + (t - free) + d + e) * u
        <4>1. (x + 1 + (t - free) + d + e) * u
                = (x + 1) * u + (t - free) * u + d * u + e * u
          BY <1>2, <2>2, <3>2
        <4>2. /\ y * u \in Int /\ c * p \in Int /\ c * e \in Int /\ c * t \in Int
              /\ (x + 1) * u \in Int /\ (t - free) * u \in Int /\ e * u \in Int
              /\ c * d \in Int /\ d * u \in Int
          BY <1>2, <1>3, <2>2, <3>2
        <4> QED
          BY <1>5, <1>6, <2>3, <3>3, <3>4, <4>1, <4>2
      <3>6. x + 1 + (t - free) + d + e \in Int
        BY <1>2, <2>2, <3>2
      <3>7. y < x + 1 + (t - free) + d + e
        BY <1>3, <3>5, <3>6, CancelFactor
      <3> QED
        BY <1>2, <1>3, <2>1, <2>5, <3>1, <3>7 DEF Gap, x, y
    <2> QED
      BY <1>2, <2>4, <2>5
  <1> QED
    BY <1>2, <1>7, <1>8

\* The deficit and the two roundings, as numbers.
LEMMA CoverFacts ==
  ASSUME TypeOK, ReservesExpected(issuance) # Err
  PROVE  /\ issuance \in Nat /\ collateral[reservesAcc] \in Nat
         /\ ReservesExpected(issuance) \in Nat
         /\ ReservesExpected(issuance) = (SellPriceCoefficient * Value(issuance)) \div Unit
         /\ Deficit = Gap(ReservesExpected(issuance), collateral[reservesAcc])
         /\ Deficit \in Nat /\ CurveRounding(issuance) \in Nat /\ RootRounding \in Nat
  <1>1. issuance \in Nat /\ collateral[reservesAcc] \in Nat
    BY AccountFacts DEF TypeOK, Balance
  <1>2. /\ ReservesExpected(issuance) \in Nat
        /\ ReservesExpected(issuance) = (SellPriceCoefficient * Value(issuance)) \div Unit
        /\ StepTimesRate # Err
    BY <1>1, ExpectedFacts
  <1>3. CurveRounding(issuance) \in Nat
    <2>1. issuance \div Unit \in Nat
      BY <1>1, ParameterFacts, DivNat
    <2> QED
      BY <2>1 DEF CurveRounding
  <1>4. RootRounding \in Nat
    <2>1. /\ Unit + StepTimesRate \in Nat /\ 2 * SellPriceCoefficient \in Nat
          /\ 2 * SellPriceCoefficient > 0
      BY <1>2, ParameterFacts, ParametersReturn
    <2>2. (Unit + StepTimesRate) \div (2 * SellPriceCoefficient) \in Nat
      BY <2>1, DivNat
    <2> QED
      BY <2>2 DEF RootRounding
  <1>5. /\ Deficit = Gap(ReservesExpected(issuance), collateral[reservesAcc])
        /\ Deficit \in Nat
    BY <1>1, <1>2 DEF Deficit, Gap
  <1> QED
    BY <1>1, <1>2, <1>3, <1>4, <1>5

\* A purchase raises the deficit by no more than the rounding of the curve.
LEMMA BuyKeepsCover ==
  ASSUME TypeOK, TypeOK', NEW sender \in Users, NEW receiver \in Users,
         NEW variant \in Variants, NEW amount \in Amounts, NEW swapped \in Returns,
         BuyMainAsset(sender, receiver, variant, amount, swapped),
         ReservesExpected(issuance) # Err, ReservesExpected(issuance') # Err
  PROVE  Deficit' <= Deficit + CurveRounding(issuance)
  <1>1. PICK paid, output, minted, free \in Nat :
            /\ minted <= output
            /\ Value(issuance + output) <= Value(issuance) + (paid + CurveRounding(issuance))
            /\ free = FreeAmount(collateral[reservesAcc] + paid, ReservesExpected(issuance))
            /\ issuance' = issuance + minted
            /\ DepositInput(sender, paid, free)
            /\ UNCHANGED <<reservesAcc, permitted>>
    BY BuyFacts
  <1>2. PICK q, held, expected, next :
            /\ q = issuance /\ held = collateral[reservesAcc]
            /\ expected = ReservesExpected(issuance) /\ next = issuance'
    OBVIOUS
  <1>3. /\ q \in Nat /\ held \in Nat /\ expected \in Nat /\ next \in Nat
        /\ expected = (SellPriceCoefficient * Value(q)) \div Unit
        /\ Deficit = Gap(expected, held) /\ CurveRounding(q) \in Nat
        /\ next = q + minted
    BY <1>1, <1>2, CoverFacts
  <1>4. /\ Value(q) \in Nat /\ Value(next) \in Nat /\ Value(q + output) \in Nat
        /\ Value(next) <= Value(q + output)
    <2>1. q + output \in Nat /\ next <= q + output
      BY <1>1, <1>3
    <2> QED
      BY <1>3, <2>1, ValueBounds, ValueRises
  <1>5. Value(next) <= Value(q) + (paid + CurveRounding(q))
    <2>1. Value(q + output) <= Value(q) + (paid + CurveRounding(q))
      BY <1>1, <1>2
    <2> QED
      BY <1>3, <1>4, <2>1
  <1>6. collateral' = [collateral EXCEPT ![sender] = @ - paid, ![reservesAcc] = @ + paid - free,
                                         ![Market] = @ + free]
    BY <1>1 DEF DepositInput
  <1>7. collateral'[reservesAcc] = (held + paid) - free
    <2>1. /\ reservesAcc \in Account /\ sender # reservesAcc /\ reservesAcc # Market
          /\ sender \in Account /\ Market \in Account
          /\ collateral \in [Account -> Nat] /\ collateral[reservesAcc] = held
      BY <1>2, AccountFacts DEF TypeOK
    <2>2. collateral'[reservesAcc] = collateral[reservesAcc] + paid - free
      BY <1>6, <2>1
    <2> QED
      BY <1>3, <2>1, <2>2
  <1>8. /\ held + paid > expected =>
             free * Unit <= ((held + paid) - expected) * FreeCoefficient
        /\ held + paid <= expected => free = 0
    <2>1. held + paid \in Nat
      BY <1>3
    <2>2. free = FreeAmount(held + paid, expected)
      BY <1>1, <1>2
    <2> QED
      BY <1>3, <2>1, <2>2, FreeFacts
  <1>9. ReservesExpected(next) = (SellPriceCoefficient * Value(next)) \div Unit
    BY <1>2, <1>3, ExpectedFacts
  <1>10. Deficit' = Gap(ReservesExpected(next), (held + paid) - free)
    BY <1>1, <1>2, <1>7 DEF Deficit, Gap
  <1>11. Gap((SellPriceCoefficient * Value(next)) \div Unit, (held + paid) - free)
            <= Gap((SellPriceCoefficient * Value(q)) \div Unit, held) + CurveRounding(q)
    <2>1. PICK v, w, e : v = Value(q) /\ w = Value(next) /\ e = CurveRounding(q)
      OBVIOUS
    <2>2. /\ v \in Nat /\ w \in Nat /\ e \in Nat /\ w <= v + (paid + e)
          /\ held + paid > (SellPriceCoefficient * v) \div Unit =>
               free * Unit <= ((held + paid) - (SellPriceCoefficient * v) \div Unit)
                                * FreeCoefficient
          /\ held + paid <= (SellPriceCoefficient * v) \div Unit => free = 0
      BY <1>3, <1>4, <1>5, <1>8, <2>1
    <2>3. Gap((SellPriceCoefficient * w) \div Unit, (held + paid) - free)
            <= Gap((SellPriceCoefficient * v) \div Unit, held) + e
      BY <1>3, <2>2, ParameterFacts, InputCovers
    <2> QED
      BY <2>1, <2>3
  <1> QED
    BY <1>2, <1>3, <1>9, <1>10, <1>11

\* A sale raises the deficit by no more than the roundings of the curve and the root.
LEMMA SellKeepsCover ==
  ASSUME TypeOK, TypeOK', NEW sender \in Users, NEW receiver \in Users,
         NEW variant \in Variants, NEW amount \in Amounts,
         SellMainAsset(sender, receiver, variant, amount),
         ReservesExpected(issuance) # Err, ReservesExpected(issuance') # Err
  PROVE  Deficit' <= Deficit + CurveRounding(issuance) + RootRounding
  <1>1. PICK input, output, paid \in Nat :
            /\ paid <= output /\ input <= issuance
            /\ (SellPriceCoefficient * Value(issuance - input)) \div Unit + output
                  <= (SellPriceCoefficient * Value(issuance)) \div Unit
                       + CurveRounding(issuance) + RootRounding
            /\ issuance' = issuance - input
            /\ collateral' = [collateral EXCEPT ![reservesAcc] = @ - paid, ![receiver] = @ + paid]
            /\ UNCHANGED <<reservesAcc, permitted>>
    BY SellFacts
  <1>2. PICK q, held, expected, next, slack, e :
            /\ q = issuance /\ held = collateral[reservesAcc]
            /\ expected = ReservesExpected(issuance) /\ next = issuance'
            /\ e = CurveRounding(issuance) /\ slack = RootRounding
    OBVIOUS
  <1>3. /\ q \in Nat /\ held \in Nat /\ expected \in Nat
        /\ expected = (SellPriceCoefficient * Value(q)) \div Unit
        /\ Deficit = Gap(expected, held) /\ e \in Nat /\ slack \in Nat
        /\ next = q - input /\ next \in Nat
    BY <1>1, <1>2, CoverFacts
  <1>4. /\ ReservesExpected(next) \in Nat
        /\ ReservesExpected(next) = (SellPriceCoefficient * Value(next)) \div Unit
    BY <1>2, <1>3, ExpectedFacts
  <1>5. ReservesExpected(next) + output <= expected + e + slack
    BY <1>1, <1>2, <1>3, <1>4
  <1>6. collateral'[reservesAcc] = held - paid
    <2>1. /\ reservesAcc \in Account /\ receiver # reservesAcc /\ DOMAIN collateral = Account
      BY AccountFacts DEF TypeOK
    <2> QED
      BY <1>1, <1>2, <2>1
  <1>7. Deficit' = Gap(ReservesExpected(next), held - paid)
    BY <1>1, <1>2, <1>6 DEF Deficit, Gap
  <1>8. Gap(ReservesExpected(next), held - paid) <= Gap(expected, held) + e + slack
    BY <1>1, <1>3, <1>4, <1>5 DEF Gap
  <1> QED
    BY <1>2, <1>3, <1>7, <1>8

\* No exchange leaves the pool shorter of collateral than it was, but for the
\* roundings: deposit_input spends of a surplus no more than what the input has
\* over the sell price of the output, as the two coefficients add up to at most one.
THEOREM CoverIsKept == Spec => ExchangeKeepsCover
  <1> DEFINE Kept == reservesAcc' = reservesAcc
                       /\ ReservesExpected(issuance) # Err /\ ReservesExpected(issuance') # Err
                     => Deficit' <= Deficit + CurveRounding(issuance) + RootRounding
  <1>1. TypeOK /\ TypeOK' /\ [Next]_vars => [Kept]_vars
    <2> SUFFICES ASSUME TypeOK, TypeOK', Next, reservesAcc' = reservesAcc,
                        ReservesExpected(issuance) # Err, ReservesExpected(issuance') # Err
                 PROVE  Deficit' <= Deficit + CurveRounding(issuance) + RootRounding
      BY DEF vars
    <2>1. /\ Deficit \in Nat /\ CurveRounding(issuance) \in Nat /\ RootRounding \in Nat
      BY CoverFacts
    <2>2. ASSUME NEW a \in ReserveAccounts, SetReservesAccountId(a)
          PROVE  Deficit' <= Deficit + CurveRounding(issuance) + RootRounding
      <3>1. Deficit' = Deficit
        BY <2>2 DEF SetReservesAccountId, Deficit
      <3> QED
        BY <2>1, <3>1
    <2>3. ASSUME NEW sender \in Users, NEW receiver \in Users, NEW variant \in Variants,
                 NEW amount \in Amounts, Exchange(sender, receiver, variant, amount)
          PROVE  Deficit' <= Deficit + CurveRounding(issuance) + RootRounding
      <3>1. ASSUME NEW swapped \in Returns,
                   BuyMainAsset(sender, receiver, variant, amount, swapped)
            PROVE  Deficit' <= Deficit + CurveRounding(issuance) + RootRounding
        <4>1. Deficit' <= Deficit + CurveRounding(issuance)
          BY <3>1, BuyKeepsCover
        <4>2. Deficit' \in Int
          <5>1. ReservesExpected(issuance)' \in Nat /\ collateral'[reservesAcc'] \in Nat
            <6>1. PICK q, held : q = issuance' /\ held = collateral'[reservesAcc']
              OBVIOUS
            <6>2. q \in Nat /\ held \in Nat /\ ReservesExpected(q) # Err
              BY <6>1, AccountFacts DEF TypeOK, Balance
            <6> QED
              BY <6>1, <6>2, ExpectedFacts
          <5> QED
            BY <5>1 DEF Deficit
        <4> QED
          BY <2>1, <4>1, <4>2
      <3>2. ASSUME SellMainAsset(sender, receiver, variant, amount)
            PROVE  Deficit' <= Deficit + CurveRounding(issuance) + RootRounding
        BY <3>2, SellKeepsCover
      <3> QED
        BY <2>3, <3>1, <3>2 DEF Exchange
    <2> QED
      BY <2>2, <2>3 DEF Next
  <1>2. Spec => [][Kept]_vars
    BY <1>1, TypesAreKept, PTL DEF Spec
  <1> QED
    BY <1>2 DEF ExchangeKeepsCover

-----------------------------------------------------------------------------
(* Round trips.                                                            *)

\* In every state that can be reached, selling at once what an exchange minted
\* pays back no more than the sell coefficient's part of the input, but for the
\* rounding of the curve: price_for_main_asset takes back at most the rise that
\* price_for_collateral_asset made the input pay for.
THEOREM RoundTripCostsTheSpread == Spec => []NoProfitableRoundTrip
  <1>1. TypeOK => NoProfitableRoundTrip
    <2> SUFFICES ASSUME TypeOK, NEW paid \in Amounts,
                        PriceForCollateralAsset(issuance, paid, Buy) # Err,
                        PriceForMainAsset(
                          issuance + (PriceForCollateralAsset(issuance, paid, Buy)
                                      - FeeFor(PriceForCollateralAsset(issuance, paid, Buy))),
                          PriceForCollateralAsset(issuance, paid, Buy)
                            - FeeFor(PriceForCollateralAsset(issuance, paid, Buy)), Sell) # Err
                 PROVE  PriceForMainAsset(
                          issuance + (PriceForCollateralAsset(issuance, paid, Buy)
                                      - FeeFor(PriceForCollateralAsset(issuance, paid, Buy))),
                          PriceForCollateralAsset(issuance, paid, Buy)
                            - FeeFor(PriceForCollateralAsset(issuance, paid, Buy)), Sell)
                          * Unit
                        <= SellPriceCoefficient * (paid + CurveRounding(issuance))
      BY DEF NoProfitableRoundTrip
    <2>1. PICK q, bought, minted, back, e :
             /\ q = issuance /\ bought = PriceForCollateralAsset(q, paid, Buy)
             /\ minted = bought - FeeFor(bought)
             /\ back = PriceForMainAsset(q + minted, minted, Sell) /\ e = CurveRounding(q)
      OBVIOUS
    <2>2. bought # Err /\ back # Err
      BY <2>1
    <2>3. q \in Nat /\ paid \in Nat
      BY <2>1, AmountAssumption DEF TypeOK, Balance
    <2>4. /\ bought \in Nat /\ bought <= FixedMax
          /\ (bought + (q + P)) * (bought + (q + P)) <= (q + P) * (q + P) + (2 * S) * paid
      BY <2>1, <2>2, <2>3, CollateralPrice
    <2>5. bought \in 0 .. FixedMax
      BY <2>4, FixedFacts
    <2>6. minted \in Nat /\ minted <= bought
      BY <2>1, <2>4, <2>5, FeePart
    <2>7. Value(q + bought) <= Value(q) + (paid + e)
      BY <2>1, <2>3, <2>4, BoughtIsPaidFor
    <2>8. /\ q + minted \in Nat /\ q + bought \in Nat /\ q + minted <= q + bought
          /\ minted <= q + minted /\ (q + minted) - minted = q
      BY <2>3, <2>4, <2>6
    <2>9. /\ Value(q + minted) <= Value(q + bought) /\ Value(q) <= Value(q + minted)
          /\ Value(q) \in Nat /\ Value(q + minted) \in Nat /\ Value(q + bought) \in Nat
      BY <2>3, <2>6, <2>8, ValueBounds, ValueRises
    <2>10. back = (SellPriceCoefficient * (Value(q + minted) - Value(q))) \div Unit
      BY <2>1, <2>2, <2>6, <2>8, MainAssetPrice
    <2>11. e \in Int
      <3>1. q \div Unit \in Nat
        BY <2>3, ParameterFacts, DivNat
      <3> QED
        BY <2>1, <3>1 DEF CurveRounding
    <2>12. PICK rise : rise = Value(q + minted) - Value(q)
      OBVIOUS
    <2>13. rise \in Nat /\ rise <= paid + e
      BY <2>3, <2>7, <2>9, <2>11, <2>12
    <2>14. back * Unit <= SellPriceCoefficient * rise
      <3>1. SellPriceCoefficient * rise \in Int
        BY <2>13, ParameterFacts
      <3> QED
        BY <2>10, <2>12, <3>1, ParameterFacts, DivBounds
    <2>15. SellPriceCoefficient * rise <= SellPriceCoefficient * (paid + e)
      <3>1. rise * SellPriceCoefficient <= (paid + e) * SellPriceCoefficient
        BY <2>3, <2>11, <2>13, ParameterFacts, ScaleLeq
      <3> QED
        BY <2>3, <2>11, <2>13, <3>1, ParameterFacts
    <2>16. back \in Int
      BY <2>10, <2>12, <2>13, ParameterFacts, DivNat
    <2>17. back * Unit <= SellPriceCoefficient * (paid + e)
      <3>1. /\ back * Unit \in Int /\ SellPriceCoefficient * rise \in Int
            /\ SellPriceCoefficient * (paid + e) \in Int
        BY <2>3, <2>11, <2>13, <2>16, ParameterFacts
      <3> QED
        BY <2>14, <2>15, <3>1
    <2> QED
      BY <2>1, <2>17
  <1> QED
    BY <1>1, TypesAreKept, PTL

-----------------------------------------------------------------------------
(* The price formulas as each other's inverse.                             *)

\* Of two numbers whose squares are so far apart, one is at most that by a part of
\* their sum above the other.
LEMMA SquareGap ==
  ASSUME NEW a \in Nat, NEW b \in Nat, NEW k \in Nat, NEW w \in Nat,
         w > 0, a > b => w <= a + b, a * a <= b * b + k
  PROVE  a <= b + k \div w
  <1> DEFINE part == k \div w
  <1>1. part \in Nat /\ k < (part + 1) * w
    BY DivBounds, DivNat
  <1> HIDE DEF part
  <1>2. CASE a <= b
    BY <1>1, <1>2 DEF part
  <1>3. CASE a > b
    <2> DEFINE d == a - b
    <2>1. d \in Nat /\ a = b + d
      BY <1>3
    <2> HIDE DEF d
    <2>2. w * d <= (a + b) * d
      BY <1>3, <2>1, ScaleLeq
    <2>3. (a + b) * d = a * a - b * b
      BY <2>1
    <2>4. /\ d * w \in Int /\ d * w = w * d /\ (a + b) * d \in Int
          /\ a * a \in Int /\ b * b \in Int /\ (part + 1) * w \in Int
      BY <1>1, <2>1
    <2>5. d * w < (part + 1) * w
      BY <1>1, <2>2, <2>3, <2>4
    <2>6. d < part + 1
      BY <1>1, <2>1, <2>5, CancelFactor
    <2> QED
      BY <1>1, <2>1, <2>6 DEF part
  <1> QED
    BY <1>2, <1>3

\* A quotient and one unit more make up for what the division leaves.
LEMMA QuotientCovers ==
  ASSUME NEW n \in Nat, NEW w \in Nat, w > 0
  PROVE  n \div w + 1 \in Nat /\ n <= w * (n \div w + 1)
  <1> DEFINE part == n \div w
  <1>1. part \in Nat /\ n < (part + 1) * w
    BY DivBounds, DivNat
  <1> HIDE DEF part
  <1>2. (part + 1) * w = w * (part + 1) /\ w * (part + 1) \in Int
    BY <1>1
  <1>3. n <= w * (part + 1)
    BY <1>1, <1>2
  <1> QED
    BY <1>1, <1>3 DEF part

\* Twice S times the curve is its integral, but for what its rounding is worth.
LEMMA CurveWithin ==
  ASSUME NEW q \in Nat, StepTimesRate # Err
  PROVE  /\ CurveSquare(q) \in Nat
         /\ Value(q) \in Nat /\ Integral(q) \in Nat
         /\ (2 * S) * Value(q) <= Integral(q)
         /\ Integral(q) <= (2 * S) * Value(q) + CurveSquare(q)
  <1> DEFINE v == Value(q)
             k == q \div Unit
  <1>1. /\ v \in Nat /\ Integral(q) \in Nat /\ (2 * S) * v <= Integral(q)
        /\ Integral(q) * Unit < (2 * S) * ((v + 1) * Unit + q)
    BY ValueBounds
  <1>2. k \in Nat /\ q < (k + 1) * Unit
    BY ParameterFacts, DivBounds, DivNat
  <1>3. CurveSquare(q) = (2 * S) * (k + 2)
    <2>1. CurveSquare(q) = 2 * S * (k + 1 + 1)
      BY ParametersReturn DEF CurveSquare, CurveRounding
    <2> HIDE DEF k
    <2> QED
      BY <1>2, <2>1, ParameterFacts
  <1> HIDE DEF v, k
  <1>4. CurveSquare(q) \in Nat
    BY <1>2, <1>3, ParameterFacts
  <1>5. (v + 1) * Unit + q < (v + k + 2) * Unit
    <2>1. (v + k + 2) * Unit = (v + 1) * Unit + (k + 1) * Unit
      BY <1>1, <1>2, ParameterFacts
    <2>2. (v + 1) * Unit \in Int /\ (k + 1) * Unit \in Int
      BY <1>1, <1>2, ParameterFacts
    <2> QED
      BY <1>2, <2>1, <2>2
  <1>6. ((v + 1) * Unit + q) * (2 * S) < ((v + k + 2) * Unit) * (2 * S)
    <2>1. /\ (v + 1) * Unit + q \in Int /\ (v + k + 2) * Unit \in Int
          /\ 2 * S \in Nat /\ 2 * S > 0
      BY <1>1, <1>2, ParameterFacts
    <2> QED
      BY <1>5, <2>1, ScaleLess
  <1>7. /\ ((v + 1) * Unit + q) * (2 * S) = (2 * S) * ((v + 1) * Unit + q)
        /\ ((v + k + 2) * Unit) * (2 * S) = ((2 * S) * v + (2 * S) * (k + 2)) * Unit
    BY <1>1, <1>2, ParameterFacts
  <1>8. /\ (2 * S) * v + (2 * S) * (k + 2) \in Int
        /\ (2 * S) * ((v + 1) * Unit + q) \in Int
        /\ ((2 * S) * v + (2 * S) * (k + 2)) * Unit \in Int /\ Integral(q) * Unit \in Int
    BY <1>1, <1>2, ParameterFacts
  <1>9. Integral(q) * Unit < ((2 * S) * v + (2 * S) * (k + 2)) * Unit
    BY <1>1, <1>6, <1>7, <1>8
  <1>10. Integral(q) < (2 * S) * v + (2 * S) * (k + 2)
    BY <1>1, <1>8, <1>9, ParameterFacts, CancelFactor
  <1> QED
    BY <1>1, <1>3, <1>4, <1>8, <1>10 DEF v

\* The rise of the curve is half the difference of two squares over S, but for that.
LEMMA RiseIsSquares ==
  ASSUME NEW r \in Nat, NEW q \in Nat, r <= q, StepTimesRate # Err
  PROVE  /\ CurveSquare(q) \in Nat /\ CurveSquare(r) \in Nat
         /\ Value(q) - Value(r) \in Int
         /\ (2 * S) * (Value(q) - Value(r))
              <= (q + P) * (q + P) - (r + P) * (r + P) + CurveSquare(r)
         /\ (q + P) * (q + P) - (r + P) * (r + P)
              <= (2 * S) * (Value(q) - Value(r)) + CurveSquare(q)
  <1> DEFINE v == Value(q)
             u == Value(r)
  <1>1. /\ CurveSquare(q) \in Nat /\ v \in Nat /\ Integral(q) \in Nat
        /\ (2 * S) * v <= Integral(q) /\ Integral(q) <= (2 * S) * v + CurveSquare(q)
    BY CurveWithin
  <1>2. /\ CurveSquare(r) \in Nat /\ u \in Nat /\ Integral(r) \in Nat
        /\ (2 * S) * u <= Integral(r) /\ Integral(r) <= (2 * S) * u + CurveSquare(r)
    BY CurveWithin
  <1>3. Integral(q) - Integral(r) = (q + P) * (q + P) - (r + P) * (r + P)
    <2>1. /\ (q + P) * (q + P) = (q * q + 2 * (q * P)) + P * P
          /\ (r + P) * (r + P) = (r * r + 2 * (r * P)) + P * P
          /\ P * P \in Int /\ q * q + 2 * (q * P) \in Int /\ r * r + 2 * (r * P) \in Int
      BY ParameterFacts
    <2> QED
      BY <2>1 DEF Integral
  <1> HIDE DEF v, u
  <1>4. /\ (2 * S) * (v - u) = (2 * S) * v - (2 * S) * u /\ v - u \in Int
        /\ (2 * S) * v \in Int /\ (2 * S) * u \in Int
        /\ (q + P) * (q + P) - (r + P) * (r + P) \in Int
    BY <1>1, <1>2, ParameterFacts
  <1>5. /\ (2 * S) * (v - u) <= (q + P) * (q + P) - (r + P) * (r + P) + CurveSquare(r)
        /\ (q + P) * (q + P) - (r + P) * (r + P) <= (2 * S) * (v - u) + CurveSquare(q)
    BY <1>1, <1>2, <1>3, <1>4
  <1> QED
    BY <1>1, <1>2, <1>4, <1>5 DEF v, u

\* The issuance and StepRatePrice are more than nothing.
LEMMA PriceIsPositive == P > 0
  <1>1. S * InitialPrice > 0
    <2>1. InitialPrice \in Nat /\ InitialPrice > 0
      BY ParameterFacts, CurveAssumption
    <2> QED
      BY <2>1, ParameterFacts
  <1> QED
    BY <1>1, ParameterFacts

\* Buying for the price of an amount buys that amount, but for the roundings.
LEMMA BoughtIsInverse ==
  ASSUME NEW q \in Nat, NEW m \in Nat, NEW price, NEW n,
         price = PriceForMainAsset(q, m, Buy), price # Err,
         n = PriceForCollateralAsset(q, price, Buy), n # Err
  PROVE  n \in InverseWhenBuying(q, m)
  <1> DEFINE x == q + P
             y == (q + m) + P
             low == CurveSquare(q)
             high == CurveSquare(q + m)
             base == 2 * (q + P)
             root == n + (q + P)
  <1>1. price \in Nat /\ price = Value(q + m) - Value(q)
    BY MainAssetPrice
  <1>2. /\ n \in Nat /\ StepTimesRate # Err /\ StepRatePrice = P
        /\ root * root <= x * x + (2 * S) * price
        /\ UnderRoot(q, price) * Unit < (root + 1) * (root + 1)
    BY <1>1, CollateralPrice
  <1>3. /\ UnderRoot(q, price) \in Nat
        /\ x * x + (2 * S) * price < UnderRoot(q, price) * Unit + BuySquare
        /\ BuySquare \in Nat
    <2>1. BuySquare = 3 * Unit + S
      BY <1>2, ParametersReturn DEF BuySquare
    <2> QED
      BY <1>1, <2>1, UnderRootBound, UnderRootShort, ParameterFacts
  <1>4. /\ low \in Nat /\ high \in Nat
        /\ (2 * S) * price <= y * y - x * x + low
        /\ y * y - x * x <= (2 * S) * price + high
    <2>1. q + m \in Nat /\ q <= q + m
      OBVIOUS
    <2> QED
      BY <1>1, <1>2, <2>1, RiseIsSquares
  <1>5. x \in Nat /\ y \in Nat /\ y = x + m /\ base = 2 * x /\ base \in Nat /\ base > 0
        /\ root \in Nat /\ root = n + x
    BY <1>2, ParameterFacts, PriceIsPositive
  <1> HIDE DEF x, y, low, high, base, root
  <1>6. /\ x * x \in Int /\ y * y \in Int /\ (2 * S) * price \in Int /\ root * root \in Int
        /\ (root + 1) * (root + 1) \in Int /\ UnderRoot(q, price) * Unit \in Int
    BY <1>1, <1>3, <1>5, ParameterFacts
  <1>7. root <= y + low \div base
    <2>1. root * root <= y * y + low
      BY <1>2, <1>4, <1>6
    <2>2. root > y => base <= root + y
      BY <1>5
    <2> QED
      BY <1>4, <1>5, <2>1, <2>2, SquareGap
  <1>8. y <= (root + 1) + (high + BuySquare) \div base
    <2>1. y * y <= (root + 1) * (root + 1) + (high + BuySquare)
      BY <1>2, <1>3, <1>4, <1>6
    <2>2. y > root + 1 => base <= y + (root + 1)
      BY <1>2, <1>5
    <2>3. root + 1 \in Nat /\ high + BuySquare \in Nat
      BY <1>3, <1>4, <1>5
    <2> QED
      BY <1>5, <2>1, <2>2, <2>3, SquareGap
  <1>9. low \div base \in Nat /\ (high + BuySquare) \div base \in Nat
    <2>1. high + BuySquare \in Nat
      BY <1>3, <1>4
    <2> QED
      BY <1>4, <1>5, <2>1, DivNat
  <1>10. n \in (m - (high + BuySquare) \div base - 1) .. (m + low \div base)
    BY <1>2, <1>5, <1>7, <1>8, <1>9
  <1>11. StepRatePrice = P
    BY <1>2
  <1> QED
    BY <1>10, <1>11 DEF InverseWhenBuying, low, high, base

\* What is taken off under the root when selling for a price, counted in S, is the
\* difference of the squares at either end of the rise, but for the roundings.
LEMMA PaidIsSquares ==
  ASSUME NEW price \in Nat, NEW rise \in Nat, NEW gap \in Int, NEW low \in Nat, NEW high \in Nat,
         StepTimesRate # Err,
         price = (SellPriceCoefficient * rise) \div Unit,
         (2 * S) * rise <= gap + low, gap <= (2 * S) * rise + high
  PROVE  /\ PaidSquare \in Nat
         /\ (S * PaidTerm(price)) * (S * Unit)
              <= (SellPriceCoefficient * SellPriceCoefficient) * (gap + low)
         /\ (SellPriceCoefficient * SellPriceCoefficient) * gap
              <= (S * PaidTerm(price)) * (S * Unit)
                   + (SellPriceCoefficient * SellPriceCoefficient) * (high + PaidSquare)
  <1> DEFINE c == SellPriceCoefficient
             b == PaidTerm(price)
             n == (S * Unit) * (2 * c + Unit + S)
  <1>1. /\ c \in Nat /\ c > 0 /\ S \in Nat /\ S > 0 /\ Unit \in Nat /\ Unit > 0
        /\ c * c \in Nat /\ c * c > 0
    BY ParameterFacts
  <1>2. b \in Nat /\ (2 * c) * price - Unit - S < S * b /\ S * b <= (2 * c) * price
    BY PaidTermBound, PaidTermLeq
  <1>3. price * Unit <= c * rise /\ c * rise < price * Unit + Unit
    <2>1. c * rise \in Nat
      BY <1>1
    <2>2. price * Unit <= c * rise /\ c * rise < (price + 1) * Unit
      BY <1>1, <2>1, DivBounds
    <2> HIDE DEF c
    <2> QED
      BY <1>1, <2>2
  <1>4. n \in Nat /\ PaidSquare = n \div (c * c) + 1
    <2>1. n = S * Unit * (2 * c + Unit + S) /\ n \in Nat
      BY <1>1
    <2>2. PaidSquare = (S * Unit * (2 * c + Unit + S)) \div (c * c) + 1
      BY ParametersReturn DEF PaidSquare
    <2> QED
      BY <2>1, <2>2
  <1> HIDE DEF c, b
  <1>5. PaidSquare \in Nat /\ n <= (c * c) * PaidSquare
    BY <1>1, <1>4, QuotientCovers
  <1>6. n = (S * Unit) * (2 * c + Unit + S)
    OBVIOUS
  <1> HIDE DEF n
  <1> DEFINE taken == (S * b) * (S * Unit)
             cash == ((2 * c) * S) * (price * Unit)
             worth == ((2 * c) * S) * (c * rise)
             u == ((2 * c) * S) * Unit
  <1>7. /\ taken \in Int /\ cash \in Int /\ worth \in Int /\ u \in Int
        /\ (c * c) * (gap + low) \in Int /\ (c * c) * gap \in Int /\ (c * c) * (high + PaidSquare) \in Int
        /\ (c * c) * ((2 * S) * rise) \in Int /\ (c * c) * high \in Int /\ (c * c) * PaidSquare \in Int
    BY <1>1, <1>2, <1>5
  <1>8. worth = (c * c) * ((2 * S) * rise)
    BY <1>1
  <1>9. cash <= worth /\ worth <= cash + u
    <2>1. /\ price * Unit \in Int /\ c * rise \in Int /\ price * Unit + Unit \in Int
          /\ (2 * c) * S \in Nat
      BY <1>1
    <2>2. (price * Unit) * ((2 * c) * S) <= (c * rise) * ((2 * c) * S)
      BY <1>3, <2>1, ScaleLeq
    <2>3. (c * rise) * ((2 * c) * S) <= (price * Unit + Unit) * ((2 * c) * S)
      <3>1. c * rise <= price * Unit + Unit
        BY <1>3, <2>1
      <3> QED
        BY <2>1, <3>1, ScaleLeq
    <2>4. /\ cash = (price * Unit) * ((2 * c) * S) /\ worth = (c * rise) * ((2 * c) * S)
          /\ (price * Unit + Unit) * ((2 * c) * S) = cash + u
      BY <1>1
    <2> QED
      BY <2>2, <2>3, <2>4
  <1>10. taken <= cash /\ cash <= taken + (S * Unit) * (Unit + S)
    <2>1. S * b \in Int /\ (2 * c) * price \in Int /\ S * b + (Unit + S) \in Int /\ S * Unit \in Nat
      BY <1>1, <1>2
    <2>2. (S * b) * (S * Unit) <= ((2 * c) * price) * (S * Unit)
      BY <1>2, <2>1, ScaleLeq
    <2>3. ((2 * c) * price) * (S * Unit) <= (S * b + (Unit + S)) * (S * Unit)
      <3>1. (2 * c) * price <= S * b + (Unit + S)
        BY <1>1, <1>2, <2>1
      <3> QED
        BY <2>1, <3>1, ScaleLeq
    <2>4. /\ cash = ((2 * c) * price) * (S * Unit)
          /\ (S * b + (Unit + S)) * (S * Unit) = taken + (S * Unit) * (Unit + S)
      BY <1>1, <1>2
    <2> QED
      BY <2>2, <2>3, <2>4
  <1>11. (c * c) * ((2 * S) * rise) <= (c * c) * (gap + low)
    <2>1. ((2 * S) * rise) * (c * c) <= (gap + low) * (c * c)
      BY <1>1, ScaleLeq
    <2> QED
      BY <1>1, <2>1
  <1>12. (c * c) * gap <= (c * c) * ((2 * S) * rise) + (c * c) * high
    <2>1. gap * (c * c) <= ((2 * S) * rise + high) * (c * c)
      BY <1>1, ScaleLeq
    <2>2. gap * (c * c) = (c * c) * gap
          /\ ((2 * S) * rise + high) * (c * c) = (c * c) * ((2 * S) * rise) + (c * c) * high
      BY <1>1
    <2> QED
      BY <2>1, <2>2
  <1>13. /\ n = u + (S * Unit) * (Unit + S) /\ (S * Unit) * (Unit + S) \in Int
         /\ (c * c) * (high + PaidSquare) = (c * c) * high + (c * c) * PaidSquare
    BY <1>1, <1>5, <1>6
  <1> HIDE DEF taken, cash, worth, u
  <1>14. taken <= (c * c) * (gap + low)
    BY <1>7, <1>8, <1>9, <1>10, <1>11
  <1>15. (c * c) * gap <= taken + (c * c) * (high + PaidSquare)
    BY <1>5, <1>7, <1>8, <1>9, <1>10, <1>12, <1>13
  <1> QED
    BY <1>5, <1>14, <1>15 DEF taken, c, b

\* The square of the term, counted in S, is that of q + P, but for its roundings.
LEMMA TermIsSquare ==
  ASSUME NEW q \in Nat, StepTimesRate # Err, StepRatePrice = P
  PROVE  /\ TermSquare(q) \in Nat
         /\ (S * Term(q)) * (S * Term(q))
              <= (SellPriceCoefficient * SellPriceCoefficient) * ((q + P) * (q + P))
         /\ (SellPriceCoefficient * SellPriceCoefficient) * ((q + P) * (q + P)) + (S * S) * Unit
              <= (S * Term(q)) * (S * Term(q))
                   + (SellPriceCoefficient * SellPriceCoefficient) * TermSquare(q)
  <1> DEFINE c == SellPriceCoefficient
             t == S * Term(q)
             y == c * (q + P)
             o == Unit + 2 * S
             n == 2 * (y * o) + (S * S) * Unit
  <1>1. /\ c \in Nat /\ c > 0 /\ S \in Nat /\ S > 0 /\ Unit \in Nat /\ Unit > 0 /\ P \in Nat
        /\ c * c \in Nat /\ c * c > 0 /\ y \in Nat /\ o \in Nat
    BY ParameterFacts
  <1>2. t \in Nat /\ t <= y /\ y < t + o
    <2>1. Term(q) \in Nat /\ t <= y
      BY TermBound
    <2>2. t \in Nat
      BY <1>1, <2>1
    <2> QED
      BY <2>1, <2>2, TermShort
  <1>3. n \in Nat /\ TermSquare(q) = n \div (c * c) + 1
    <2>1. /\ 2 * c * (q + P) * (Unit + 2 * S) = 2 * (y * o)
          /\ S * S * Unit = (S * S) * Unit
          /\ 2 * (y * o) \in Nat /\ (S * S) * Unit \in Nat
      BY <1>1
    <2>2. TermSquare(q)
            = (2 * c * (q + P) * (Unit + 2 * S) + S * S * Unit) \div (c * c) + 1
      BY ParametersReturn DEF TermSquare
    <2> QED
      BY <2>1, <2>2
  <1>4. y * y = (c * c) * ((q + P) * (q + P))
    BY <1>1
  <1> HIDE DEF c, t, y, o, n
  <1>5. TermSquare(q) \in Nat /\ n <= (c * c) * TermSquare(q)
    BY <1>1, <1>3, QuotientCovers
  <1>6. t * t <= y * y
    BY <1>1, <1>2, SquareLeq
  <1>7. y * y <= t * t + 2 * (y * o)
    <2>1. y * y <= (t + o) * y
      BY <1>1, <1>2, ScaleLeq
    <2>2. y * t <= (t + o) * t
      BY <1>1, <1>2, ScaleLeq
    <2>3. t * o <= y * o
      BY <1>1, <1>2, ScaleLeq
    <2>4. /\ (t + o) * y = y * t + y * o /\ (t + o) * t = t * t + t * o
          /\ y * t \in Int /\ y * o \in Int /\ t * t \in Int /\ t * o \in Int /\ y * y \in Int
      BY <1>1, <1>2
    <2> QED
      BY <2>1, <2>2, <2>3, <2>4
  <1>8. /\ n = 2 * (y * o) + (S * S) * Unit
        /\ y * o \in Int /\ (S * S) * Unit \in Int /\ y * y \in Int /\ t * t \in Int
        /\ (c * c) * TermSquare(q) \in Int
    BY <1>1, <1>2, <1>5 DEF n
  <1>9. y * y + (S * S) * Unit <= t * t + (c * c) * TermSquare(q)
    BY <1>3, <1>5, <1>7, <1>8
  <1> QED
    BY <1>4, <1>5, <1>6, <1>9 DEF t, c

\* The roots of a sale: what a unit of the root is worth, and the number under it
\* without its rounding.
LEMMA SoldRoot ==
  ASSUME NEW t \in Nat, NEW b \in Nat, NEW root \in Nat,
         root * root <= ((t * t) \div Unit - b) * Unit,
         ((t * t) \div Unit - b) * Unit < (root + 1) * (root + 1)
  PROVE  /\ (S * root) * (S * root) + (S * b) * (S * Unit) <= (S * t) * (S * t)
         /\ (S * t) * (S * t)
              <= (S * (root + 1)) * (S * (root + 1)) + (S * b) * (S * Unit) + (S * S) * Unit
  <1> DEFINE part == (t * t) \div Unit
  <1>1. /\ S \in Nat /\ Unit \in Nat /\ Unit > 0 /\ S * S \in Nat /\ t * t \in Nat
    BY ParameterFacts
  <1>2. part \in Nat /\ part * Unit <= t * t /\ t * t < (part + 1) * Unit
    BY <1>1, DivBounds, DivNat
  <1>3. root * root <= (part - b) * Unit /\ (part - b) * Unit < (root + 1) * (root + 1)
    OBVIOUS
  <1> HIDE DEF part
  <1>4. /\ (part - b) * Unit = part * Unit - b * Unit /\ (part + 1) * Unit = part * Unit + Unit
        /\ part * Unit \in Int /\ b * Unit \in Int /\ root * root \in Int
        /\ (root + 1) * (root + 1) \in Int
    BY <1>1, <1>2
  <1>5. root * root + b * Unit <= t * t /\ t * t <= (root + 1) * (root + 1) + b * Unit + Unit
    BY <1>1, <1>2, <1>3, <1>4
  <1>6. (root * root + b * Unit) * (S * S) <= (t * t) * (S * S)
    BY <1>1, <1>4, <1>5, ScaleLeq
  <1>7. (t * t) * (S * S) <= ((root + 1) * (root + 1) + b * Unit + Unit) * (S * S)
    BY <1>1, <1>4, <1>5, ScaleLeq
  <1>8. /\ (root * root + b * Unit) * (S * S) = (S * root) * (S * root) + (S * b) * (S * Unit)
        /\ (t * t) * (S * S) = (S * t) * (S * t)
    BY <1>1
  <1>9. ((root + 1) * (root + 1) + b * Unit + Unit) * (S * S)
          = (S * (root + 1)) * (S * (root + 1)) + (S * b) * (S * Unit) + (S * S) * Unit
    <2>1. PICK above \in Nat : above = root + 1
      OBVIOUS
    <2>2. (above * above + b * Unit + Unit) * (S * S)
            = (S * above) * (S * above) + (S * b) * (S * Unit) + (S * S) * Unit
      BY <1>1
    <2> QED
      BY <2>1, <2>2
  <1> QED
    BY <1>6, <1>7, <1>8, <1>9

\* A number whose square is at most that of another by a common factor is at most it.
LEMMA CancelSquare ==
  ASSUME NEW a \in Int, NEW b \in Int, NEW c \in Nat, c > 0, c * a <= c * b
  PROVE  a <= b
  <1>1. /\ c * a \in Int /\ c * b \in Int
        /\ a * c = c * a /\ (b + 1) * c = c * b + c
    BY SMT
  <1>2. a * c < (b + 1) * c
    BY <1>1
  <1>3. a < b + 1
    BY <1>2, CancelFactor
  <1> QED
    BY <1>3

\* Selling for the price of an amount sells that amount, but for the roundings.
LEMMA SoldIsInverse ==
  ASSUME NEW q \in Nat, NEW m \in Nat, m <= q, NEW price, NEW n,
         price = PriceForMainAsset(q, m, Sell), price # Err,
         n = PriceForCollateralAsset(q, price, Sell), n # Err
  PROVE  n \in InverseWhenSelling(q, m)
  <1> DEFINE c == SellPriceCoefficient
             r == q - m
             y == q + P
             z == r + P
             rest == (q - n) + P
             rise == Value(q) - Value(r)
             low == CurveSquare(r)
             high == CurveSquare(q)
             gap == y * y - z * z
             t == Term(q)
             b == PaidTerm(price)
             off == (Unit + S) \div c + 2
  <1>1. /\ c \in Nat /\ c > 0 /\ S \in Nat /\ S > 0 /\ Unit \in Nat /\ Unit > 0 /\ P \in Nat /\ P > 0
        /\ c * c \in Nat /\ c * c > 0
        /\ r \in Nat /\ r <= q /\ y \in Nat /\ z \in Nat /\ z > 0 /\ y = z + m /\ gap \in Int
    BY ParameterFacts, PriceIsPositive
  <1>2. price \in Nat /\ price = (c * rise) \div Unit
    BY MainAssetPrice
  <1>3. n \in Nat /\ StepTimesRate # Err /\ StepRatePrice = P /\ rest \in Nat
    BY <1>2, CollateralPrice
  <1>4. PICK root \in Nat :
          /\ root * root <= ((t * t) \div Unit - b) * Unit
          /\ ((t * t) \div Unit - b) * Unit < (root + 1) * (root + 1)
          /\ c * rest <= S * root
          /\ S * root < c * (rest + 1) + Unit
    BY <1>2, CollateralPrice
  <1>5. /\ rise \in Nat /\ low \in Nat /\ high \in Nat
        /\ (2 * S) * rise <= gap + low /\ gap <= (2 * S) * rise + high
    <2>1. rise \in Nat
      <3>1. Value(r) <= Value(q) /\ Value(r) \in Nat /\ Value(q) \in Nat
        BY <1>1, ValueRises, ValueBounds
      <3> QED
        BY <3>1
    <2>2. /\ low \in Nat /\ high \in Nat
          /\ (2 * S) * rise <= gap + low /\ gap <= (2 * S) * rise + high
      BY <1>1, <1>3, RiseIsSquares
    <2> QED
      BY <2>1, <2>2
  <1> HIDE DEF rise, low, high, rest, r
  <1>6. /\ PaidSquare \in Nat
        /\ (S * b) * (S * Unit) <= (c * c) * (gap + low)
        /\ (c * c) * gap <= (S * b) * (S * Unit) + (c * c) * (high + PaidSquare)
    BY <1>1, <1>2, <1>3, <1>5, PaidIsSquares
  <1>7. /\ TermSquare(q) \in Nat
        /\ (S * t) * (S * t) <= (c * c) * (y * y)
        /\ (c * c) * (y * y) + (S * S) * Unit <= (S * t) * (S * t) + (c * c) * TermSquare(q)
    BY <1>3, TermIsSquare
  <1>8. t \in Nat /\ b \in Nat
    BY <1>2, TermBound, PaidTermBound
  <1>9. /\ (S * root) * (S * root) + (S * b) * (S * Unit) <= (S * t) * (S * t)
        /\ (S * t) * (S * t)
             <= (S * (root + 1)) * (S * (root + 1)) + (S * b) * (S * Unit) + (S * S) * Unit
    BY <1>4, <1>8, SoldRoot
  <1>10. /\ (Unit + S) \div c \in Nat /\ off \in Nat /\ off = (Unit + S) \div c + 2
         /\ Unit + S <= c * ((Unit + S) \div c + 1)
    <2>1. Unit + S \in Nat
      BY <1>1
    <2> QED
      BY <1>1, <2>1, DivNat, QuotientCovers
  <1>11. gap = y * y - z * z
    OBVIOUS
  <1> HIDE DEF c, y, z, gap, t, b, off
  <1>12. /\ (c * c) * gap = (c * c) * (y * y) - (c * c) * (z * z)
         /\ (c * c) * (gap + low) = (c * c) * gap + (c * c) * low
         /\ (c * c) * (z * z + (high + PaidSquare)) = (c * c) * (z * z) + (c * c) * (high + PaidSquare)
    BY <1>1, <1>5, <1>6, <1>11
  <1>13. /\ (S * root) * (S * root) \in Int /\ (S * b) * (S * Unit) \in Int
         /\ (S * t) * (S * t) \in Int /\ (S * (root + 1)) * (S * (root + 1)) \in Int
         /\ (S * S) * Unit \in Int /\ (c * c) * (y * y) \in Int /\ (c * c) * (z * z) \in Int
         /\ (c * c) * gap \in Int /\ (c * c) * low \in Int /\ (c * c) * TermSquare(q) \in Int
         /\ (c * c) * (high + PaidSquare) \in Int
    BY <1>1, <1>4, <1>5, <1>6, <1>7, <1>8
  <1>14. rest <= z + (high + PaidSquare) \div (2 * z)
    <2>1. (c * rest) * (c * rest) <= (S * root) * (S * root)
      <3>1. c * rest \in Nat /\ S * root \in Nat
        BY <1>1, <1>3, <1>4
      <3> QED
        BY <1>4, <3>1, SquareLeq
    <2>2. (c * rest) * (c * rest) = (c * c) * (rest * rest) /\ (c * c) * (rest * rest) \in Int
      BY <1>1, <1>3
    <2>3. (c * c) * (rest * rest) <= (c * c) * (z * z + (high + PaidSquare))
      BY <1>6, <1>7, <1>9, <1>12, <1>13, <2>1, <2>2
    <2>4. rest * rest <= z * z + (high + PaidSquare)
      <3>1. rest * rest \in Int /\ z * z + (high + PaidSquare) \in Int
        BY <1>1, <1>3, <1>5, <1>6
      <3> QED
        BY <1>1, <2>3, <3>1, CancelSquare
    <2>5. /\ high + PaidSquare \in Nat /\ 2 * z \in Nat /\ 2 * z > 0
          /\ rest > z => 2 * z <= rest + z
      BY <1>1, <1>3, <1>5, <1>6
    <2> QED
      BY <1>1, <1>3, <2>4, <2>5, SquareGap
  <1>15. z <= (rest + off) + (low + TermSquare(q)) \div z
    <2>1. S * (root + 1) <= c * (rest + off)
      <3>1. PICK k \in Nat : k = (Unit + S) \div c + 1
        BY <1>10
      <3>2. /\ rest + off = rest + 1 + k /\ Unit + S <= c * k
        BY <1>3, <1>10, <3>1
      <3>3. /\ c * (rest + 1 + k) = c * (rest + 1) + c * k /\ S * (root + 1) = S * root + S
            /\ c * (rest + 1) \in Int /\ c * k \in Int /\ S * root \in Int
        BY <1>1, <1>3, <1>4, <3>1
      <3> QED
        BY <1>1, <1>4, <3>2, <3>3
    <2>2. (S * (root + 1)) * (S * (root + 1)) <= (c * (rest + off)) * (c * (rest + off))
      <3>1. c * (rest + off) \in Nat /\ S * (root + 1) \in Nat
        BY <1>1, <1>3, <1>4, <1>10
      <3> QED
        BY <2>1, <3>1, SquareLeq
    <2>3. PICK e \in Nat : e = rest + off
      BY <1>3, <1>10
    <2>4. /\ (c * e) * (c * e) = (c * c) * (e * e) /\ (c * c) * (e * e) \in Int
          /\ (c * c) * (e * e + (low + TermSquare(q)))
               = (c * c) * (e * e) + (c * c) * low + (c * c) * TermSquare(q)
      BY <1>1, <1>5, <1>7, <2>3
    <2>5. (c * c) * (z * z) <= (c * c) * (e * e + (low + TermSquare(q)))
      BY <1>6, <1>7, <1>9, <1>12, <1>13, <2>2, <2>3, <2>4
    <2>6. z * z <= e * e + (low + TermSquare(q))
      <3>1. z * z \in Int /\ e * e + (low + TermSquare(q)) \in Int
        BY <1>1, <1>5, <1>7, <2>3
      <3> QED
        BY <1>1, <2>5, <3>1, CancelSquare
    <2>7. low + TermSquare(q) \in Nat /\ (z > e => z <= z + e)
      BY <1>1, <1>5, <1>7, <2>3
    <2> QED
      BY <1>1, <2>3, <2>6, <2>7, SquareGap
  <1>16. /\ (high + PaidSquare) \div (2 * z) \in Nat
         /\ (low + TermSquare(q)) \div z \in Nat
    <2>1. high + PaidSquare \in Nat /\ low + TermSquare(q) \in Nat /\ 2 * z \in Nat /\ 2 * z > 0
      BY <1>1, <1>5, <1>6, <1>7
    <2> QED
      BY <1>1, <2>1, DivNat
  <1>17. n + rest = m + z
    <2>1. n \in Int /\ P \in Int /\ m \in Int /\ z \in Int /\ q + P = z + m
      BY <1>1, <1>3 DEF y
    <2> QED
      BY <2>1 DEF rest
  <1>18. n \in (m - (high + PaidSquare) \div (2 * z))
                 .. (m + (low + TermSquare(q)) \div z + off)
    BY <1>1, <1>3, <1>10, <1>14, <1>15, <1>16, <1>17
  <1>19. /\ q - m + StepRatePrice = z /\ StepTimesRate = S
    BY <1>1, <1>3, ParametersReturn DEF z, r
  <1> QED
    BY <1>18, <1>19 DEF InverseWhenSelling, low, high, r, off, c

\* In every state that can be reached, price_for_collateral_asset gives back the
\* amount that price_for_main_asset priced, when buying and when selling, but for
\* what the roundings of the two formulas are worth at the issuance the pool has.
THEOREM PricesInvert == Spec => []PricesAreInverse
  <1>1. TypeOK => PricesAreInverse
    <2> SUFFICES ASSUME TypeOK, NEW amount \in Amounts, NEW kind \in Kinds, NEW price, NEW inverse,
                        price = PriceForMainAsset(issuance, amount, kind),
                        inverse = PriceForCollateralAsset(issuance, price, kind),
                        price # Err, inverse # Err, kind = Sell => amount <= issuance
                 PROVE  inverse \in IF kind = Buy THEN InverseWhenBuying(issuance, amount)
                                    ELSE InverseWhenSelling(issuance, amount)
      BY DEF PricesAreInverse
    <2>1. issuance \in Nat /\ amount \in Nat
      BY AmountAssumption DEF TypeOK, Balance
    <2>2. CASE kind = Buy
      BY <2>1, <2>2, BoughtIsInverse
    <2>3. CASE kind = Sell
      BY <2>1, <2>3, SoldIsInverse DEF Buy, Sell
    <2> QED
      BY <2>2, <2>3 DEF Kinds
  <1> QED
    BY <1>1, TypesAreKept, PTL
=============================================================================
