--------------------------- MODULE PoolXYKProofs ---------------------------
(***************************************************************************)
(* Theorems about every instance of PoolXYK: any users, DEXs, amounts,     *)
(* width, unit, fee, MIN_LIQUIDITY and existential deposit.                *)
(***************************************************************************)
EXTENDS PoolXYK, XykMathProofs, TotalsProofs

-----------------------------------------------------------------------------
(* Balances.                                                               *)

\* Balances are natural numbers and a pool's accounts are not users.
LEMMA AccountFacts ==
  /\ Balance \subseteq Nat
  /\ 0 \in Balance
  /\ Users \subseteq Account
  /\ \A d \in Dexes : Pool(d) \in Account /\ FeeAccount(d) \in Account
  /\ \A d \in Dexes : Pool(d) \notin Users /\ FeeAccount(d) \notin Users
  BY ModulusAssumption, AccountAssumption, FixedFacts DEF Balance, Account

\* The fee account of a pool is never the account of a pool.
LEMMA FeeAccountIsNoPool ==
  \A d, e : FeeAccount(d) # Pool(e)
  BY DEF FeeAccount, Pool

\* The amounts callers choose are balances.
LEMMA AmountFacts ==
  /\ \A n \in DepositAmounts : n \in Balance
  /\ \A n \in SwapAmounts : n \in Balance
  /\ \A n \in Limits : n \in Balance
  /\ \A n \in MaxInputs : n \in Balance
  /\ \A n \in BurnAmounts : n \in Balance
  /\ \A n \in TransferAmounts : n \in Balance
  /\ \A n \in MarkerAmounts : n \in Balance
  /\ Receivers \subseteq Account
  BY AmountsAssumption, ReceiversAssumption

\* A base transfer that is allowed keeps balances balances, dust included, and
\* changes no third account.
LEMMA MoveBaseFacts ==
  ASSUME NEW bal \in [Account -> Balance], NEW from \in Account, NEW to \in Account,
         NEW amount \in Nat, CanMoveBase(bal, from, to, amount),
         NEW new, new = MoveBase(bal, from, to, amount)
  PROVE  /\ new \in [Account -> Balance]
         /\ \A a \in Account : a # from => new[a] >= bal[a]
         /\ \A a \in Account : a # from /\ a # to => new[a] = bal[a]
         /\ \/ new[from] = bal[from]
            \/ new[from] = KeepAlive(bal[from] - amount) /\ amount <= bal[from]
         /\ from # to => new[to] = bal[to] + amount
  <1>1. /\ \A b \in Balance : b \in Nat /\ b >= b /\ b = b + 0
        /\ \A a \in Account : bal[a] \in Balance
        /\ ED \in Nat
    BY AccountFacts, EDAssumption
  <1>2. CASE amount = 0 \/ from = to
    <2>1. new = bal
      BY <1>2 DEF MoveBase
    <2>2. QED  BY <1>1, <1>2, <2>1
  <1>3. CASE ~(amount = 0 \/ from = to)
    <2> DEFINE kept == KeepAlive(bal[from] - amount)
               paid == bal[to] + amount
    <2>1. amount <= bal[from] /\ paid \in Balance
      BY <1>3 DEF CanMoveBase
    <2>2. kept \in Balance
      <3>1. bal[from] \in 0 .. (Modulus - 1)
        BY <1>1 DEF Balance
      <3>2. bal[from] - amount \in 0 .. (Modulus - 1)
        BY <2>1, <3>1, ModulusAssumption
      <3>3. 0 \in Balance
        BY AccountFacts
      <3>4. QED  BY <1>1, <3>2, <3>3 DEF KeepAlive, Balance
    <2>3. paid >= bal[to]
      <3>1. bal[to] \in Nat
        BY <1>1
      <3>2. QED  BY <3>1
    <2>4. new = [bal EXCEPT ![from] = kept, ![to] = paid]
      BY <1>3 DEF MoveBase
    <2> HIDE DEF kept, paid
    <2>5. /\ new \in [Account -> Balance]
          /\ new[from] = kept
          /\ new[to] = paid
          /\ \A a \in Account : a # from /\ a # to => new[a] = bal[a]
      BY <1>3, <2>1, <2>2, <2>4
    <2>6. \A a \in Account : a # from => new[a] >= bal[a]
      BY <1>1, <2>3, <2>5
    <2>7. QED  BY <2>1, <2>5, <2>6 DEF kept, paid
  <1>4. QED  BY <1>2, <1>3

\* The same for a currency without an existential deposit.
LEMMA MoveTargetFacts ==
  ASSUME NEW A, NEW bal \in [A -> Balance], NEW from \in A, NEW to \in A,
         NEW amount \in Nat, CanMoveTarget(bal, from, to, amount),
         NEW new, new = MoveTarget(bal, from, to, amount)
  PROVE  /\ new \in [A -> Balance]
         /\ \A a \in A : a # from => new[a] >= bal[a]
         /\ \A a \in A : a # from /\ a # to => new[a] = bal[a]
         /\ from # to => /\ new[from] = bal[from] - amount
                         /\ new[to] = bal[to] + amount
                         /\ amount <= bal[from]
         /\ from = to => new = bal
  <1>1. /\ \A b \in Balance : b \in Nat /\ b >= b /\ b = b + 0 /\ b = b - 0 /\ 0 <= b
        /\ \A a \in A : bal[a] \in Balance
    BY AccountFacts
  <1>2. CASE amount = 0 \/ from = to
    <2>1. new = bal
      BY <1>2 DEF MoveTarget
    <2>2. QED  BY <1>1, <1>2, <2>1
  <1>3. CASE ~(amount = 0 \/ from = to)
    <2> DEFINE left == bal[from] - amount
               paid == bal[to] + amount
    <2>1. amount <= bal[from] /\ paid \in Balance
      BY <1>3 DEF CanMoveTarget
    <2>2. left \in Balance
      <3>1. bal[from] \in 0 .. (Modulus - 1)
        BY <1>1 DEF Balance
      <3>2. QED  BY <2>1, <3>1, ModulusAssumption DEF Balance
    <2>3. paid >= bal[to]
      <3>1. bal[to] \in Nat
        BY <1>1
      <3>2. QED  BY <3>1
    <2>4. new = [bal EXCEPT ![from] = left, ![to] = paid]
      BY <1>3 DEF MoveTarget
    <2> HIDE DEF left, paid
    <2>5. /\ new \in [A -> Balance]
          /\ new[from] = left
          /\ new[to] = paid
          /\ \A a \in A : a # from /\ a # to => new[a] = bal[a]
      BY <1>3, <2>1, <2>2, <2>4
    <2>6. \A a \in A : a # from => new[a] >= bal[a]
      BY <1>1, <2>3, <2>5
    <2>7. QED  BY <1>3, <2>1, <2>5, <2>6 DEF left, paid
  <1>4. QED  BY <1>2, <1>3

-----------------------------------------------------------------------------
(* The inductive invariant.  TypeOK is not inductive alone: burning lowers  *)
(* the issuance by an amount checked against the holder's balance only.     *)

IInv == TypeOK /\ IssuanceIsBacked

\* The parts of a state that satisfies the invariant, for a pool and a user.
LEMMA StateFacts ==
  ASSUME TypeOK, NEW d \in Dexes, NEW u \in Users
  PROVE  /\ base[Pool(d)] \in Nat /\ target[Pool(d)] \in Nat
         /\ base[u] \in Nat /\ target[u] \in Nat
         /\ marker[d] \in [Users -> Nat] /\ marker[d][u] \in Nat
         /\ marker[d] \in [Users -> Balance]
         /\ issuance[d] \in Nat
  <1>1. /\ base \in [Account -> Balance] /\ target \in [Account -> Balance]
        /\ marker \in [Dexes -> [Users -> Balance]] /\ issuance \in [Dexes -> Balance]
    BY DEF TypeOK
  <1>2. Balance \subseteq Nat /\ Pool(d) \in Account /\ u \in Account
    BY AccountFacts
  <1>3. base[Pool(d)] \in Nat /\ target[Pool(d)] \in Nat
    BY <1>1, <1>2
  <1>4. base[u] \in Nat /\ target[u] \in Nat
    BY <1>1, <1>2
  <1>5. marker[d] \in [Users -> Balance] /\ issuance[d] \in Nat
    BY <1>1, <1>2
  <1>6. marker[d] \in [Users -> Nat]
    BY <1>2, <1>5
  <1>7. marker[d][u] \in Nat
    BY <1>6
  <1>8. QED  BY <1>3, <1>4, <1>5, <1>6, <1>7

\* Minting through CanMint and Mint keeps the invariant's part about marker tokens.
LEMMA MintFacts ==
  ASSUME IInv, NEW d \in Dexes, NEW u \in Users, NEW amount \in Nat,
         CanMint(d, u, amount), Mint(d, u, amount)
  PROVE  /\ marker' \in [Dexes -> [Users -> Balance]]
         /\ issuance' \in [Dexes -> Balance]
         /\ issuance'[d] = issuance[d] + amount
         /\ \A e \in Dexes \ {d} : issuance'[e] = issuance[e]
         /\ IssuanceIsBacked'
  <1> DEFINE g == marker'[d]
  <1>1. /\ marker \in [Dexes -> [Users -> Balance]] /\ issuance \in [Dexes -> Balance]
        /\ IsFiniteSet(UnitsOf(marker[d]))
        /\ Cardinality(UnitsOf(marker[d])) = issuance[d]
    BY DEF IInv, TypeOK, IssuanceIsBacked
  <1>2. /\ marker' = [marker EXCEPT ![d][u] = marker[d][u] + amount]
        /\ issuance' = [issuance EXCEPT ![d] = issuance[d] + amount]
        /\ marker[d][u] + amount \in Balance /\ issuance[d] + amount \in Balance
    BY DEF Mint, CanMint
  <1>3. /\ marker' \in [Dexes -> [Users -> Balance]]
        /\ issuance' \in [Dexes -> Balance]
        /\ issuance'[d] = issuance[d] + amount
        /\ \A e \in Dexes \ {d} : issuance'[e] = issuance[e] /\ marker'[e] = marker[e]
        /\ g[u] = marker[d][u] + amount
        /\ \A v \in Users \ {u} : g[v] = marker[d][v]
    BY <1>1, <1>2
  <1>4. marker[d] \in [Users -> Nat] /\ g \in [Users -> Nat]
    BY <1>1, <1>3, AccountFacts
  <1>5. /\ IsFiniteSet(UnitsOf(g))
        /\ Cardinality(UnitsOf(g)) = Cardinality(UnitsOf(marker[d])) + amount
    <2> DEFINE f == marker[d]
    <2>1. f \in [Users -> Nat] /\ g \in [Users -> Nat] /\ IsFiniteSet(UnitsOf(f))
      BY <1>1, <1>4
    <2>2. g[u] = f[u] + amount /\ \A v \in Users \ {u} : g[v] = f[v]
      BY <1>3
    <2> HIDE DEF f, g
    <2>3. /\ IsFiniteSet(UnitsOf(g))
          /\ Cardinality(UnitsOf(g)) = Cardinality(UnitsOf(f)) + amount
      BY <2>1, <2>2, AddUnits
    <2>4. QED  BY <2>3 DEF f
  <1> HIDE DEF g
  <1>6. IssuanceIsBacked'
    BY <1>1, <1>3, <1>5 DEF g, IInv, IssuanceIsBacked
  <1>7. QED  BY <1>3, <1>6

\* Burning what its holder has never takes the issuance below zero: every token
\* burned is one of the tokens the issuance counts.
LEMMA BurnFacts ==
  ASSUME IInv, NEW d \in Dexes, NEW u \in Users, NEW amount \in Nat,
         CanBurn(d, u, amount), Burn(d, u, amount)
  PROVE  /\ marker' \in [Dexes -> [Users -> Balance]]
         /\ issuance' \in [Dexes -> Balance]
         /\ issuance[d] = issuance'[d] + amount
         /\ \A e \in Dexes \ {d} : issuance'[e] = issuance[e]
         /\ IssuanceIsBacked'
  <1> DEFINE g == [marker[d] EXCEPT ![u] = marker[d][u] - amount]
  <1>1. /\ marker \in [Dexes -> [Users -> Balance]] /\ issuance \in [Dexes -> Balance]
        /\ IsFiniteSet(UnitsOf(marker[d]))
        /\ Cardinality(UnitsOf(marker[d])) = issuance[d]
    BY DEF IInv, TypeOK, IssuanceIsBacked
  <1>2. /\ marker' = [marker EXCEPT ![d] = g]
        /\ issuance' = [issuance EXCEPT ![d] = issuance[d] - amount]
        /\ amount <= marker[d][u]
    BY DEF Burn, CanBurn
  <1>3. marker[d][u] \in 0 .. (Modulus - 1) /\ issuance[d] \in 0 .. (Modulus - 1)
    BY <1>1 DEF Balance
  <1>4. marker[d][u] - amount \in Balance
    BY <1>2, <1>3, ModulusAssumption DEF Balance
  <1>5. /\ g \in [Users -> Balance] /\ g[u] = marker[d][u] - amount
        /\ \A v \in Users \ {u} : g[v] = marker[d][v]
    BY <1>1, <1>4
  <1>6. marker[d] \in [Users -> Nat] /\ g \in [Users -> Nat]
    BY <1>1, <1>5, AccountFacts
  <1> HIDE DEF g
  <1>7. /\ IsFiniteSet(UnitsOf(g)) /\ Cardinality(UnitsOf(g)) \in Nat
        /\ issuance[d] = Cardinality(UnitsOf(g)) + amount
    BY <1>1, <1>2, <1>5, <1>6, RemoveUnits
  <1>8. issuance[d] - amount = Cardinality(UnitsOf(g)) /\ issuance[d] - amount \in Balance
    BY <1>3, <1>7, ModulusAssumption DEF Balance
  <1>9. /\ marker' \in [Dexes -> [Users -> Balance]]
        /\ issuance' \in [Dexes -> Balance]
        /\ issuance'[d] = issuance[d] - amount /\ marker'[d] = g
        /\ \A e \in Dexes \ {d} : issuance'[e] = issuance[e] /\ marker'[e] = marker[e]
    BY <1>1, <1>2, <1>5, <1>8
  <1>10. IssuanceIsBacked'
    BY <1>1, <1>7, <1>8, <1>9 DEF IInv, IssuanceIsBacked
  <1>11. issuance[d] = issuance'[d] + amount
    BY <1>3, <1>9
  <1>12. QED  BY <1>9, <1>10, <1>11

\* Moving marker tokens between users is a removal and an addition.
LEMMA TransferMarkerFacts ==
  ASSUME IInv, NEW d \in Dexes, NEW u \in Users, NEW v \in Users, NEW amount \in Nat,
         TransferMarker(u, v, d, amount)
  PROVE  /\ marker' \in [Dexes -> [Users -> Balance]]
         /\ IssuanceIsBacked'
  <1> DEFINE f == marker[d]
             h == MoveTarget(f, u, v, amount)
  <1>1. /\ marker \in [Dexes -> [Users -> Balance]] /\ issuance \in [Dexes -> Balance]
        /\ f \in [Users -> Balance] /\ f \in [Users -> Nat]
        /\ IsFiniteSet(UnitsOf(f))
        /\ Cardinality(UnitsOf(f)) = issuance[d]
    BY AccountFacts DEF IInv, TypeOK, IssuanceIsBacked
  <1>2. CanMoveTarget(f, u, v, amount) /\ marker' = [marker EXCEPT ![d] = h]
        /\ issuance' = issuance
    BY DEF TransferMarker
  <1>3. /\ h \in [Users -> Balance]
        /\ \A w \in Users : w # u /\ w # v => h[w] = f[w]
        /\ u # v => h[u] = f[u] - amount /\ h[v] = f[v] + amount /\ amount <= f[u]
        /\ u = v => h = f
    BY <1>1, <1>2, MoveTargetFacts
  <1>4. IsFiniteSet(UnitsOf(h)) /\ Cardinality(UnitsOf(h)) = issuance[d]
    <2>1. CASE u = v
      BY <1>1, <1>3, <2>1
    <2>2. CASE u # v
      <3> DEFINE g == [f EXCEPT ![u] = f[u] - amount]
      <3> HIDE DEF f, h
      <3>1. f[u] - amount \in Nat /\ f[u] \in Nat /\ amount <= f[u]
        BY <1>1, <1>3, <2>2
      <3>2. /\ g \in [Users -> Nat] /\ g[u] = f[u] - amount
            /\ \A w \in Users \ {u} : g[w] = f[w]
        BY <1>1, <3>1
      <3>3. h \in [Users -> Nat] /\ h[v] = g[v] + amount
            /\ \A w \in Users \ {v} : h[w] = g[w]
        BY <1>3, <2>2, <3>2, AccountFacts
      <3> HIDE DEF g
      <3>4. /\ IsFiniteSet(UnitsOf(g)) /\ Cardinality(UnitsOf(g)) \in Nat
            /\ Cardinality(UnitsOf(f)) = Cardinality(UnitsOf(g)) + amount
        BY <1>1, <3>1, <3>2, RemoveUnits
      <3>5. /\ IsFiniteSet(UnitsOf(h))
            /\ Cardinality(UnitsOf(h)) = Cardinality(UnitsOf(g)) + amount
        BY <3>2, <3>3, <3>4, AddUnits
      <3>6. QED  BY <1>1, <3>4, <3>5
    <2>3. QED  BY <2>1, <2>2
  <1> HIDE DEF f, h
  <1>5. /\ marker' \in [Dexes -> [Users -> Balance]] /\ marker'[d] = h
        /\ \A e \in Dexes \ {d} : marker'[e] = marker[e]
    BY <1>1, <1>2, <1>3
  <1>6. QED  BY <1>2, <1>4, <1>5 DEF IInv, IssuanceIsBacked
-----------------------------------------------------------------------------
(* What a deposit, a withdrawal and a swap do to the balances, whatever the *)
(* caller chose.                                                           *)

DepositStep(u, d) ==
    \E bd, td, bm, tm \in Nat, baseFirst \in BOOLEAN :
        DepositLiquidity(u, d, bd, td, bm, tm, baseFirst)

WithdrawStep(u, d) ==
    \E k, bm, tm \in Nat : WithdrawLiquidity(u, d, k, bm, tm)

\* A swap whose fee, when it is taken from the source, is part of the input.
SwapStep(u, d) ==
    \E r \in Account, sellBase \in BOOLEAN, src, dst, fee \in Nat :
        /\ sellBase => fee <= src
        /\ Swap(u, r, d, sellBase, src, dst, fee)

\* The amounts of a deposit are amounts; unless the pool is empty, the tokens it
\* mints are at most the share of either side.
LEMMA DepositTermsFacts ==
  ASSUME TypeOK, NEW d \in Dexes, NEW bd \in Nat, NEW td \in Nat, NEW bm, NEW tm,
         NEW baseFirst \in BOOLEAN,
         NEW terms, terms = DepositTerms(d, bd, td, bm, tm, baseFirst), terms # Err
  PROVE  /\ terms.base \in Nat /\ terms.target \in Nat /\ terms.minted \in Nat
         /\ ~PoolIsEmpty(d) =>
               /\ issuance[d] > 0
               /\ MarkerFor(terms.base, base[Pool(d)], issuance[d]) \in Nat
               /\ terms.minted <= MarkerFor(terms.base, base[Pool(d)], issuance[d])
               /\ MarkerFor(terms.target, target[Pool(d)], issuance[d]) \in Nat
               /\ terms.minted <= MarkerFor(terms.target, target[Pool(d)], issuance[d])
  <1> DEFINE rb == base[Pool(d)]
             rt == target[Pool(d)]
             t == issuance[d]
             k0 == PoolK(bd, td)
             calcBase == CalcDepositLiquidity(t, rb, rt, bd, td, bm, tm)
             calcTarget == CalcDepositLiquidity(t, rt, rb, td, bd, tm, bm)
  <1>1. rb \in Nat /\ rt \in Nat /\ t \in Nat
    BY AccountFacts DEF TypeOK
  <1>2. CASE PoolIsEmpty(d)
    <2>1. k0 # Err /\ terms = [base |-> bd, target |-> td,
                               minted |-> WrapSub(k0, MinLiquidity)]
      BY <1>2 DEF DepositTerms, FirstDepositTerms
    <2>2. k0 \in Int
      <3>1. MultiplyAndSqrt(FromBalance(bd), FromBalance(td)) \in FixedOrErr
        BY ErrAssumption, FixedFacts
        DEF MultiplyAndSqrt, FxMul, Checked, Fixed, FixedOrErr
      <3>2. k0 \in NatOrErr
        BY <3>1, ToBalanceFacts DEF PoolK
      <3>3. QED  BY <2>1, <3>2 DEF NatOrErr
    <2>3. WrapSub(k0, MinLiquidity) \in Nat
      <3>1. k0 - MinLiquidity \in Int /\ Modulus \in Int /\ Modulus > 0
        BY <2>2, ModulusAssumption, MinLiquidityAssumption, FixedFacts
      <3>2. QED  BY <3>1 DEF WrapSub
    <2>4. QED  BY <1>2, <2>1, <2>3
  <1>3. CASE ~PoolIsEmpty(d) /\ baseFirst
    <2>1. calcBase # Err /\ terms = [base |-> calcBase.a, target |-> calcBase.b,
                                     minted |-> calcBase.marker]
      BY <1>3 DEF DepositTerms, LaterDepositTerms, BaseFirstTerms
    <2>2. /\ t > 0
          /\ calcBase.a \in Nat /\ calcBase.b \in Nat /\ calcBase.marker \in Nat
          /\ MarkerFor(calcBase.a, rb, t) \in Nat
          /\ calcBase.marker <= MarkerFor(calcBase.a, rb, t)
          /\ MarkerFor(calcBase.b, rt, t) \in Nat
          /\ calcBase.marker <= MarkerFor(calcBase.b, rt, t)
      BY <1>1, <2>1, DepositLiquidityFacts
    <2> HIDE DEF calcBase
    <2>3. QED  BY <2>1, <2>2
  <1>4. CASE ~PoolIsEmpty(d) /\ ~baseFirst
    <2>1. calcTarget # Err /\ terms = [base |-> calcTarget.b, target |-> calcTarget.a,
                                       minted |-> calcTarget.marker]
      BY <1>4 DEF DepositTerms, LaterDepositTerms, TargetFirstTerms
    <2>2. /\ t > 0
          /\ calcTarget.a \in Nat /\ calcTarget.b \in Nat /\ calcTarget.marker \in Nat
          /\ MarkerFor(calcTarget.a, rt, t) \in Nat
          /\ calcTarget.marker <= MarkerFor(calcTarget.a, rt, t)
          /\ MarkerFor(calcTarget.b, rb, t) \in Nat
          /\ calcTarget.marker <= MarkerFor(calcTarget.b, rb, t)
      BY <1>1, <2>1, DepositLiquidityFacts
    <2> HIDE DEF calcTarget
    <2>3. QED  BY <2>1, <2>2
  <1>5. QED  BY <1>2, <1>3, <1>4

\* A swap that passes the price guard leaves something of the destination reserve:
\* the price after it divides by what is left.
LEMMA PriceGuardKeepsReserve ==
  ASSUME NEW x \in Nat, NEW y \in Nat, NEW src \in Nat, NEW dst \in Nat,
         dst <= y, PriceGuardHolds(x, y, src, dst)
  PROVE  dst < y
  <1> DEFINE fy == FromBalance(y)
             fd == FromBalance(dst)
             left == FxSub(fy, fd)
             after == FxDiv(FxAdd(FromBalance(x), FromBalance(src)), left)
             diff == FxSub(after, FxDiv(FromBalance(x), fy))
  <1>1. SUFFICES ASSUME dst = y  PROVE FALSE
    OBVIOUS
  <1>2. left = Err \/ left = 0
    <2>1. fy = fd /\ fy \in FixedOrErr
      BY <1>1, FromBalanceFacts DEF NatOrErr
    <2>2. left \in FixedOrErr /\ (left # Err => fy # Err /\ left = fy - fd)
      BY <2>1, AddSubFacts
    <2>3. fy # Err => fy \in Int
      BY <2>1, FixedFacts DEF FixedOrErr
    <2>4. QED  BY <2>1, <2>2, <2>3
  <1>3. after = Err
    BY <1>2 DEF FxDiv
  <1>4. diff = Err
    BY <1>3 DEF FxSub
  <1>5. ToBalance(FxMul(diff, diff)) = Err
    BY <1>4 DEF FxMul, ToBalance
  <1>6. QED  BY <1>5 DEF PriceGuardHolds

\* The state a swap leaves: balances, no new dust, and target tokens in every pool
\* that had some.
LEMMA SwapFacts ==
  ASSUME TypeOK, NEW u \in Users, NEW d \in Dexes, SwapStep(u, d)
  PROVE  /\ base' \in [Account -> Balance]
         /\ target' \in [Account -> Balance]
         /\ \A e \in Dexes : target[Pool(e)] > 0 => target'[Pool(e)] > 0
         /\ UpdateReserves(d) /\ UNCHANGED <<marker, issuance, mintable, owner>>
  <1>1. PICK receiver \in Account, sellBase \in BOOLEAN, src \in Nat, dst \in Nat,
            fee \in Nat : /\ sellBase => fee <= src
                          /\ Swap(u, receiver, d, sellBase, src, dst, fee)
    BY DEF SwapStep
  <1>2. UpdateReserves(d) /\ UNCHANGED <<marker, issuance, mintable, owner>>
    BY <1>1 DEF Swap
  <1>3. /\ base \in [Account -> Balance] /\ target \in [Account -> Balance]
        /\ u \in Account /\ Pool(d) \in Account /\ FeeAccount(d) \in Account
        /\ Balance \subseteq Nat
        /\ \A e \in Dexes : Pool(e) \in Account /\ Pool(e) # u
    BY AccountFacts DEF TypeOK
  <1>4. CASE sellBase
    <2> DEFINE net == src - fee
               paid == MoveBase(base, u, Pool(d), net)
    <2>1. /\ SwapIsValid(u, d, TRUE, src, dst)
          /\ CanMoveBase(base, u, Pool(d), net)
          /\ CanMoveBase(paid, u, FeeAccount(d), fee)
          /\ base' = MoveBase(paid, u, FeeAccount(d), fee)
          /\ CanMoveTarget(target, Pool(d), receiver, dst)
          /\ target' = MoveTarget(target, Pool(d), receiver, dst)
      BY <1>1, <1>4 DEF Swap, SellBase
    <2>2. net \in Nat
      BY <1>1, <1>4
    <2> HIDE DEF net, paid
    <2>3. paid \in [Account -> Balance]
      BY <1>3, <2>1, <2>2, MoveBaseFacts DEF paid
    <2>4. base' \in [Account -> Balance]
      BY <1>3, <2>1, <2>3, MoveBaseFacts
    <2>5. /\ target' \in [Account -> Balance]
          /\ \A a \in Account : a # Pool(d) => target'[a] >= target[a]
          /\ Pool(d) # receiver => target'[Pool(d)] = target[Pool(d)] - dst
          /\ Pool(d) = receiver => target' = target
      BY <1>3, <2>1, MoveTargetFacts
    <2>6. dst < target[Pool(d)]
      <3>1. dst <= target[Pool(d)] /\ target[Pool(d)] \in Nat /\ base[Pool(d)] \in Nat
        BY <1>3, <2>1 DEF SwapIsValid, Destination
      <3>2. PriceGuardHolds(base[Pool(d)], target[Pool(d)], src, dst)
        BY <2>1 DEF SwapIsValid, Source, Destination
      <3>3. QED  BY <3>1, <3>2, PriceGuardKeepsReserve
    <2>7. \A e \in Dexes : target[Pool(e)] \in Nat /\ target'[Pool(e)] \in Nat
      BY <1>3, <2>5
    <2>8. \A e \in Dexes : target[Pool(e)] > 0 => target'[Pool(e)] > 0
      BY <1>3, <2>5, <2>6, <2>7
    <2>9. QED  BY <1>2, <2>4, <2>5, <2>8
  <1>5. CASE ~sellBase
    <2> DEFINE fees == MoveBase(base, Pool(d), FeeAccount(d), fee)
               net == WrapSub(dst, fee)
    <2>1. /\ CanMoveTarget(target, u, Pool(d), src)
          /\ target' = MoveTarget(target, u, Pool(d), src)
          /\ CanMoveBase(base, Pool(d), FeeAccount(d), fee)
          /\ CanMoveBase(fees, Pool(d), receiver, net)
          /\ base' = MoveBase(fees, Pool(d), receiver, net)
      BY <1>1, <1>5 DEF Swap, SellTarget
    <2>2. net \in Nat
      <3>1. dst - fee \in Int /\ Modulus \in Int /\ Modulus > 0
        BY ModulusAssumption, FixedFacts
      <3>2. QED  BY <3>1 DEF WrapSub
    <2> HIDE DEF net, fees
    <2>3. fees \in [Account -> Balance]
      BY <1>3, <2>1, MoveBaseFacts DEF fees
    <2>4. base' \in [Account -> Balance]
      BY <1>3, <2>1, <2>2, <2>3, MoveBaseFacts
    <2>5. /\ target' \in [Account -> Balance]
          /\ \A a \in Account : a # u => target'[a] >= target[a]
      BY <1>3, <2>1, MoveTargetFacts
    <2>6. \A e \in Dexes : target[Pool(e)] \in Nat /\ target'[Pool(e)] \in Nat
      BY <1>3, <2>5
    <2>7. \A e \in Dexes : target[Pool(e)] > 0 => target'[Pool(e)] > 0
      BY <1>3, <2>5, <2>6
    <2>8. QED  BY <1>2, <2>4, <2>5, <2>7
  <1>6. QED  BY <1>4, <1>5

\* The state a deposit leaves.
LEMMA DepositFacts ==
  ASSUME IInv, NEW u \in Users, NEW d \in Dexes, DepositStep(u, d)
  PROVE  /\ base' \in [Account -> Balance]
         /\ target' \in [Account -> Balance]
         /\ marker' \in [Dexes -> [Users -> Balance]]
         /\ issuance' \in [Dexes -> Balance]
         /\ IssuanceIsBacked'
         /\ \A e \in Dexes \ {d} : issuance'[e] = issuance[e]
         /\ \A e \in Dexes : target'[Pool(e)] >= target[Pool(e)]
         /\ issuance[d] = 0 => PoolIsEmpty(d)
         /\ d \in registered /\ UpdateReserves(d) /\ UNCHANGED <<mintable, owner>>
         /\ \E a, b, m \in Nat :
               /\ base'[Pool(d)] = base[Pool(d)] + a
               /\ target'[Pool(d)] = target[Pool(d)] + b
               /\ issuance'[d] = issuance[d] + m
               /\ ~PoolIsEmpty(d) =>
                     /\ MarkerFor(a, base[Pool(d)], issuance[d]) \in Nat
                     /\ m <= MarkerFor(a, base[Pool(d)], issuance[d])
                     /\ MarkerFor(b, target[Pool(d)], issuance[d]) \in Nat
                     /\ m <= MarkerFor(b, target[Pool(d)], issuance[d])
  <1>0. PICK bd \in Nat, td \in Nat, bm \in Nat, tm \in Nat, baseFirst \in BOOLEAN :
            DepositLiquidity(u, d, bd, td, bm, tm, baseFirst)
    BY DEF DepositStep
  <1> DEFINE terms == DepositTerms(d, bd, td, bm, tm, baseFirst)
  <1>1. /\ terms # Err
        /\ CanMoveBase(base, u, Pool(d), terms.base)
        /\ base' = MoveBase(base, u, Pool(d), terms.base)
        /\ CanMoveTarget(target, u, Pool(d), terms.target)
        /\ target' = MoveTarget(target, u, Pool(d), terms.target)
        /\ CanMint(d, u, terms.minted)
        /\ Mint(d, u, terms.minted)
        /\ d \in registered /\ UpdateReserves(d) /\ UNCHANGED <<mintable, owner>>
    BY <1>0 DEF DepositLiquidity, ReserveDeposit
  <1>2. /\ base \in [Account -> Balance] /\ target \in [Account -> Balance]
        /\ u \in Account /\ Pool(d) \in Account
        /\ Balance \subseteq Nat
        /\ \A e \in Dexes : Pool(e) \in Account /\ Pool(e) # u
    BY AccountFacts DEF IInv, TypeOK
  <1>3. /\ terms.base \in Nat /\ terms.target \in Nat /\ terms.minted \in Nat
        /\ ~PoolIsEmpty(d) =>
              /\ issuance[d] > 0
              /\ MarkerFor(terms.base, base[Pool(d)], issuance[d]) \in Nat
              /\ terms.minted <= MarkerFor(terms.base, base[Pool(d)], issuance[d])
              /\ MarkerFor(terms.target, target[Pool(d)], issuance[d]) \in Nat
              /\ terms.minted <= MarkerFor(terms.target, target[Pool(d)], issuance[d])
    BY <1>1, DepositTermsFacts DEF IInv
  <1> HIDE DEF terms
  <1>4. /\ base' \in [Account -> Balance]
        /\ base'[Pool(d)] = base[Pool(d)] + terms.base
    BY <1>1, <1>2, <1>3, MoveBaseFacts
  <1>5. /\ target' \in [Account -> Balance]
        /\ \A a \in Account : a # u => target'[a] >= target[a]
        /\ target'[Pool(d)] = target[Pool(d)] + terms.target
    BY <1>1, <1>2, <1>3, MoveTargetFacts
  <1>6. /\ marker' \in [Dexes -> [Users -> Balance]]
        /\ issuance' \in [Dexes -> Balance]
        /\ issuance'[d] = issuance[d] + terms.minted
        /\ \A e \in Dexes \ {d} : issuance'[e] = issuance[e]
        /\ IssuanceIsBacked'
    BY <1>1, <1>3, MintFacts
  <1>7. \A e \in Dexes : target'[Pool(e)] >= target[Pool(e)]
    BY <1>2, <1>5
  <1>8. issuance[d] = 0 => PoolIsEmpty(d)
    BY <1>3
  <1>9. QED  BY <1>1, <1>3, <1>4, <1>5, <1>6, <1>7, <1>8

\* The state a withdrawal leaves; k tokens are never all of the supply that the
\* shares are computed with, so target tokens stay behind.
LEMMA WithdrawFacts ==
  ASSUME IInv, NEW u \in Users, NEW d \in Dexes, WithdrawStep(u, d)
  PROVE  /\ base' \in [Account -> Balance]
         /\ target' \in [Account -> Balance]
         /\ marker' \in [Dexes -> [Users -> Balance]]
         /\ issuance' \in [Dexes -> Balance]
         /\ IssuanceIsBacked'
         /\ \A e \in Dexes \ {d} : issuance'[e] = issuance[e]
         /\ \A e \in Dexes : target[Pool(e)] > 0 => target'[Pool(e)] > 0
         /\ d \in registered /\ UpdateReserves(d) /\ UNCHANGED <<mintable, owner>>
         /\ \E k, out, tout \in Nat :
               /\ k > 0 /\ issuance[d] = issuance'[d] + k
               /\ out * (issuance[d] + MinLiquidity) <= base[Pool(d)] * k
               /\ out <= base[Pool(d)]
               /\ base'[Pool(d)] = 0 \/ base'[Pool(d)] = base[Pool(d)] - out
               /\ tout * (issuance[d] + MinLiquidity) <= target[Pool(d)] * k
               /\ tout <= target[Pool(d)]
               /\ target'[Pool(d)] = target[Pool(d)] - tout
  <1>0. PICK k \in Nat, bm \in Nat, tm \in Nat : WithdrawLiquidity(u, d, k, bm, tm)
    BY DEF WithdrawStep
  <1> DEFINE rb == base[Pool(d)]
             rt == target[Pool(d)]
             t == issuance[d]
             baseOut == WithdrawShare(rb, k, t)
             targetOut == WithdrawShare(rt, k, t)
  <1>1. /\ baseOut # Err /\ targetOut # Err /\ k > 0
        /\ CanMoveBase(base, Pool(d), u, baseOut)
        /\ base' = MoveBase(base, Pool(d), u, baseOut)
        /\ CanMoveTarget(target, Pool(d), u, targetOut)
        /\ target' = MoveTarget(target, Pool(d), u, targetOut)
        /\ CanBurn(d, u, k)
        /\ Burn(d, u, k)
        /\ PoolIsUsable(d)
        /\ d \in registered /\ UpdateReserves(d) /\ UNCHANGED <<mintable, owner>>
    BY <1>0 DEF WithdrawLiquidity, ReserveWithdrawal
  <1>2. /\ base \in [Account -> Balance] /\ target \in [Account -> Balance]
        /\ u \in Account /\ Pool(d) \in Account
        /\ Balance \subseteq Nat
        /\ \A e \in Dexes : Pool(e) \in Account /\ Pool(e) # u
        /\ rb \in Nat /\ rt \in Nat /\ t \in Nat
        /\ MinLiquidity \in Nat /\ MinLiquidity > 0
    <2>1. rb \in Nat /\ rt \in Nat /\ t \in Nat
      BY StateFacts DEF IInv
    <2>2. MinLiquidity \in Nat /\ MinLiquidity > 0
      BY MinLiquidityAssumption
    <2>3. QED  BY <2>1, <2>2, AccountFacts DEF IInv, TypeOK
  <1>3. /\ baseOut \in Nat /\ baseOut * (t + MinLiquidity) <= rb * k
        /\ targetOut \in Nat /\ targetOut * (t + MinLiquidity) <= rt * k
    BY <1>1, <1>2, WithdrawIsAtMostTheShare DEF NatOrErr, WithdrawIsAtMostShare
  <1> HIDE DEF baseOut, targetOut
  <1>4. /\ base' \in [Account -> Balance]
        /\ \/ base'[Pool(d)] = rb
           \/ base'[Pool(d)] = KeepAlive(rb - baseOut) /\ baseOut <= rb
    BY <1>1, <1>2, <1>3, MoveBaseFacts
  <1>5. /\ target' \in [Account -> Balance]
        /\ \A a \in Account : a # Pool(d) => target'[a] >= target[a]
        /\ target'[Pool(d)] = rt - targetOut /\ targetOut <= rt
    BY <1>1, <1>2, <1>3, MoveTargetFacts
  <1>6. /\ marker' \in [Dexes -> [Users -> Balance]]
        /\ issuance' \in [Dexes -> Balance]
        /\ t = issuance'[d] + k
        /\ \A e \in Dexes \ {d} : issuance'[e] = issuance[e]
        /\ IssuanceIsBacked'
    BY <1>1, BurnFacts
  <1>7. targetOut < rt
    <2>1. issuance'[d] \in Nat /\ rt > 0
      BY <1>1, <1>2, <1>6 DEF PoolIsUsable
    <2>2. k < t + MinLiquidity
      BY <1>2, <1>6, <2>1
    <2>3. k * rt < (t + MinLiquidity) * rt
      BY <1>2, <2>1, <2>2, ScaleLess
    <2>4. targetOut * (t + MinLiquidity) < rt * (t + MinLiquidity)
      BY <1>2, <1>3, <2>3
    <2>5. t + MinLiquidity \in Nat
      BY <1>2
    <2>6. QED  BY <1>2, <1>3, <2>4, <2>5, CancelFactor
  <1>8. \A e \in Dexes : target[Pool(e)] > 0 => target'[Pool(e)] > 0
    <2>1. \A e \in Dexes : target[Pool(e)] \in Nat /\ target'[Pool(e)] \in Nat
      BY <1>2, <1>5
    <2>2. rt - targetOut > 0
      BY <1>2, <1>3, <1>7
    <2>3. QED  BY <1>2, <1>5, <2>1, <2>2
  <1>9. \E out \in Nat : /\ out * (t + MinLiquidity) <= rb * k
                         /\ out <= rb
                         /\ base'[Pool(d)] = 0 \/ base'[Pool(d)] = rb - out
    <2>1. CASE base'[Pool(d)] = rb
      <3>1. 0 \in Nat /\ 0 * (t + MinLiquidity) <= rb * k /\ 0 <= rb /\ rb = rb - 0
        BY <1>2
      <3>2. QED  BY <2>1, <3>1
    <2>2. CASE base'[Pool(d)] = KeepAlive(rb - baseOut) /\ baseOut <= rb
      <3>1. base'[Pool(d)] = 0 \/ base'[Pool(d)] = rb - baseOut
        BY <2>2 DEF KeepAlive
      <3>2. QED  BY <1>3, <2>2, <3>1
    <2>3. QED  BY <1>4, <2>1, <2>2
  <1>10. \E n, out, tout \in Nat :
            /\ n > 0 /\ t = issuance'[d] + n
            /\ out * (t + MinLiquidity) <= rb * n
            /\ out <= rb
            /\ base'[Pool(d)] = 0 \/ base'[Pool(d)] = rb - out
            /\ tout * (t + MinLiquidity) <= rt * n
            /\ tout <= rt
            /\ target'[Pool(d)] = rt - tout
    <2>1. PICK out \in Nat : /\ out * (t + MinLiquidity) <= rb * k
                             /\ out <= rb
                             /\ base'[Pool(d)] = 0 \/ base'[Pool(d)] = rb - out
      BY <1>9
    <2>2. PICK tout \in Nat : tout = targetOut
      BY <1>3
    <2> WITNESS k \in Nat, out \in Nat, tout \in Nat
    <2>3. QED  BY <1>1, <1>3, <1>5, <1>6, <2>1, <2>2
  <1>11. QED
    BY <1>1, <1>4, <1>5, <1>6, <1>8, <1>10
-----------------------------------------------------------------------------
(* The steps of Next, with the types of what callers choose.               *)

PlainTransfer(u, to, amount) ==
    TransferBase(u, to, amount) \/ TransferTarget(u, to, amount)

\* A swap of an exact input, as a step whose fee is part of the input it is taken
\* from.
LEMMA SwapInIsSwap ==
  ASSUME TypeOK, NEW u \in Users, NEW d \in Dexes, SwapIn(u, d)
  PROVE  SwapStep(u, d)
  <1>1. PICK r \in Receivers, sellBase \in BOOLEAN, amount \in SwapAmounts, lim \in Limits :
            SwapExactInput(u, r, d, sellBase, amount, lim)
    BY DEF SwapIn
  <1> DEFINE x == Source(sellBase)[Pool(d)]
             y == Destination(sellBase)[Pool(d)]
             calc == CalcOutputForExactInput(~sellBase, x, y, amount)
  <1>2. x \in Nat /\ y \in Nat /\ amount \in Nat /\ r \in Account
    BY AmountFacts, AccountFacts, StateFacts DEF Source, Destination
  <1>3. /\ calc # Err /\ PoolIsUsable(d)
        /\ Swap(u, r, d, sellBase, amount, calc.amount, calc.fee)
    BY <1>1 DEF SwapExactInput
  <1>4. /\ calc.amount \in Nat /\ calc.fee \in Nat
        /\ ~(~sellBase) => calc.fee <= amount
    BY <1>2, <1>3, OutputType
  <1> HIDE DEF calc
  <1>5. QED  BY <1>2, <1>3, <1>4 DEF SwapStep

\* The same for a swap of an exact output.
LEMMA SwapOutIsSwap ==
  ASSUME TypeOK, NEW u \in Users, NEW d \in Dexes, SwapOut(u, d)
  PROVE  SwapStep(u, d)
  <1>1. PICK r \in Receivers, sellBase \in BOOLEAN, amount \in SwapAmounts, lim \in MaxInputs :
            SwapExactOutput(u, r, d, sellBase, amount, lim)
    BY DEF SwapOut
  <1> DEFINE x == Source(sellBase)[Pool(d)]
             y == Destination(sellBase)[Pool(d)]
             calc == CalcInputForExactOutput(~sellBase, x, y, amount)
  <1>2. x \in Nat /\ y \in Nat /\ amount \in Nat /\ r \in Account
    BY AmountFacts, AccountFacts, StateFacts DEF Source, Destination
  <1>3. /\ calc # Err /\ PoolIsUsable(d)
        /\ Swap(u, r, d, sellBase, calc.amount, amount, calc.fee)
    BY <1>1 DEF SwapExactOutput
  <1>4. /\ calc.amount \in Nat /\ calc.fee \in Nat
        /\ ~(~sellBase) => calc.fee <= calc.amount
    BY <1>2, <1>3, InputType
  <1> HIDE DEF calc
  <1>5. QED  BY <1>2, <1>3, <1>4 DEF SwapStep

\* Every call is one of these steps, whatever amounts its caller chose.
LEMMA NextCases ==
  ASSUME TypeOK, Next
  PROVE  \/ \E u \in Users, d \in Dexes : InitializePool(u, d)
         \/ \E u \in Users, d \in Dexes :
               DepositStep(u, d) \/ WithdrawStep(u, d) \/ SwapStep(u, d)
         \/ \E u, v \in Users, d \in Dexes, n \in Nat : TransferMarker(u, v, d, n)
         \/ \E u, v \in Users, d \in Dexes, n \in Nat : MarkerMint(u, v, d, n)
         \/ \E u \in Users, d \in Dexes, n \in Nat : MarkerBurn(u, d, n)
         \/ \E u \in Users, d \in Dexes : SetNonMintable(u, d)
         \/ \E u \in Users, to \in Account, n \in Nat : PlainTransfer(u, to, n)
  <1>1. /\ \A n \in DepositAmounts : n \in Nat
        /\ \A n \in Limits : n \in Nat
        /\ \A n \in MaxInputs : n \in Nat
        /\ \A n \in BurnAmounts : n \in Nat
        /\ \A n \in TransferAmounts : n \in Nat
        /\ \A n \in MarkerAmounts : n \in Nat
        /\ \A r \in Receivers : r \in Account
    BY AmountFacts, AccountFacts
  <1>2. CASE \E u \in Users : Transfer(u)
    BY <1>1, <1>2 DEF Transfer, PlainTransfer
  <1>3. ASSUME NEW u \in Users, NEW d \in Dexes,
               \/ InitializePool(u, d) \/ Deposit(u, d) \/ Withdraw(u, d)
               \/ SwapIn(u, d) \/ SwapOut(u, d)
               \/ MarkerCall(u, d) \/ SetNonMintable(u, d)
        PROVE  \/ InitializePool(u, d)
               \/ DepositStep(u, d) \/ WithdrawStep(u, d) \/ SwapStep(u, d)
               \/ \E v \in Users, n \in Nat : TransferMarker(u, v, d, n)
               \/ \E v \in Users, n \in Nat : MarkerMint(u, v, d, n)
               \/ \E n \in Nat : MarkerBurn(u, d, n)
               \/ SetNonMintable(u, d)
    <2>1. CASE Deposit(u, d)
      BY <1>1, <2>1 DEF Deposit, DepositStep
    <2>2. CASE Withdraw(u, d)
      BY <1>1, <2>2 DEF Withdraw, WithdrawStep
    <2>3. CASE SwapIn(u, d) \/ SwapOut(u, d)
      BY <2>3, SwapInIsSwap, SwapOutIsSwap
    <2>4. CASE MarkerCall(u, d)
      BY <1>1, <2>4 DEF MarkerCall
    <2>5. QED  BY <1>3, <2>1, <2>2, <2>3, <2>4
  <1>4. CASE \E u \in Users, d \in Dexes :
               \/ InitializePool(u, d) \/ Deposit(u, d) \/ Withdraw(u, d)
               \/ SwapIn(u, d) \/ SwapOut(u, d)
               \/ MarkerCall(u, d) \/ SetNonMintable(u, d)
    <2>1. PICK u \in Users, d \in Dexes :
               \/ InitializePool(u, d) \/ Deposit(u, d) \/ Withdraw(u, d)
               \/ SwapIn(u, d) \/ SwapOut(u, d)
               \/ MarkerCall(u, d) \/ SetNonMintable(u, d)
      BY <1>4
    <2>2. \/ InitializePool(u, d)
          \/ DepositStep(u, d) \/ WithdrawStep(u, d) \/ SwapStep(u, d)
          \/ \E v \in Users, n \in Nat : TransferMarker(u, v, d, n)
          \/ \E v \in Users, n \in Nat : MarkerMint(u, v, d, n)
          \/ \E n \in Nat : MarkerBurn(u, d, n)
          \/ SetNonMintable(u, d)
      BY <2>1, <1>3
    <2>3. QED  BY <2>2, Zenon
  <1>5. QED  BY <1>2, <1>4 DEF Next
-----------------------------------------------------------------------------
(* Theorems.                                                               *)

\* A plain transfer debits no pool and leaves no dust.
LEMMA TransferFacts ==
  ASSUME TypeOK, NEW u \in Users, NEW to \in Account, NEW n \in Nat,
         PlainTransfer(u, to, n)
  PROVE  /\ base' \in [Account -> Balance] /\ target' \in [Account -> Balance]
         /\ UNCHANGED <<marker, issuance, mintable, owner, reserves>>
         /\ \A e \in Dexes : /\ base'[Pool(e)] >= base[Pool(e)]
                             /\ target'[Pool(e)] >= target[Pool(e)]
  <1>1. /\ base \in [Account -> Balance] /\ target \in [Account -> Balance]
        /\ u \in Account
        /\ \A e \in Dexes : Pool(e) \in Account /\ Pool(e) # u
    BY AccountFacts DEF TypeOK
  <1>2. \A e \in Dexes : /\ base[Pool(e)] >= base[Pool(e)]
                         /\ target[Pool(e)] >= target[Pool(e)]
    <2>1. \A e \in Dexes : base[Pool(e)] \in Nat /\ target[Pool(e)] \in Nat
      BY <1>1, AccountFacts
    <2>2. QED  BY <2>1
  <1>3. CASE TransferBase(u, to, n)
    <2>1. /\ CanMoveBase(base, u, to, n) /\ base' = MoveBase(base, u, to, n)
          /\ UNCHANGED <<target, marker, issuance, mintable, owner, reserves>>
      BY <1>3 DEF TransferBase
    <2>2. /\ base' \in [Account -> Balance]
          /\ \A a \in Account : a # u => base'[a] >= base[a]
      BY <1>1, <2>1, MoveBaseFacts
    <2>3. QED  BY <1>1, <1>2, <2>1, <2>2
  <1>4. CASE TransferTarget(u, to, n)
    <2>1. /\ CanMoveTarget(target, u, to, n) /\ target' = MoveTarget(target, u, to, n)
          /\ UNCHANGED <<base, marker, issuance, mintable, owner, reserves>>
      BY <1>4 DEF TransferTarget
    <2>2. /\ target' \in [Account -> Balance]
          /\ \A a \in Account : a # u => target'[a] >= target[a]
      BY <1>1, <2>1, MoveTargetFacts
    <2>3. QED  BY <1>1, <1>2, <2>1, <2>2
  <1>5. QED  BY <1>3, <1>4 DEF PlainTransfer

\* update_reserves writes the balances the transfers of the call have left.
LEMMA UpdateReservesFacts ==
  ASSUME NEW d \in Dexes, base' \in [Account -> Balance],
         target' \in [Account -> Balance], UpdateReserves(d)
  PROVE  /\ reserves' \in [base : Balance, target : Balance]
         /\ reserves'.base = base'[Pool(d)]
         /\ reserves'.target = target'[Pool(d)]
  BY AccountFacts DEF UpdateReserves

\* The invariant holds initially: no liquidity token exists.
LEMMA InitInv ==
  ASSUME Init
  PROVE  IInv
  <1>1. TypeOK
    BY AccountFacts, EndowmentAssumption, OwnerAssumption DEF Init, TypeOK, registered
  <1>2. ASSUME NEW d \in Dexes
        PROVE  IsFiniteSet(UnitsOf(marker[d])) /\ Cardinality(UnitsOf(marker[d])) = issuance[d]
    <2>1. UnitsOf(marker[d]) = {}
      <3>1. marker[d] = [u \in Users |-> 0] /\ 1 .. 0 = {}
        BY DEF Init
      <3>2. QED  BY <3>1 DEF UnitsOf
    <2>2. issuance[d] = 0
      BY DEF Init
    <2>3. QED  BY <2>1, <2>2, FS_EmptySet
  <1>3. QED  BY <1>1, <1>2 DEF IInv, IssuanceIsBacked

\* Every call keeps the invariant.
LEMMA StepInv ==
  ASSUME IInv, [Next]_vars
  PROVE  IInv'
  <1>1. TypeOK
    BY DEF IInv
  <1>2. /\ \A e \in Dexes : mintable[e] \in BOOLEAN /\ owner[e] \in Users \cup {NoOwner}
        /\ mintable \in [Dexes -> BOOLEAN] /\ owner \in [Dexes -> Users \cup {NoOwner}]
        /\ \A e \in Dexes : owner[e] = NoOwner => issuance[e] = 0
        /\ IssuanceIsBacked
    BY DEF IInv, TypeOK, registered
  <1>3. CASE UNCHANGED vars
    BY <1>3 DEF IInv, TypeOK, IssuanceIsBacked, registered, vars
  <1>4. ASSUME NEW u \in Users, NEW d \in Dexes, InitializePool(u, d)
        PROVE  IInv'
    <2>1. /\ owner' = [owner EXCEPT ![d] = u]
          /\ mintable' = [mintable EXCEPT ![d] = TRUE]
          /\ UNCHANGED <<base, target, marker, issuance, reserves>>
      BY <1>4 DEF InitializePool
    <2>2. /\ owner' \in [Dexes -> Users \cup {NoOwner}]
          /\ \A e \in Dexes : owner'[e] = NoOwner => owner[e] = NoOwner
      BY <1>2, <2>1, OwnerAssumption
    <2>3. QED  BY <1>1, <1>2, <2>1, <2>2 DEF IInv, TypeOK, IssuanceIsBacked, registered
  <1>5. ASSUME NEW u \in Users, NEW d \in Dexes, DepositStep(u, d)
        PROVE  IInv'
    <2>1. /\ owner[d] # NoOwner /\ UpdateReserves(d) /\ UNCHANGED <<mintable, owner>>
      BY <1>5, DepositFacts DEF registered
    <2>2. /\ base' \in [Account -> Balance] /\ target' \in [Account -> Balance]
          /\ marker' \in [Dexes -> [Users -> Balance]]
          /\ issuance' \in [Dexes -> Balance]
          /\ IssuanceIsBacked'
          /\ \A e \in Dexes \ {d} : issuance'[e] = issuance[e]
      BY <1>5, DepositFacts
    <2>3. reserves' \in [base : Balance, target : Balance]
      BY <2>1, <2>2, UpdateReservesFacts
    <2>4. QED  BY <1>2, <2>1, <2>2, <2>3 DEF IInv, TypeOK, registered
  <1>6. ASSUME NEW u \in Users, NEW d \in Dexes, WithdrawStep(u, d)
        PROVE  IInv'
    <2>1. /\ owner[d] # NoOwner /\ UpdateReserves(d) /\ UNCHANGED <<mintable, owner>>
      BY <1>6, WithdrawFacts DEF registered
    <2>2. /\ base' \in [Account -> Balance] /\ target' \in [Account -> Balance]
          /\ marker' \in [Dexes -> [Users -> Balance]]
          /\ issuance' \in [Dexes -> Balance]
          /\ IssuanceIsBacked'
          /\ \A e \in Dexes \ {d} : issuance'[e] = issuance[e]
      BY <1>6, WithdrawFacts
    <2>3. reserves' \in [base : Balance, target : Balance]
      BY <2>1, <2>2, UpdateReservesFacts
    <2>4. QED  BY <1>2, <2>1, <2>2, <2>3 DEF IInv, TypeOK, registered
  <1>7. ASSUME NEW u \in Users, NEW d \in Dexes, SwapStep(u, d)
        PROVE  IInv'
    <2>1. UpdateReserves(d) /\ UNCHANGED <<marker, issuance, mintable, owner>>
      BY <1>1, <1>7, SwapFacts
    <2>2. base' \in [Account -> Balance] /\ target' \in [Account -> Balance]
      BY <1>1, <1>7, SwapFacts
    <2>3. reserves' \in [base : Balance, target : Balance]
      BY <2>1, <2>2, UpdateReservesFacts
    <2>4. QED
      BY <1>1, <1>2, <2>1, <2>2, <2>3 DEF IInv, TypeOK, IssuanceIsBacked, registered
  <1>8. ASSUME NEW u \in Users, NEW v \in Users, NEW d \in Dexes, NEW n \in Nat,
               TransferMarker(u, v, d, n)
        PROVE  IInv'
    <2>1. UNCHANGED <<base, target, issuance, mintable, owner, reserves>>
      BY <1>8 DEF TransferMarker
    <2>2. marker' \in [Dexes -> [Users -> Balance]] /\ IssuanceIsBacked'
      BY <1>8, TransferMarkerFacts
    <2>3. QED  BY <1>1, <2>1, <2>2 DEF IInv, TypeOK, registered
  <1>9. ASSUME NEW u \in Users, NEW v \in Users, NEW d \in Dexes, NEW n \in Nat,
               MarkerMint(u, v, d, n)
        PROVE  IInv'
    <2>1. /\ owner[d] = u /\ CanMint(d, v, n) /\ Mint(d, v, n)
          /\ UNCHANGED <<base, target, mintable, owner, reserves>>
      BY <1>9 DEF MarkerMint
    <2>2. /\ marker' \in [Dexes -> [Users -> Balance]]
          /\ issuance' \in [Dexes -> Balance]
          /\ IssuanceIsBacked'
          /\ \A e \in Dexes \ {d} : issuance'[e] = issuance[e]
      BY <2>1, MintFacts
    <2>3. owner[d] # NoOwner
      BY <2>1, OwnerAssumption
    <2>4. QED  BY <1>1, <1>2, <2>1, <2>2, <2>3 DEF IInv, TypeOK, registered
  <1>10. ASSUME NEW u \in Users, NEW d \in Dexes, NEW n \in Nat, MarkerBurn(u, d, n)
         PROVE  IInv'
    <2>1. /\ CanBurn(d, u, n) /\ Burn(d, u, n)
          /\ UNCHANGED <<base, target, mintable, owner, reserves>>
      BY <1>10 DEF MarkerBurn
    <2>2. /\ marker' \in [Dexes -> [Users -> Balance]]
          /\ issuance' \in [Dexes -> Balance]
          /\ issuance[d] = issuance'[d] + n
          /\ IssuanceIsBacked'
          /\ \A e \in Dexes \ {d} : issuance'[e] = issuance[e]
      BY <2>1, BurnFacts
    <2>3. owner[d] = NoOwner => issuance'[d] = 0
      <3>1. issuance'[d] \in Nat
        BY <2>2, AccountFacts
      <3>2. QED  BY <1>2, <2>2, <3>1
    <2>4. QED  BY <1>1, <1>2, <2>1, <2>2, <2>3 DEF IInv, TypeOK, registered
  <1>11. ASSUME NEW u \in Users, NEW d \in Dexes, SetNonMintable(u, d)
         PROVE  IInv'
    <2>1. /\ mintable' = [mintable EXCEPT ![d] = FALSE]
          /\ UNCHANGED <<base, target, marker, issuance, owner, reserves>>
      BY <1>11 DEF SetNonMintable
    <2>2. mintable' \in [Dexes -> BOOLEAN]
      BY <1>2, <2>1
    <2>3. QED  BY <1>1, <1>2, <2>1, <2>2 DEF IInv, TypeOK, IssuanceIsBacked, registered
  <1>12. ASSUME NEW u \in Users, NEW to \in Account, NEW n \in Nat,
                PlainTransfer(u, to, n)
         PROVE  IInv'
    <2>1. /\ base' \in [Account -> Balance] /\ target' \in [Account -> Balance]
          /\ UNCHANGED <<marker, issuance, mintable, owner, reserves>>
      BY <1>1, <1>12, TransferFacts
    <2>2. QED  BY <1>1, <1>2, <2>1 DEF IInv, TypeOK, IssuanceIsBacked, registered
  <1>13. QED
    <2>1. CASE Next
      BY <1>1, <2>1, NextCases, <1>4, <1>5, <1>6, <1>7, <1>8, <1>9, <1>10, <1>11, <1>12
    <2>2. QED  BY <1>3, <2>1

\* TypeOK and IssuanceIsBacked, for every instance: no call leaves u128, and the
\* issuance the shares are computed with counts exactly the tokens users hold.
THEOREM TypeCorrect == Spec => [](TypeOK /\ IssuanceIsBacked)
  <1>1. Init => IInv
    BY InitInv
  <1>2. IInv /\ [Next]_vars => IInv'
    BY StepInv
  <1>3. QED  BY <1>1, <1>2, PTL DEF Spec, IInv

\* The second half on its own: whoever mints, burns or moves marker tokens, the
\* issuance is the number of tokens that users hold.
THEOREM IssuanceIsAlwaysBacked == Spec => []IssuanceIsBacked
  BY TypeCorrect, PTL

-----------------------------------------------------------------------------
(* Theorems about what the pools keep.                                     *)

\* The cached reserves stay within the balances of a chain's only pool.
LEMMA CacheStep ==
  ASSUME IInv, CacheNeverOverstates, [Next]_vars
  PROVE  CacheNeverOverstates'
  <1>1. TypeOK
    BY DEF IInv
  <1>2. SUFFICES ASSUME NEW d \in Dexes, Dexes = {d}
                 PROVE  /\ reserves'.base <= base'[Pool(d)]
                        /\ reserves'.target <= target'[Pool(d)]
    BY DEF CacheNeverOverstates
  <1>3. reserves.base <= base[Pool(d)] /\ reserves.target <= target[Pool(d)]
    BY <1>2 DEF CacheNeverOverstates
  <1>4. CASE UNCHANGED <<base, target, reserves>>
    BY <1>3, <1>4
  <1>5. ASSUME UpdateReserves(d), base' \in [Account -> Balance],
               target' \in [Account -> Balance]
        PROVE  /\ reserves'.base <= base'[Pool(d)]
               /\ reserves'.target <= target'[Pool(d)]
    <2>1. reserves'.base = base'[Pool(d)] /\ reserves'.target = target'[Pool(d)]
      BY <1>5, UpdateReservesFacts
    <2>2. base'[Pool(d)] \in Nat /\ target'[Pool(d)] \in Nat
      BY <1>5, AccountFacts
    <2>3. QED  BY <2>1, <2>2
  <1>6. ASSUME NEW u \in Users, NEW e \in Dexes,
               DepositStep(u, e) \/ WithdrawStep(u, e) \/ SwapStep(u, e)
        PROVE  /\ reserves'.base <= base'[Pool(d)]
               /\ reserves'.target <= target'[Pool(d)]
    <2>1. e = d
      BY <1>2
    <2>2. CASE DepositStep(u, e)
      BY <1>5, <2>1, <2>2, DepositFacts
    <2>3. CASE WithdrawStep(u, e)
      BY <1>5, <2>1, <2>3, WithdrawFacts
    <2>4. CASE SwapStep(u, e)
      BY <1>1, <1>5, <2>1, <2>4, SwapFacts
    <2>5. QED  BY <1>6, <2>2, <2>3, <2>4
  <1>7. ASSUME NEW u \in Users, NEW to \in Account, NEW n \in Nat,
               PlainTransfer(u, to, n)
        PROVE  /\ reserves'.base <= base'[Pool(d)]
               /\ reserves'.target <= target'[Pool(d)]
    <2>1. /\ base'[Pool(d)] >= base[Pool(d)] /\ target'[Pool(d)] >= target[Pool(d)]
          /\ reserves' = reserves
          /\ base' \in [Account -> Balance] /\ target' \in [Account -> Balance]
      BY <1>1, <1>7, TransferFacts
    <2>2. /\ base[Pool(d)] \in Nat /\ target[Pool(d)] \in Nat
          /\ base'[Pool(d)] \in Nat /\ target'[Pool(d)] \in Nat
      BY <1>1, <2>1, AccountFacts DEF TypeOK
    <2>3. reserves.base \in Nat /\ reserves.target \in Nat
      BY <1>1, AccountFacts DEF TypeOK
    <2>4. QED  BY <1>3, <2>1, <2>2, <2>3
  <1>8. CASE Next
    BY <1>1, <1>4, <1>6, <1>7, <1>8, NextCases
    DEF InitializePool, TransferMarker, MarkerMint, MarkerBurn, SetNonMintable
  <1>9. QED  BY <1>4, <1>8 DEF vars

\* CacheNeverOverstates for every instance: whatever happens to the only pool's
\* account, update_reserves has recorded no more than it holds.
THEOREM CacheIsConservative == Spec => []CacheNeverOverstates
  <1>1. Init => IInv /\ CacheNeverOverstates
    <2>1. ASSUME Init  PROVE  CacheNeverOverstates
      <3>1. \A d \in Dexes : base[Pool(d)] = 0 /\ target[Pool(d)] = 0
        BY <2>1, AccountFacts DEF Init
      <3>2. reserves.base = 0 /\ reserves.target = 0
        BY <2>1 DEF Init
      <3>3. QED  BY <3>1, <3>2 DEF CacheNeverOverstates
    <2>2. QED  BY <2>1, InitInv
  <1>2. IInv /\ CacheNeverOverstates /\ [Next]_vars => (IInv /\ CacheNeverOverstates)'
    BY StepInv, CacheStep
  <1>3. QED  BY <1>1, <1>2, PTL DEF Spec

\* No call of any account takes the last target token out of a pool.
LEMMA DrainStep ==
  ASSUME IInv, [Next]_vars, NEW d \in Dexes, target[Pool(d)] > 0
  PROVE  target'[Pool(d)] > 0
  <1>1. TypeOK /\ target[Pool(d)] \in Nat
    BY StateFacts, AccountFacts DEF IInv, TypeOK
  <1>2. CASE target' = target
    BY <1>2
  <1>3. ASSUME target'[Pool(d)] >= target[Pool(d)], target' \in [Account -> Balance]
        PROVE  target'[Pool(d)] > 0
    <2>1. target'[Pool(d)] \in Nat
      BY <1>3, AccountFacts
    <2>2. QED  BY <1>1, <1>3, <2>1
  <1>4. ASSUME NEW u \in Users, NEW e \in Dexes,
               DepositStep(u, e) \/ WithdrawStep(u, e) \/ SwapStep(u, e)
        PROVE  target'[Pool(d)] > 0
    <2>1. CASE DepositStep(u, e)
      BY <1>3, <2>1, DepositFacts
    <2>2. CASE WithdrawStep(u, e)
      BY <2>2, WithdrawFacts
    <2>3. CASE SwapStep(u, e)
      BY <1>1, <2>3, SwapFacts
    <2>4. QED  BY <1>4, <2>1, <2>2, <2>3
  <1>5. ASSUME NEW u \in Users, NEW to \in Account, NEW n \in Nat,
               PlainTransfer(u, to, n)
        PROVE  target'[Pool(d)] > 0
    BY <1>1, <1>3, <1>5, TransferFacts
  <1>6. CASE Next
    BY <1>1, <1>2, <1>4, <1>5, <1>6, NextCases
    DEF InitializePool, TransferMarker, MarkerMint, MarkerBurn, SetNonMintable
  <1>7. QED  BY <1>2, <1>6 DEF vars

\* NeverDrained for every instance: the price guard of swaps and MIN_LIQUIDITY in
\* the supply of withdrawals keep a target token in every pool that has one.
THEOREM PoolsAreNeverDrained == Spec => NeverDrained
  <1>1. IInv /\ [Next]_vars
        => [\A d \in Dexes : target[Pool(d)] > 0 => target'[Pool(d)] > 0]_vars
    BY DrainStep
  <1>2. QED  BY <1>1, InitInv, StepInv, PTL DEF Spec, NeverDrained

\* Only a call that moves no reserve gives a stranded pool liquidity tokens.
LEMMA StrandedStep ==
  ASSUME IInv, [Next]_vars, NEW d \in Dexes, Stranded(d), issuance'[d] # 0
  PROVE  UNCHANGED <<base, target>>
  <1>1. TypeOK /\ issuance[d] = 0 /\ ~PoolIsEmpty(d) /\ issuance \in [Dexes -> Balance]
    BY DEF IInv, TypeOK, Stranded, PoolIsEmpty, PoolIsUsable
  <1>2. issuance' # issuance
    BY <1>1
  <1>3. ASSUME NEW u \in Users, NEW e \in Dexes, DepositStep(u, e)
        PROVE  FALSE
    <2>1. e = d
      BY <1>1, <1>3, DepositFacts
    <2>2. QED  BY <1>1, <1>3, <2>1, DepositFacts
  <1>4. ASSUME NEW u \in Users, NEW e \in Dexes, WithdrawStep(u, e)
        PROVE  FALSE
    <2>1. e = d
      BY <1>1, <1>4, WithdrawFacts
    <2>2. PICK k \in Nat : k > 0 /\ issuance[d] = issuance'[d] + k
      BY <1>4, <2>1, WithdrawFacts
    <2>3. issuance'[d] \in Nat
      BY <1>4, WithdrawFacts, AccountFacts
    <2>4. QED  BY <1>1, <2>2, <2>3
  <1>5. ASSUME NEW u \in Users, NEW e \in Dexes, SwapStep(u, e)
        PROVE  FALSE
    BY <1>1, <1>2, <1>5, SwapFacts
  <1>6. ASSUME NEW u \in Users, NEW to \in Account, NEW n \in Nat,
               PlainTransfer(u, to, n)
        PROVE  FALSE
    BY <1>1, <1>2, <1>6, TransferFacts
  <1>7. CASE Next
    BY <1>1, <1>2, <1>3, <1>4, <1>5, <1>6, <1>7, NextCases
    DEF InitializePool, TransferMarker, MarkerMint, MarkerBurn, SetNonMintable
  <1>8. QED  BY <1>2, <1>7 DEF vars

\* StrandedTakesNoDeposit for every instance: dividing the reserve by a zero
\* issuance refuses every deposit into such a pool, whatever the amounts.
THEOREM StrandedPoolsTakeNoDeposit == Spec => StrandedTakesNoDeposit
  <1>1. IInv /\ [Next]_vars
        => [\A d \in Dexes : Stranded(d) /\ issuance'[d] # 0
                             => UNCHANGED <<base, target>>]_vars
    BY StrandedStep
  <1>2. QED  BY <1>1, InitInv, StepInv, PTL DEF Spec, StrandedTakesNoDeposit

\* A deposit of a that mints at most its side's tokens keeps the reserve behind a
\* token, but for what dividing the reserve by the supply rounds away.
LEMMA DepositKeepsShare ==
  ASSUME NEW r \in Nat, NEW t \in Nat, NEW a \in Nat, NEW m \in Nat,
         MarkerFor(a, r, t) \in Nat, m <= MarkerFor(a, r, t)
  PROVE  ShareKept(r, t, r + a, t + m)
  <1> DEFINE U == Unit
             M == MinLiquidity
             most == MarkerFor(a, r, t)
             room == r * U - t
             p == (t + m) * t
             q == p \div U
  <1>1. U \in Nat /\ U > 0 /\ M \in Nat
    BY FixedFacts, MinLiquidityAssumption
  <1>2. most # Err /\ most * room <= a * t * U
    BY ErrAssumption, MarkerIsAtMostTheShare DEF MarkerIsAtMostShare
  <1> HIDE DEF most
  <1>3. most \in Nat /\ m <= most
    BY DEF most
  <1> HIDE DEF U, M
  <1>4. m * room <= a * t * U
    <2>1. CASE room < 0
      <3>1. room \in Int /\ a * t * U \in Nat
        BY <1>1
      <3>2. room * m <= 0 * m
        BY <2>1, <3>1, ScaleLeq
      <3>3. QED  BY <3>1, <3>2
    <2>2. CASE room >= 0
      <3>1. room \in Nat /\ a * t * U \in Nat
        BY <1>1, <2>2
      <3>2. m * room <= most * room
        BY <1>3, <3>1, ScaleLeq
      <3>3. m * room \in Nat /\ most * room \in Nat
        BY <1>3, <3>1
      <3>4. QED  BY <1>2, <3>1, <3>2, <3>3
    <2>3. room \in Int
      BY <1>1
    <2>4. QED  BY <2>1, <2>2, <2>3
  <1>5. (m * r) * U <= (a * t) * U + m * t
    <2>1. m * room = (m * r) * U - m * t
      BY <1>1
    <2>2. (m * r) * U \in Nat /\ m * t \in Nat /\ (a * t) * U \in Nat
      BY <1>1
    <2>3. QED  BY <1>4, <2>1, <2>2
  <1>6. p \in Nat /\ m * t <= p
    BY DEF p
  <1>7. q \in Nat /\ p < (q + 1) * U
    BY <1>1, <1>6, DivBounds, DivNat
  <1> HIDE DEF p, q
  <1>8. (m * r) * U < (a * t + q + 1) * U
    <2>1. (a * t + q + 1) * U = (a * t) * U + (q + 1) * U
      BY <1>1, <1>7
    <2>2. /\ (m * r) * U \in Nat /\ m * t \in Nat /\ (a * t) * U \in Nat
          /\ (q + 1) * U \in Nat
      BY <1>1, <1>7
    <2>3. QED  BY <1>5, <1>6, <1>7, <2>1, <2>2
  <1>9. m * r < a * t + q + 1
    <2>1. m * r \in Int /\ a * t + q + 1 \in Int
      BY <1>7
    <2>2. QED  BY <1>1, <1>8, <2>1, CancelFactor
  <1>10. (r + a) * (t + M) + q + 1 >= r * (t + m + M)
    <2>1. /\ (r + a) * (t + M) = r * t + r * M + a * t + a * M
          /\ r * (t + m + M) = r * t + m * r + r * M
      BY <1>1
    <2>2. /\ r * t \in Nat /\ r * M \in Nat /\ a * t \in Nat /\ a * M \in Nat
          /\ m * r \in Nat
      BY <1>1
    <2>3. QED  BY <1>7, <1>9, <2>1, <2>2
  <1>11. QED  BY <1>10 DEF ShareKept, p, q, U, M

\* A withdrawal that pays at most its share keeps the reserve behind a token.
LEMMA WithdrawKeepsShare ==
  ASSUME NEW r \in Nat, NEW t2 \in Nat, NEW k \in Nat, NEW out \in Nat,
         out <= r, out * ((t2 + k) + MinLiquidity) <= r * k
  PROVE  ShareKept(r, t2 + k, r - out, t2)
  <1> DEFINE M == MinLiquidity
             q == (t2 * (t2 + k)) \div Unit
  <1>1. M \in Nat /\ q \in Nat
    <2>1. t2 * (t2 + k) \in Nat /\ Unit \in Nat /\ Unit > 0
      BY FixedFacts
    <2>2. QED  BY <2>1, DivNat, MinLiquidityAssumption
  <1> HIDE DEF M, q
  <1>2. out * (t2 + k + M) <= r * k
    BY DEF M
  <1>3. (r - out) * (t2 + k + M) + q + 1 >= r * (t2 + M)
    <2>1. /\ (r - out) * (t2 + k + M) = r * (t2 + k + M) - out * (t2 + k + M)
          /\ r * (t2 + k + M) = r * (t2 + M) + r * k
      BY <1>1
    <2>2. /\ out * (t2 + k + M) \in Nat /\ r * (t2 + M) \in Nat /\ r * k \in Nat
          /\ r * (t2 + k + M) \in Nat
      BY <1>1
    <2>3. QED  BY <1>1, <1>2, <2>1, <2>2
  <1>4. QED  BY <1>3 DEF ShareKept, M, q

\* Whoever mints or burns through a pool keeps what stands behind its tokens.
LEMMA ShareStep ==
  ASSUME IInv, [Next]_vars, NEW d \in Dexes, issuance'[d] # issuance[d], PoolChanges(d)
  PROVE  /\ ShareKept(target[Pool(d)], issuance[d], target'[Pool(d)], issuance'[d])
         /\ base'[Pool(d)] > 0 =>
               ShareKept(base[Pool(d)], issuance[d], base'[Pool(d)], issuance'[d])
  <1> DEFINE Goal ==
        /\ ShareKept(target[Pool(d)], issuance[d], target'[Pool(d)], issuance'[d])
        /\ base'[Pool(d)] > 0 =>
              ShareKept(base[Pool(d)], issuance[d], base'[Pool(d)], issuance'[d])
  <1>1. /\ TypeOK /\ base[Pool(d)] \in Nat /\ target[Pool(d)] \in Nat
        /\ issuance[d] \in Nat /\ MinLiquidity \in Nat
    BY MinLiquidityAssumption, AccountFacts DEF IInv, TypeOK
  <1>2. ~UNCHANGED <<base, target>> /\ issuance' # issuance
    BY DEF PoolChanges
  <1>3. ASSUME NEW u \in Users, NEW e \in Dexes, DepositStep(u, e)
        PROVE  Goal
    <2>1. e = d
      BY <1>3, DepositFacts
    <2>2. PICK a \in Nat, b \in Nat, m \in Nat :
            /\ base'[Pool(d)] = base[Pool(d)] + a
            /\ target'[Pool(d)] = target[Pool(d)] + b
            /\ issuance'[d] = issuance[d] + m
            /\ ~PoolIsEmpty(d) =>
                  /\ MarkerFor(a, base[Pool(d)], issuance[d]) \in Nat
                  /\ m <= MarkerFor(a, base[Pool(d)], issuance[d])
                  /\ MarkerFor(b, target[Pool(d)], issuance[d]) \in Nat
                  /\ m <= MarkerFor(b, target[Pool(d)], issuance[d])
      BY <1>3, <2>1, DepositFacts
    <2>3. CASE PoolIsEmpty(d)
      <3>1. ASSUME NEW c \in Nat
            PROVE  ShareKept(0, issuance[d], 0 + c, issuance[d] + m)
        <4> DEFINE t == issuance[d]
                   q == ((t + m) * t) \div Unit
        <4>1. q \in Nat
          <5>1. (t + m) * t \in Nat /\ Unit \in Nat /\ Unit > 0
            BY <1>1, FixedFacts
          <5>2. QED  BY <5>1, DivNat
        <4> HIDE DEF q
        <4>2. (0 + c) * (t + MinLiquidity) \in Nat /\ 0 * (t + m + MinLiquidity) = 0
          BY <1>1
        <4>3. (0 + c) * (t + MinLiquidity) + q + 1 >= 0 * (t + m + MinLiquidity)
          BY <4>1, <4>2
        <4>4. QED  BY <4>3 DEF ShareKept, q
      <3>2. base[Pool(d)] = 0 /\ target[Pool(d)] = 0
        BY <2>3 DEF PoolIsEmpty
      <3>3. QED  BY <2>2, <3>1, <3>2
    <2>4. CASE ~PoolIsEmpty(d)
      BY <1>1, <2>2, <2>4, DepositKeepsShare
    <2>5. QED  BY <2>3, <2>4
  <1>4. ASSUME NEW u \in Users, NEW e \in Dexes, WithdrawStep(u, e)
        PROVE  Goal
    <2>1. e = d
      BY <1>4, WithdrawFacts
    <2>2. PICK k \in Nat, out \in Nat, tout \in Nat :
            /\ k > 0 /\ issuance[d] = issuance'[d] + k
            /\ out * (issuance[d] + MinLiquidity) <= base[Pool(d)] * k
            /\ out <= base[Pool(d)]
            /\ base'[Pool(d)] = 0 \/ base'[Pool(d)] = base[Pool(d)] - out
            /\ tout * (issuance[d] + MinLiquidity) <= target[Pool(d)] * k
            /\ tout <= target[Pool(d)]
            /\ target'[Pool(d)] = target[Pool(d)] - tout
      BY <1>4, <2>1, WithdrawFacts
    <2>3. issuance'[d] \in Nat
      BY <1>4, WithdrawFacts, AccountFacts
    <2>4. ShareKept(target[Pool(d)], issuance'[d] + k, target[Pool(d)] - tout, issuance'[d])
      BY <1>1, <2>2, <2>3, WithdrawKeepsShare
    <2>5. ShareKept(base[Pool(d)], issuance'[d] + k, base[Pool(d)] - out, issuance'[d])
      BY <1>1, <2>2, <2>3, WithdrawKeepsShare
    <2>6. base'[Pool(d)] > 0 => base'[Pool(d)] = base[Pool(d)] - out
      BY <2>2
    <2>7. QED  BY <2>2, <2>4, <2>5, <2>6
  <1>5. ASSUME NEW u \in Users, NEW e \in Dexes, SwapStep(u, e)
        PROVE  FALSE
    BY <1>1, <1>2, <1>5, SwapFacts
  <1>6. ASSUME NEW u \in Users, NEW to \in Account, NEW n \in Nat,
               PlainTransfer(u, to, n)
        PROVE  FALSE
    BY <1>1, <1>2, <1>6, TransferFacts
  <1> HIDE DEF Goal
  <1>7. ASSUME Next  PROVE Goal
    BY <1>1, <1>2, <1>3, <1>4, <1>5, <1>6, <1>7, NextCases
    DEF InitializePool, TransferMarker, MarkerMint, MarkerBurn, SetNonMintable
  <1>8. QED  BY <1>2, <1>7 DEF vars, Goal

\* SharesNeverDiluted for every instance: deposits mint the smaller of two shares
\* and withdrawals divide by the issuance plus MIN_LIQUIDITY, so neither lowers
\* what the remaining tokens stand for by more than a rounding.
THEOREM SharesAreNeverDiluted == Spec => SharesNeverDiluted
  <1>1. IInv /\ [Next]_vars
        => [\A d \in Dexes :
              issuance'[d] # issuance[d] /\ PoolChanges(d)
              => /\ ShareKept(target[Pool(d)], issuance[d],
                              target'[Pool(d)], issuance'[d])
                 /\ base'[Pool(d)] > 0 =>
                       ShareKept(base[Pool(d)], issuance[d],
                                 base'[Pool(d)], issuance'[d])]_vars
    BY ShareStep
  <1>2. QED  BY <1>1, InitInv, StepInv, PTL DEF Spec, SharesNeverDiluted

-----------------------------------------------------------------------------
(* The product of the reserves: no swap, whoever makes it and whoever      *)
(* receives from it, lowers it by more than its divisions round away.      *)

\* A fee is the exact fraction, rounded down only once.
LEMMA FeeIsTight ==
  ASSUME NEW amount \in Nat, FeeOf(amount) # Err
  PROVE  /\ FeeOf(amount) \in Nat /\ FeeOf(amount) <= amount
         /\ amount * FeeNum < (FeeOf(amount) + 1) * FeeDen
  <1> DEFINE f == FromBalance(amount)
             p == FxMul(f, FeeNum * Unit)
             q == FxDiv(p, FeeDen * Unit)
  <1>1. /\ FeeNum * Unit \in Nat /\ FeeDen * Unit \in Nat /\ FeeDen * Unit > 0
        /\ FeeNum \in Nat /\ FeeDen \in Nat
    BY FeeAssumption, FixedFacts
  <1>2. f \in FixedOrErr /\ (f # Err => f = amount)
    BY FromBalanceFacts DEF NatOrErr
  <1>3. p \in FixedOrErr /\ (p # Err => f # Err /\ p = (f * (FeeNum * Unit)) \div Unit)
    BY <1>1, <1>2, MulFacts
  <1>4. q \in FixedOrErr /\ (q # Err => p # Err)
    BY <1>1, <1>3, DivTypeFacts
  <1>5. FeeOf(amount) = ToBalance(q)
    BY ErrAssumption DEF FeeOf
  <1>6. FeeOf(amount) = q /\ q # Err
    BY <1>4, <1>5, ToBalanceFacts, ErrAssumption DEF ToBalance
  <1>7. amount * (FeeNum * Unit) = (amount * FeeNum) * Unit /\ amount * FeeNum \in Nat
    BY <1>1, FixedFacts
  <1>8. p = ((amount * FeeNum) * Unit) \div Unit
    BY <1>2, <1>3, <1>4, <1>6, <1>7
  <1>9. p = amount * FeeNum
    <2> DEFINE z == amount * FeeNum
    <2>1. z \in Nat
      BY <1>7
    <2> HIDE DEF z
    <2>2. (z * Unit) \div Unit = z
      BY <2>1, FixedFacts, SMT
    <2>3. QED  BY <1>8, <2>2 DEF z
  <1>10. p * Unit < (q + 1) * (FeeDen * Unit)
    BY <1>1, <1>3, <1>6, <1>7, <1>9, DivFacts
  <1>11. q \in Nat /\ q <= amount
    BY <1>6, FeeFacts DEF NatOrErr
  <1>12. (amount * FeeNum) * Unit < ((q + 1) * FeeDen) * Unit
    BY <1>1, <1>9, <1>10, <1>11, FixedFacts
  <1>13. amount * FeeNum < (q + 1) * FeeDen
    <2>1. (q + 1) * FeeDen \in Int
      BY <1>1, <1>11
    <2>2. QED  BY <1>7, <1>12, <2>1, FixedFacts, CancelFactor
  <1>14. QED  BY <1>6, <1>11, <1>13

\* The bound that an exact input keeps for all of what is priced it keeps for any
\* part of it: it is linear in what leaves, and holds when nothing does.
LEMMA PartOfOutput ==
  ASSUME NEW x \in Nat, NEW y \in Nat, NEW x2 \in Nat, NEW out \in Nat, NEW part \in Nat,
         x <= x2, part <= out,
         Unit * (x * y - x2 * (y - out)) <= y * out
  PROVE  Unit * (x * y - x2 * (y - part)) <= y * part
  <1> DEFINE s == Unit * x2 - y
             c == Unit * (x * y - x2 * y)
  <1>1. Unit \in Nat /\ Unit > 0
    BY FixedFacts
  <1>2. s \in Int /\ c \in Int
    BY <1>1
  <1>3. c <= 0
    <2>1. x * y <= x2 * y
      BY ScaleLeq
    <2>2. QED  BY <1>1, <2>1
  <1>4. ASSUME NEW o \in Nat
        PROVE  Unit * (x * y - x2 * (y - o)) - y * o = c + s * o
    BY <1>1
  <1>5. c + s * out <= 0
    <2>1. Unit * (x * y - x2 * (y - out)) \in Int /\ y * out \in Int
      BY <1>1
    <2>2. QED  BY <1>4, <2>1
  <1> HIDE DEF s, c
  <1>6. c + s * part <= 0
    <2>1. CASE s <= 0
      <3>1. s * part <= 0
        BY <1>2, <2>1, SMT
      <3>2. s * part \in Int
        BY <1>2
      <3>3. QED  BY <1>2, <1>3, <3>1, <3>2
    <2>2. CASE s > 0
      <3>1. s * part <= s * out
        BY <1>2, <2>2, SMT
      <3>2. s * part \in Int /\ s * out \in Int
        BY <1>2
      <3>3. QED  BY <1>2, <1>5, <3>1, <3>2
    <2>3. QED  BY <1>2, <2>1, <2>2
  <1>7. Unit * (x * y - x2 * (y - part)) \in Int /\ y * part \in Int
    BY <1>1
  <1>8. QED  BY <1>4, <1>6, <1>7

\* A whole number is at most the floored quotient of what its multiple is below.
LEMMA AtMostQuotient ==
  ASSUME NEW z \in Int, NEW w \in Nat, Unit * z <= w
  PROVE  z <= w \div Unit
  <1>1. Unit \in Nat /\ Unit > 0
    BY FixedFacts
  <1>2. w \div Unit \in Int /\ w < ((w \div Unit) + 1) * Unit
    BY <1>1, DivBounds
  <1>3. z * Unit < ((w \div Unit) + 1) * Unit
    <2>1. Unit * z = z * Unit /\ z * Unit \in Int /\ ((w \div Unit) + 1) * Unit \in Int
      BY <1>1, <1>2
    <2>2. QED  BY <1>2, <2>1
  <1>4. z < (w \div Unit) + 1
    BY <1>1, <1>2, <1>3, CancelFactor
  <1>5. QED  BY <1>2, <1>4

\* The terms of SwapRounding are natural numbers.
LEMMA RoundingTerms ==
  ASSUME NEW x \in Nat, NEW y \in Nat, NEW p \in Nat, NEW part \in Nat
  PROVE  /\ (y * part) \div Unit \in Nat
         /\ (p * FeeDen) \div (FeeDen - FeeNum) \in Nat
  <1>1. /\ Unit \in Nat /\ Unit > 0 /\ FeeDen - FeeNum \in Nat /\ FeeDen - FeeNum > 0
        /\ y * part \in Nat /\ p * FeeDen \in Nat
    BY FixedFacts, FeeAssumption
  <1>2. QED  BY <1>1, DivNat

\* What a swap of an exact input leaves: x2 and the reserve without a part of what
\* was priced.
LEMMA InputProduct ==
  ASSUME NEW x \in Nat, NEW y \in Nat, NEW p \in Nat, NEW out \in Nat, NEW part \in Nat,
         part <= out, part <= y,
         Unit * (x * y - (x + p) * (y - out)) <= y * out
  PROVE  ProductKept(x, y, x + p, y - part)
  <1> DEFINE z == x * y - (x + p) * (y - part)
             q == (y * part) \div Unit
             r == (((x + p) - x) * FeeDen) \div (FeeDen - FeeNum)
  <1>1. Unit * z <= y * part
    <2> DEFINE x2 == x + p
    <2>1. x2 \in Nat /\ x <= x2 /\ Unit * (x * y - x2 * (y - out)) <= y * out
      OBVIOUS
    <2> HIDE DEF x2
    <2>2. Unit * (x * y - x2 * (y - part)) <= y * part
      BY <2>1, PartOfOutput
    <2>3. QED  BY <2>2 DEF x2
  <1>2. z \in Int /\ y * part \in Nat /\ (x + p) * (y - part) \in Int /\ x * y \in Int
    OBVIOUS
  <1>3. q \in Nat /\ r \in Nat
    <2>1. (x + p) - x = p
      OBVIOUS
    <2>2. QED  BY <2>1, RoundingTerms
  <1>4. z <= q
    <2> DEFINE w == y * part
    <2>1. w \in Nat /\ Unit * z <= w
      BY <1>1, <1>2
    <2> HIDE DEF z, w
    <2>2. z <= w \div Unit
      BY <1>2, <2>1, AtMostQuotient
    <2>3. QED  BY <2>2 DEF w
  <1>5. y - (y - part) = part
    OBVIOUS
  <1>6. SwapRounding(x, y, x + p, y - part) = q + 1 + (y - part) + r
    BY <1>5 DEF SwapRounding
  <1> DEFINE a == (x + p) * (y - part)
             b == x * y
  <1>7. z = b - a /\ a \in Int /\ b \in Int
    BY <1>2
  <1> HIDE DEF z, q, r, a, b
  <1>8. a + (q + 1 + (y - part) + r) >= b
    BY <1>3, <1>4, <1>7
  <1>9. QED  BY <1>6, <1>8 DEF ProductKept, a, b

\* What a swap of an exact output leaves when the fee is in the priced output, of
\* which a part leaves the reserve.
LEMMA OutputProductDestination ==
  ASSUME NEW x \in Nat, NEW y \in Nat, NEW amount \in Nat, NEW priced \in Nat,
         NEW part \in Nat, part <= priced, part <= y,
         (amount + 1) * (y - priced) > x * priced
  PROVE  ProductKept(x, y, x + amount, y - part)
  <1> DEFINE y2 == y - part
             x2 == x + amount
             q == (y * (y - y2)) \div Unit
             r == ((x2 - x) * FeeDen) \div (FeeDen - FeeNum)
  <1>1. q \in Nat /\ r \in Nat
    <2>1. y - y2 = part /\ x2 - x = amount
      OBVIOUS
    <2>2. QED  BY <2>1, RoundingTerms
  <1>2. (x2 + 1) * (y - priced) <= (x2 + 1) * y2
    <2>1. (y - priced) * (x2 + 1) <= y2 * (x2 + 1)
      BY ScaleLeq
    <2>2. QED  BY <2>1
  <1>3. (x2 + 1) * (y - priced) = (x * y - x * priced) + (amount + 1) * (y - priced)
    OBVIOUS
  <1>4. (x2 + 1) * y2 = x2 * y2 + y2
    OBVIOUS
  <1> DEFINE a == (amount + 1) * (y - priced)
             b == x * priced
             c == x * y
             e == x2 * y2
             g == (x2 + 1) * (y - priced)
             h == (x2 + 1) * y2
  <1>5. a \in Int /\ b \in Int /\ c \in Int /\ e \in Int /\ g \in Int /\ h \in Int /\ y2 \in Int
    OBVIOUS
  <1>6. a > b /\ g <= h /\ g = (c - b) + a /\ h = e + y2
    BY <1>2, <1>3, <1>4
  <1> HIDE DEF a, b, c, e, g, h, q, r
  <1>7. e + y2 > c
    BY <1>5, <1>6
  <1>8. e + (q + 1 + y2 + r) >= c
    BY <1>1, <1>5, <1>7
  <1>9. QED  BY <1>8 DEF ProductKept, SwapRounding, q, r, e, c

\* What a swap of an exact output leaves when the fee is taken from the input: the
\* rounding of the two fees is worth less than the input itself.
LEMMA OutputProductSource ==
  ASSUME NEW x \in Nat, NEW y \in Nat, NEW amount \in Nat, NEW yOut \in Nat,
         yOut <= y, FeeOf(amount) # Err, FeeOf(y - yOut) # Err,
         (amount + 1) * ((y - yOut) - FeeOf(y - yOut)) > x * yOut
  PROVE  ProductKept(x, y, x + (amount - FeeOf(amount)), y - yOut)
  <1> DEFINE R == y - yOut
             left == R - FeeOf(R)
             p == amount - FeeOf(amount)
             K == FeeDen - FeeNum
             D == FeeDen
             q == (y * (y - R)) \div Unit
             r == (p * D) \div K
  <1>1. K \in Nat /\ K > 0 /\ D \in Nat /\ D > 0 /\ K <= D /\ FeeNum \in Nat /\ D - K = FeeNum
    BY FeeAssumption
  <1>2. R \in Nat /\ y - R = yOut
    OBVIOUS
  <1>3. /\ left \in Nat
        /\ left * D < R * K + D
    <2> DEFINE f == FeeOf(R)
    <2>1. f \in Nat /\ f <= R /\ R * FeeNum < (f + 1) * D
      BY <1>2, FeeIsTight
    <2> HIDE DEF f, R
    <2>2. R - f \in Nat
      BY <1>2, <2>1
    <2>3. (R - f) * D = R * D - f * D /\ (f + 1) * D = f * D + D
      BY <1>1, <1>2, <2>1
    <2>4. R * K + R * FeeNum = R * D
      BY <1>2, FeeAssumption
    <2>5. R * D \in Int /\ f * D \in Int /\ R * K \in Int /\ R * FeeNum \in Int
      BY <1>1, <1>2, <2>1
    <2>6. (R - f) * D < R * K + D
      BY <1>1, <2>1, <2>3, <2>4, <2>5
    <2>7. QED  BY <2>2, <2>6 DEF f
  <1>4. p \in Nat /\ amount * K <= p * D
    <2> DEFINE f == FeeOf(amount)
    <2>1. f \in Nat /\ f <= amount /\ f * D <= amount * FeeNum
      BY FeeIsTight, FeeFacts DEF NatOrErr
    <2> HIDE DEF f
    <2>2. (amount - f) * D = amount * D - f * D /\ amount * K + amount * FeeNum = amount * D
      BY <1>1, <2>1, FeeAssumption
    <2>3. /\ amount * D \in Int /\ f * D \in Int /\ amount * K \in Int
          /\ amount * FeeNum \in Int /\ amount - f \in Nat
      BY <1>1, <2>1
    <2>4. amount - f \in Nat /\ amount * K <= (amount - f) * D
      BY <2>1, <2>2, <2>3
    <2>5. QED  BY <2>4 DEF f
  <1> HIDE DEF K, D, p, left, R
  <1>5. r \in Nat /\ amount <= r
    <2> DEFINE w == p * D
    <2>1. w \in Nat
      BY <1>1, <1>4
    <2> HIDE DEF w
    <2>2. w \div K \in Nat /\ w < ((w \div K) + 1) * K
      BY <1>1, <2>1, DivBounds, DivNat
    <2>3. amount * K < ((w \div K) + 1) * K
      <3>1. ((w \div K) + 1) * K \in Int /\ amount * K \in Int
        BY <1>1, <2>2
      <3>2. QED  BY <1>4, <2>1, <2>2, <3>1 DEF w
    <2>4. amount < (w \div K) + 1
      BY <1>1, <2>2, <2>3, CancelFactor
    <2>5. QED  BY <2>2, <2>4 DEF w
  <1>6. q \in Nat
    <2>1. y * (y - R) \in Nat /\ Unit \in Nat /\ Unit > 0
      BY <1>2, FixedFacts
    <2>2. QED  BY <2>1, DivNat
  <1> HIDE DEF q, r
  <1>7. (amount + 1) * left <= p * R + R + amount + 1
    <2>1. (left * D) * (amount + 1) <= (R * K + D) * (amount + 1)
      <3>1. left * D \in Int /\ R * K + D \in Int /\ amount + 1 \in Nat
        BY <1>1, <1>2, <1>3
      <3>2. left * D <= R * K + D
        BY <1>3, <3>1
      <3> DEFINE a == left * D
                 b == R * K + D
      <3> HIDE DEF a, b
      <3>3. a * (amount + 1) <= b * (amount + 1)
        BY <3>1, <3>2, ScaleLeq DEF a, b
      <3>4. QED  BY <3>3 DEF a, b
    <2>2. (R * K + D) * (amount + 1) = (amount * K) * R + K * R + D * (amount + 1)
      BY <1>1, <1>2
    <2>3. (amount * K) * R <= (p * D) * R
      <3>1. amount * K \in Int /\ p * D \in Int
        BY <1>1, <1>4
      <3> DEFINE a == amount * K
                 b == p * D
      <3> HIDE DEF a, b
      <3>2. a * R <= b * R
        BY <1>2, <1>4, <3>1, ScaleLeq DEF a, b
      <3>3. QED  BY <3>2 DEF a, b
    <2>4. K * R <= D * R
      BY <1>1, <1>2, ScaleLeq
    <2>5. (left * D) * (amount + 1) = ((amount + 1) * left) * D
      BY <1>1, <1>3
    <2>6. (p * D) * R + D * R + D * (amount + 1) = (p * R + R + amount + 1) * D
      BY <1>1, <1>2, <1>4
    <2>7. /\ (left * D) * (amount + 1) \in Int /\ (R * K + D) * (amount + 1) \in Int
          /\ (amount * K) * R \in Int /\ (p * D) * R \in Int /\ K * R \in Int
          /\ D * R \in Int /\ D * (amount + 1) \in Int
          /\ (amount + 1) * left \in Int /\ p * R + R + amount + 1 \in Int
      BY <1>1, <1>2, <1>3, <1>4
    <2> DEFINE a == (amount + 1) * left
               b == p * R + R + amount + 1
    <2>8. a * D <= b * D
      BY <2>1, <2>2, <2>3, <2>4, <2>5, <2>6, <2>7
    <2>9. a \in Int /\ b \in Int
      BY <2>7
    <2> HIDE DEF a, b
    <2>10. ~(b < a)
      <3>1. SUFFICES ASSUME b < a  PROVE FALSE
        OBVIOUS
      <3>2. b * D < a * D
        BY <1>1, <2>9, <3>1, ScaleLess
      <3>3. b * D \in Int /\ a * D \in Int
        BY <1>1, <2>9
      <3>4. QED  BY <2>8, <3>2, <3>3
    <2>11. QED  BY <2>9, <2>10 DEF a, b
  <1>8. (x + p) * R = x * R + p * R /\ x * y = x * R + x * yOut
    <2>1. y = R + yOut
      BY <1>2
    <2>2. QED  BY <1>2, <1>4, <2>1
  <1>9. (amount + 1) * left > x * yOut
    BY DEF left, R
  <1>10. /\ x * R \in Int /\ p * R \in Int /\ x * yOut \in Int
         /\ (amount + 1) * left \in Int /\ (x + p) * R \in Int /\ x * y \in Int
    BY <1>2, <1>3, <1>4
  <1>11. (x + p) * R + (q + 1 + R + r) >= x * y
    BY <1>2, <1>5, <1>6, <1>7, <1>8, <1>9, <1>10
  <1>12. (x + p) - x = p
    BY <1>4
  <1>13. SwapRounding(x, y, x + p, R) = q + 1 + R + r
    BY <1>12 DEF SwapRounding, q, r, K, D
  <1>14. ProductKept(x, y, x + p, R)
    BY <1>11, <1>13 DEF ProductKept
  <1>15. QED  BY <1>14 DEF p, R

\* Reserves that do not fall keep their product.
LEMMA RaisedReserves ==
  ASSUME NEW x \in Nat, NEW y \in Nat, NEW x2 \in Nat, NEW y2 \in Nat, x2 >= x, y2 >= y
  PROVE  ProductKept(x, y, x2, y2) /\ ProductKept(y, x, y2, x2)
  <1>1. ~(y2 < y) /\ ~(x2 < x)
    OBVIOUS
  <1>2. QED  BY <1>1 DEF ProductKept

-----------------------------------------------------------------------------
(* What a swap does to the balances of the pools.                          *)

\* An account that is left with base tokens has lost exactly what it sent.
LEMMA BaseSpent ==
  ASSUME NEW bal \in [Account -> Balance], NEW from \in Account, NEW to \in Account,
         NEW amount \in Nat, from # to, CanMoveBase(bal, from, to, amount),
         NEW new, new = MoveBase(bal, from, to, amount), new[from] > 0
  PROVE  amount <= bal[from] /\ new[from] = bal[from] - amount
  <1>1. bal[from] \in Nat
    BY AccountFacts
  <1>2. CASE amount = 0
    <2>1. new = bal
      BY <1>2 DEF MoveBase
    <2>2. QED  BY <1>1, <1>2, <2>1
  <1>3. CASE amount # 0
    <2>1. amount <= bal[from]
      BY <1>3 DEF CanMoveBase
    <2>2. new[from] = KeepAlive(bal[from] - amount)
      BY <1>3 DEF MoveBase
    <2>3. QED  BY <2>1, <2>2 DEF KeepAlive
  <1>4. QED  BY <1>2, <1>3

\* Selling the base asset adds the input without the fee to the base reserve and
\* takes the output from the target reserve, unless the pool itself receives it.
LEMMA SellBaseBalances ==
  ASSUME TypeOK, NEW u \in Users, NEW receiver \in Account, NEW d \in Dexes,
         NEW src \in Nat, NEW dst \in Nat, NEW fee \in Nat, fee <= src,
         SellBase(u, receiver, d, src, dst, fee)
  PROVE  /\ base' \in [Account -> Balance] /\ target' \in [Account -> Balance]
         /\ base'[Pool(d)] = base[Pool(d)] + (src - fee)
         /\ \A e \in Dexes : base'[Pool(e)] >= base[Pool(e)]
         /\ \A e \in Dexes \ {d} : target'[Pool(e)] >= target[Pool(e)]
         /\ \/ target'[Pool(d)] = target[Pool(d)]
            \/ /\ target'[Pool(d)] = target[Pool(d)] - dst
               /\ dst <= target[Pool(d)]
  <1> DEFINE net == src - fee
             paid == MoveBase(base, u, Pool(d), net)
  <1>1. /\ base \in [Account -> Balance] /\ target \in [Account -> Balance]
        /\ u \in Account /\ Pool(d) \in Account /\ FeeAccount(d) \in Account
        /\ u # Pool(d) /\ Balance \subseteq Nat
        /\ \A e \in Dexes : Pool(e) \in Account /\ Pool(e) # u /\ FeeAccount(d) # Pool(e)
        /\ \A e \in Dexes \ {d} : Pool(e) # Pool(d)
    BY AccountFacts, FeeAccountIsNoPool DEF TypeOK, Pool
  <1>2. /\ CanMoveBase(base, u, Pool(d), net)
        /\ CanMoveBase(paid, u, FeeAccount(d), fee)
        /\ base' = MoveBase(paid, u, FeeAccount(d), fee)
        /\ CanMoveTarget(target, Pool(d), receiver, dst)
        /\ target' = MoveTarget(target, Pool(d), receiver, dst)
    BY DEF SellBase
  <1>3. net \in Nat
    OBVIOUS
  <1> HIDE DEF net
  <1>4. /\ paid \in [Account -> Balance] /\ paid[Pool(d)] = base[Pool(d)] + net
        /\ \A a \in Account : a # u => paid[a] >= base[a]
    BY <1>1, <1>2, <1>3, MoveBaseFacts
  <1> HIDE DEF paid
  <1>5. /\ base' \in [Account -> Balance]
        /\ \A a \in Account : a # u => base'[a] >= paid[a]
        /\ \A a \in Account : a # u /\ a # FeeAccount(d) => base'[a] = paid[a]
    BY <1>1, <1>2, <1>4, MoveBaseFacts
  <1>6. /\ target' \in [Account -> Balance]
        /\ \A a \in Account : a # Pool(d) => target'[a] >= target[a]
        /\ Pool(d) # receiver => /\ target'[Pool(d)] = target[Pool(d)] - dst
                                 /\ dst <= target[Pool(d)]
        /\ Pool(d) = receiver => target' = target
    BY <1>1, <1>2, MoveTargetFacts
  <1>7. base'[Pool(d)] = base[Pool(d)] + net
    BY <1>1, <1>4, <1>5
  <1>8. \A e \in Dexes : base'[Pool(e)] >= base[Pool(e)]
    <2>1. ASSUME NEW e \in Dexes  PROVE base'[Pool(e)] >= base[Pool(e)]
      <3>1. base'[Pool(e)] = paid[Pool(e)] /\ paid[Pool(e)] >= base[Pool(e)]
        BY <1>1, <1>4, <1>5
      <3>2. QED  BY <3>1
    <2>2. QED  BY <2>1
  <1>9. \A e \in Dexes \ {d} : target'[Pool(e)] >= target[Pool(e)]
    BY <1>1, <1>6
  <1>10. \/ target'[Pool(d)] = target[Pool(d)]
         \/ /\ target'[Pool(d)] = target[Pool(d)] - dst
            /\ dst <= target[Pool(d)]
    BY <1>6
  <1>11. QED  BY <1>5, <1>6, <1>7, <1>8, <1>9, <1>10 DEF net

\* An unchecked subtraction that wrapped would leave more than the pool could pay.
LEMMA NetIsNotWrapped ==
  ASSUME NEW b \in Balance, NEW dst \in Nat, dst <= b, NEW fee \in Nat, fee <= b,
         WrapSub(dst, fee) <= b - fee
  PROVE  fee <= dst /\ WrapSub(dst, fee) = dst - fee
  <1>1. b \in Nat /\ b < Modulus /\ Modulus \in Nat /\ dst < Modulus /\ fee < Modulus
    BY ModulusAssumption DEF Balance
  <1>2. fee <= dst => WrapSub(dst, fee) = dst - fee
    BY <1>1 DEF WrapSub
  <1>3. ASSUME fee > dst  PROVE FALSE
    <2>1. WrapSub(dst, fee) = dst - fee + Modulus
      BY <1>1, <1>3 DEF WrapSub
    <2>2. QED  BY <1>1, <2>1
  <1>4. QED  BY <1>2, <1>3

\* Selling the target asset adds the input to the target reserve and takes the
\* output, fee included, from the base reserve, or only the fee when the pool
\* itself receives the rest.
LEMMA SellTargetBalances ==
  ASSUME TypeOK, NEW u \in Users, NEW receiver \in Account, NEW d \in Dexes,
         NEW src \in Nat, NEW dst \in Nat, NEW fee \in Nat, dst <= base[Pool(d)],
         SellTarget(u, receiver, d, src, dst, fee)
  PROVE  /\ base' \in [Account -> Balance] /\ target' \in [Account -> Balance]
         /\ target'[Pool(d)] = target[Pool(d)] + src
         /\ \A e \in Dexes : target'[Pool(e)] >= target[Pool(e)]
         /\ \A e \in Dexes \ {d} : base'[Pool(e)] >= base[Pool(e)]
         /\ base'[Pool(d)] > 0 =>
               \/ base'[Pool(d)] = base[Pool(d)] - dst
               \/ base'[Pool(d)] = base[Pool(d)] - fee /\ fee <= base[Pool(d)]
  <1> DEFINE net == WrapSub(dst, fee)
             fees == MoveBase(base, Pool(d), FeeAccount(d), fee)
  <1>1. /\ base \in [Account -> Balance] /\ target \in [Account -> Balance]
        /\ u \in Account /\ Pool(d) \in Account /\ FeeAccount(d) \in Account
        /\ u # Pool(d) /\ Balance \subseteq Nat /\ FeeAccount(d) # Pool(d)
        /\ \A e \in Dexes : Pool(e) \in Account /\ Pool(e) # u
        /\ \A e \in Dexes \ {d} : Pool(e) # Pool(d)
    BY AccountFacts, FeeAccountIsNoPool DEF TypeOK, Pool
  <1>2. /\ CanMoveTarget(target, u, Pool(d), src)
        /\ target' = MoveTarget(target, u, Pool(d), src)
        /\ CanMoveBase(base, Pool(d), FeeAccount(d), fee)
        /\ CanMoveBase(fees, Pool(d), receiver, net)
        /\ base' = MoveBase(fees, Pool(d), receiver, net)
    BY DEF SellTarget
  <1>3. net \in Nat
    <2>1. dst - fee \in Int /\ Modulus \in Int /\ Modulus > 0
      BY ModulusAssumption, FixedFacts
    <2>2. QED  BY <2>1 DEF WrapSub
  <1> HIDE DEF net
  <1>4. /\ fees \in [Account -> Balance]
        /\ \A a \in Account : a # Pool(d) => fees[a] >= base[a]
    BY <1>1, <1>2, MoveBaseFacts
  <1>5. fees[Pool(d)] > 0 => fee <= base[Pool(d)] /\ fees[Pool(d)] = base[Pool(d)] - fee
    BY <1>1, <1>2, BaseSpent
  <1> HIDE DEF fees
  <1>6. /\ base' \in [Account -> Balance]
        /\ \A a \in Account : a # Pool(d) => base'[a] >= fees[a]
    BY <1>1, <1>2, <1>3, <1>4, MoveBaseFacts
  <1>7. /\ target' \in [Account -> Balance]
        /\ \A a \in Account : a # u => target'[a] >= target[a]
        /\ target'[Pool(d)] = target[Pool(d)] + src
    BY <1>1, <1>2, MoveTargetFacts
  <1>8. \A e \in Dexes \ {d} : base'[Pool(e)] >= base[Pool(e)]
    <2>1. ASSUME NEW e \in Dexes \ {d}  PROVE base'[Pool(e)] >= base[Pool(e)]
      <3>1. /\ base'[Pool(e)] >= fees[Pool(e)] /\ fees[Pool(e)] >= base[Pool(e)]
            /\ base'[Pool(e)] \in Nat /\ fees[Pool(e)] \in Nat /\ base[Pool(e)] \in Nat
        BY <1>1, <1>4, <1>6
      <3>2. QED  BY <3>1
    <2>2. QED  BY <2>1
  <1>9. ASSUME base'[Pool(d)] > 0
        PROVE  \/ base'[Pool(d)] = base[Pool(d)] - dst
               \/ base'[Pool(d)] = base[Pool(d)] - fee /\ fee <= base[Pool(d)]
    <2>1. CASE receiver = Pool(d)
      <3>1. base' = fees
        BY <1>2, <2>1 DEF MoveBase
      <3>2. QED  BY <1>5, <1>9, <3>1
    <2>2. CASE receiver # Pool(d)
      <3>1. net <= fees[Pool(d)] /\ base'[Pool(d)] = fees[Pool(d)] - net
        BY <1>1, <1>2, <1>3, <1>4, <1>9, <2>2, BaseSpent
      <3>2. fees[Pool(d)] > 0
        <4>1. fees[Pool(d)] \in Nat
          BY <1>1, <1>4
        <4>2. QED  BY <1>3, <1>9, <3>1, <4>1
      <3>3. fee <= base[Pool(d)] /\ fees[Pool(d)] = base[Pool(d)] - fee
        BY <1>5, <3>2
      <3>4. fee <= dst /\ net = dst - fee
        <4>1. WrapSub(dst, fee) <= base[Pool(d)] - fee /\ base[Pool(d)] \in Balance
          BY <1>1, <3>1, <3>3 DEF net
        <4>2. QED  BY <3>3, <4>1, NetIsNotWrapped DEF net
      <3>5. base[Pool(d)] \in Nat
        BY <1>1
      <3>6. base'[Pool(d)] = base[Pool(d)] - dst
        BY <3>1, <3>3, <3>4, <3>5
      <3>7. QED  BY <3>6
    <2>3. QED  BY <2>1, <2>2
  <1>10. \A e \in Dexes : target'[Pool(e)] >= target[Pool(e)]
    BY <1>1, <1>7
  <1>11. QED  BY <1>6, <1>7, <1>8, <1>9, <1>10

-----------------------------------------------------------------------------
(* The two swaps.                                                          *)

\* What SwapKeepsProduct says of one pool.
KeepsBoth(e) ==
    base'[Pool(e)] > 0
    => /\ ProductKept(base[Pool(e)], target[Pool(e)], base'[Pool(e)], target'[Pool(e)])
       /\ ProductKept(target[Pool(e)], base[Pool(e)], target'[Pool(e)], base'[Pool(e)])

\* A pool none of whose reserves fell keeps its product.
LEMMA RaisedKeepsBoth ==
  ASSUME TypeOK, NEW e \in Dexes,
         base' \in [Account -> Balance], target' \in [Account -> Balance],
         base'[Pool(e)] >= base[Pool(e)], target'[Pool(e)] >= target[Pool(e)]
  PROVE  KeepsBoth(e)
  <1>1. /\ base[Pool(e)] \in Nat /\ target[Pool(e)] \in Nat
        /\ base'[Pool(e)] \in Nat /\ target'[Pool(e)] \in Nat
    BY AccountFacts DEF TypeOK
  <1>2. QED  BY <1>1, RaisedReserves DEF KeepsBoth

\* A swap that sells the base asset keeps every product when the target reserve
\* with the output taken out keeps it.
LEMMA SellBaseKeepsBoth ==
  ASSUME TypeOK, NEW u \in Users, NEW receiver \in Account, NEW d \in Dexes,
         NEW src \in Nat, NEW dst \in Nat, NEW fee \in Nat, fee <= src,
         Swap(u, receiver, d, TRUE, src, dst, fee),
         dst <= target[Pool(d)] =>
            ProductKept(base[Pool(d)], target[Pool(d)],
                        base[Pool(d)] + (src - fee), target[Pool(d)] - dst)
  PROVE  \A e \in Dexes : KeepsBoth(e)
  <1>1. SellBase(u, receiver, d, src, dst, fee)
    BY DEF Swap
  <1>2. /\ base' \in [Account -> Balance] /\ target' \in [Account -> Balance]
        /\ base'[Pool(d)] = base[Pool(d)] + (src - fee)
        /\ \A e \in Dexes : base'[Pool(e)] >= base[Pool(e)]
        /\ \A e \in Dexes \ {d} : target'[Pool(e)] >= target[Pool(e)]
        /\ \/ target'[Pool(d)] = target[Pool(d)]
           \/ /\ target'[Pool(d)] = target[Pool(d)] - dst
              /\ dst <= target[Pool(d)]
    BY <1>1, SellBaseBalances
  <1>3. /\ base[Pool(d)] \in Nat /\ target[Pool(d)] \in Nat
        /\ base'[Pool(d)] \in Nat /\ target'[Pool(d)] \in Nat
    BY <1>2, AccountFacts DEF TypeOK
  <1>4. ASSUME NEW e \in Dexes, e # d  PROVE KeepsBoth(e)
    BY <1>2, <1>4, RaisedKeepsBoth
  <1>5. KeepsBoth(d)
    <2>1. CASE target'[Pool(d)] = target[Pool(d)]
      <3>1. target'[Pool(d)] >= target[Pool(d)] /\ base'[Pool(d)] >= base[Pool(d)]
        BY <1>2, <1>3, <2>1
      <3>2. QED  BY <1>2, <3>1, RaisedKeepsBoth
    <2>2. CASE target'[Pool(d)] = target[Pool(d)] - dst /\ dst <= target[Pool(d)]
      <3>1. ProductKept(base[Pool(d)], target[Pool(d)], base'[Pool(d)], target'[Pool(d)])
        BY <1>2, <2>2
      <3>2. ~(base'[Pool(d)] < base[Pool(d)])
        BY <1>2, <1>3
      <3>3. ProductKept(target[Pool(d)], base[Pool(d)], target'[Pool(d)], base'[Pool(d)])
        BY <3>2 DEF ProductKept
      <3>4. QED  BY <3>1, <3>3 DEF KeepsBoth
    <2>3. QED  BY <1>2, <2>1, <2>2
  <1>6. QED  BY <1>4, <1>5

\* A swap that sells the target asset keeps every product when the base reserve
\* keeps it both without the output and without the fee alone.
LEMMA SellTargetKeepsBoth ==
  ASSUME TypeOK, NEW u \in Users, NEW receiver \in Account, NEW d \in Dexes,
         NEW src \in Nat, NEW dst \in Nat, NEW fee \in Nat,
         Swap(u, receiver, d, FALSE, src, dst, fee),
         \A part \in {dst, fee} : part <= base[Pool(d)] =>
            ProductKept(target[Pool(d)], base[Pool(d)],
                        target[Pool(d)] + src, base[Pool(d)] - part)
  PROVE  \A e \in Dexes : KeepsBoth(e)
  <1>1. SellTarget(u, receiver, d, src, dst, fee) /\ dst <= base[Pool(d)]
    <2>1. base[Pool(d)] >= dst /\ base[Pool(d)] \in Nat
      BY StateFacts DEF Swap, SwapIsValid, Destination
    <2>2. QED  BY <2>1 DEF Swap
  <1>2. /\ base' \in [Account -> Balance] /\ target' \in [Account -> Balance]
        /\ target'[Pool(d)] = target[Pool(d)] + src
        /\ \A e \in Dexes : target'[Pool(e)] >= target[Pool(e)]
        /\ \A e \in Dexes \ {d} : base'[Pool(e)] >= base[Pool(e)]
        /\ base'[Pool(d)] > 0 =>
              \/ base'[Pool(d)] = base[Pool(d)] - dst
              \/ base'[Pool(d)] = base[Pool(d)] - fee /\ fee <= base[Pool(d)]
    BY <1>1, SellTargetBalances
  <1>3. /\ base[Pool(d)] \in Nat /\ target[Pool(d)] \in Nat
        /\ base'[Pool(d)] \in Nat /\ target'[Pool(d)] \in Nat
    BY <1>2, AccountFacts DEF TypeOK
  <1>4. ASSUME NEW e \in Dexes, e # d  PROVE KeepsBoth(e)
    BY <1>2, <1>4, RaisedKeepsBoth
  <1>5. KeepsBoth(d)
    <2>1. SUFFICES ASSUME base'[Pool(d)] > 0
                   PROVE  /\ ProductKept(base[Pool(d)], target[Pool(d)],
                                         base'[Pool(d)], target'[Pool(d)])
                          /\ ProductKept(target[Pool(d)], base[Pool(d)],
                                         target'[Pool(d)], base'[Pool(d)])
      BY DEF KeepsBoth
    <2>2. ~(target'[Pool(d)] < target[Pool(d)])
      BY <1>2, <1>3
    <2>3. ProductKept(base[Pool(d)], target[Pool(d)], base'[Pool(d)], target'[Pool(d)])
      BY <2>2 DEF ProductKept
    <2>4. PICK part \in {dst, fee} :
             base'[Pool(d)] = base[Pool(d)] - part /\ part <= base[Pool(d)]
      BY <1>1, <1>2, <2>1
    <2>5. ProductKept(target[Pool(d)], base[Pool(d)], target'[Pool(d)], base'[Pool(d)])
      BY <1>2, <2>4
    <2>6. QED  BY <2>3, <2>5
  <1>6. QED  BY <1>4, <1>5

\* An exact-input swap keeps the product of every pool.
LEMMA SwapInKeepsBoth ==
  ASSUME TypeOK, NEW u \in Users, NEW d \in Dexes, SwapIn(u, d)
  PROVE  \A e \in Dexes : KeepsBoth(e)
  <1>1. PICK r \in Receivers, sellBase \in BOOLEAN, amount \in SwapAmounts, lim \in Limits :
            SwapExactInput(u, r, d, sellBase, amount, lim)
    BY DEF SwapIn
  <1> DEFINE x == Source(sellBase)[Pool(d)]
             y == Destination(sellBase)[Pool(d)]
             calc == CalcOutputForExactInput(~sellBase, x, y, amount)
  <1>2. x \in Nat /\ y \in Nat /\ amount \in Nat /\ r \in Account
    BY AmountFacts, AccountFacts, StateFacts DEF Source, Destination
  <1>3. /\ calc # Err
        /\ Swap(u, r, d, sellBase, amount, calc.amount, calc.fee)
    BY <1>1 DEF SwapExactInput
  <1>4. /\ calc.amount \in Nat /\ calc.fee \in Nat
        /\ ~(~sellBase) => calc.fee <= amount
    BY <1>2, <1>3, OutputType
  <1>5. LET x2 == x + PaidIn(~sellBase, amount, calc.fee)
        IN  Unit * (x * y - x2 * (y - calc.amount)) <= y * calc.amount
    <2>1. ExactInputLoss(~sellBase, x, y, amount)
      BY <1>2, ExactInputKeepsProduct
    <2>2. QED  BY <1>3, <2>1 DEF ExactInputLoss
  <1>6. ~sellBase => calc.fee <= calc.amount
    <2>1. SUFFICES ASSUME ~sellBase  PROVE calc.fee <= calc.amount
      OBVIOUS
    <2>2. calc.fee = FeeOf(calc.amount) /\ FeeOf(calc.amount) # Err
      BY <1>3, <2>1 DEF CalcOutputForExactInput
    <2>3. QED  BY <1>4, <2>2, FeeFacts DEF NatOrErr
  <1> HIDE DEF calc
  <1>7. CASE sellBase
    <2> DEFINE p == amount - calc.fee
    <2>1. p \in Nat
      BY <1>2, <1>4, <1>7
    <2>2. /\ x = base[Pool(d)] /\ y = target[Pool(d)]
          /\ Unit * (x * y - (x + p) * (y - calc.amount)) <= y * calc.amount
      BY <1>5, <1>7 DEF PaidIn, Source, Destination
    <2> HIDE DEF p, x, y
    <2>3. calc.amount <= y => ProductKept(x, y, x + p, y - calc.amount)
      <3>1. calc.amount <= calc.amount
        BY <1>4
      <3>2. QED  BY <1>2, <1>4, <2>1, <2>2, <3>1, InputProduct
    <2>4. Swap(u, r, d, TRUE, amount, calc.amount, calc.fee) /\ calc.fee <= amount
      BY <1>3, <1>4, <1>7
    <2>5. QED  BY <1>2, <1>4, <2>2, <2>3, <2>4, SellBaseKeepsBoth DEF p
  <1>8. CASE ~sellBase
    <2>1. /\ x = target[Pool(d)] /\ y = base[Pool(d)]
          /\ Unit * (x * y - (x + amount) * (y - calc.amount)) <= y * calc.amount
      BY <1>5, <1>8 DEF PaidIn, Source, Destination
    <2> HIDE DEF x, y
    <2>2. ASSUME NEW part \in {calc.amount, calc.fee}, part <= y
          PROVE  ProductKept(x, y, x + amount, y - part)
      <3>1. part \in Nat /\ part <= calc.amount
        BY <1>4, <1>6, <1>8
      <3>2. QED  BY <1>2, <1>4, <2>1, <2>2, <3>1, InputProduct
    <2>3. Swap(u, r, d, FALSE, amount, calc.amount, calc.fee)
      BY <1>3, <1>8
    <2> DEFINE out == calc.amount
               fee == calc.fee
    <2>4. \A part \in {out, fee} : part <= base[Pool(d)] =>
             ProductKept(target[Pool(d)], base[Pool(d)],
                         target[Pool(d)] + amount, base[Pool(d)] - part)
      BY <2>1, <2>2
    <2>5. /\ out \in Nat /\ fee \in Nat
          /\ Swap(u, r, d, FALSE, amount, out, fee)
      BY <1>4, <2>3
    <2> HIDE DEF out, fee
    <2>6. QED  BY <1>2, <2>4, <2>5, SellTargetKeepsBoth
  <1>9. QED  BY <1>7, <1>8

\* An exact-output swap keeps the product of every pool.
LEMMA SwapOutKeepsBoth ==
  ASSUME TypeOK, NEW u \in Users, NEW d \in Dexes, SwapOut(u, d)
  PROVE  \A e \in Dexes : KeepsBoth(e)
  <1>1. PICK r \in Receivers, sellBase \in BOOLEAN, yOut \in SwapAmounts, lim \in MaxInputs :
            SwapExactOutput(u, r, d, sellBase, yOut, lim)
    BY DEF SwapOut
  <1> DEFINE x == Source(sellBase)[Pool(d)]
             y == Destination(sellBase)[Pool(d)]
             calc == CalcInputForExactOutput(~sellBase, x, y, yOut)
  <1>2. /\ x \in Balance /\ y \in Balance /\ yOut \in Balance
        /\ x \in Nat /\ y \in Nat /\ yOut \in Nat /\ r \in Account
    BY AmountFacts, AccountFacts DEF TypeOK, Source, Destination
  <1>3. /\ calc # Err /\ x > 0
        /\ Swap(u, r, d, sellBase, calc.amount, yOut, calc.fee)
    BY <1>1 DEF SwapExactOutput, PoolIsUsable, Source
  <1>4. /\ calc.amount \in Nat /\ calc.fee \in Nat
        /\ ~(~sellBase) => calc.fee <= calc.amount
    BY <1>2, <1>3, InputType
  <1>5. /\ yOut < y
        /\ LET priced == IF ~sellBase THEN yOut + calc.fee ELSE yOut
               left == IF ~sellBase THEN y - priced ELSE (y - yOut) - FeeOf(y - yOut)
           IN  (calc.amount + 1) * left > x * priced
    <2>1. ExactOutputLoss(~sellBase, x, y, yOut)
      BY <1>2, <1>3, ExactOutputIsPaidFor
    <2>2. QED  BY <1>3, <2>1 DEF ExactOutputLoss
  <1>6. sellBase => /\ calc.fee = FeeOf(calc.amount) /\ FeeOf(calc.amount) # Err
                    /\ FeeOf(y - yOut) # Err
    <2>1. SUFFICES ASSUME sellBase
                   PROVE  /\ calc.fee = FeeOf(calc.amount) /\ FeeOf(calc.amount) # Err
                          /\ FeeOf(y - yOut) # Err
      OBVIOUS
    <2>2. calc = InputWithSourceFee(x, y, yOut)
      BY <2>1 DEF CalcInputForExactOutput
    <2>3. /\ calc.fee = FeeOf(calc.amount) /\ FeeOf(calc.amount) # Err
          /\ FeeOf(WrapSub(y, yOut)) # Err
      BY <1>3, <2>2 DEF InputWithSourceFee
    <2>4. WrapSub(y, yOut) = y - yOut
      <3>1. y \in Nat /\ y < Modulus /\ Modulus \in Nat
        BY <1>2, ModulusAssumption DEF Balance
      <3>2. QED  BY <1>2, <1>5, <3>1 DEF WrapSub
    <2>5. QED  BY <2>3, <2>4
  <1> HIDE DEF calc
  <1>7. CASE sellBase
    <2>1. /\ x = base[Pool(d)] /\ y = target[Pool(d)]
          /\ (calc.amount + 1) * ((y - yOut) - FeeOf(y - yOut)) > x * yOut
      BY <1>5, <1>7 DEF Source, Destination
    <2> HIDE DEF x, y
    <2>2. ProductKept(x, y, x + (calc.amount - calc.fee), y - yOut)
      <3> DEFINE a == calc.amount
      <3>1. a \in Nat /\ FeeOf(a) # Err /\ yOut <= y
        BY <1>2, <1>4, <1>5, <1>6, <1>7
      <3>2. (a + 1) * ((y - yOut) - FeeOf(y - yOut)) > x * yOut
        BY <2>1
      <3>3. calc.fee = FeeOf(a)
        BY <1>6, <1>7
      <3> HIDE DEF a
      <3>4. ProductKept(x, y, x + (a - FeeOf(a)), y - yOut)
        BY <1>2, <1>6, <1>7, <3>1, <3>2, OutputProductSource
      <3>5. QED  BY <3>3, <3>4 DEF a
    <2>3. Swap(u, r, d, TRUE, calc.amount, yOut, calc.fee) /\ calc.fee <= calc.amount
      BY <1>3, <1>4, <1>7
    <2>4. QED  BY <1>2, <1>4, <2>1, <2>2, <2>3, SellBaseKeepsBoth
  <1>8. CASE ~sellBase
    <2> DEFINE priced == yOut + calc.fee
    <2>1. /\ x = target[Pool(d)] /\ y = base[Pool(d)]
          /\ (calc.amount + 1) * (y - priced) > x * priced
      BY <1>5, <1>8 DEF Source, Destination
    <2>2. priced \in Nat /\ \A part \in {yOut, calc.fee} : part \in Nat /\ part <= priced
      BY <1>2, <1>4
    <2> HIDE DEF x, y, priced
    <2>3. ASSUME NEW part \in {yOut, calc.fee}, part <= y
          PROVE  ProductKept(x, y, x + calc.amount, y - part)
      BY <1>2, <1>4, <2>1, <2>2, <2>3, OutputProductDestination
    <2>4. Swap(u, r, d, FALSE, calc.amount, yOut, calc.fee)
      BY <1>3, <1>8
    <2> DEFINE src == calc.amount
               fee == calc.fee
    <2>5. \A part \in {yOut, fee} : part <= base[Pool(d)] =>
             ProductKept(target[Pool(d)], base[Pool(d)],
                         target[Pool(d)] + src, base[Pool(d)] - part)
      BY <2>1, <2>3
    <2>6. /\ src \in Nat /\ fee \in Nat
          /\ Swap(u, r, d, FALSE, src, yOut, fee)
      BY <1>4, <2>4
    <2> HIDE DEF src, fee
    <2>7. QED  BY <1>2, <2>5, <2>6, SellTargetKeepsBoth
  <1>9. QED  BY <1>7, <1>8

-----------------------------------------------------------------------------
(* Every other call changes the issuance or only raises reserves.          *)

\* A deposit takes base tokens from its caller only.
LEMMA DepositRaisesBase ==
  ASSUME IInv, NEW u \in Users, NEW e \in Dexes, DepositStep(u, e)
  PROVE  \A d \in Dexes : base'[Pool(d)] >= base[Pool(d)]
  <1>1. PICK bd \in Nat, td \in Nat, bm \in Nat, tm \in Nat, baseFirst \in BOOLEAN :
            DepositLiquidity(u, e, bd, td, bm, tm, baseFirst)
    BY DEF DepositStep
  <1> DEFINE terms == DepositTerms(e, bd, td, bm, tm, baseFirst)
  <1>2. /\ terms # Err
        /\ CanMoveBase(base, u, Pool(e), terms.base)
        /\ base' = MoveBase(base, u, Pool(e), terms.base)
    BY <1>1 DEF DepositLiquidity, ReserveDeposit
  <1>3. terms.base \in Nat
    BY <1>2, DepositTermsFacts DEF IInv
  <1>4. /\ base \in [Account -> Balance] /\ u \in Account /\ Pool(e) \in Account
        /\ \A d \in Dexes : Pool(d) \in Account /\ Pool(d) # u
    BY AccountFacts DEF IInv, TypeOK
  <1> HIDE DEF terms
  <1>5. \A a \in Account : a # u => base'[a] >= base[a]
    BY <1>2, <1>3, <1>4, MoveBaseFacts
  <1>6. QED  BY <1>4, <1>5

\* No step that leaves the issuance alone lowers the product of a pool by more
\* than the rounding of a swap.
LEMMA ProductStep ==
  ASSUME IInv, [Next]_vars, NEW d \in Dexes, issuance' = issuance
  PROVE  KeepsBoth(d)
  <1>1. /\ TypeOK /\ base \in [Account -> Balance] /\ target \in [Account -> Balance]
        /\ base[Pool(d)] \in Nat /\ target[Pool(d)] \in Nat
    BY AccountFacts DEF IInv, TypeOK
  <1>2. CASE UNCHANGED <<base, target>>
    <2>1. base'[Pool(d)] >= base[Pool(d)] /\ target'[Pool(d)] >= target[Pool(d)]
      BY <1>1, <1>2
    <2>2. QED  BY <1>1, <1>2, <2>1, RaisedKeepsBoth
  <1>3. ASSUME NEW u \in Users, NEW e \in Dexes, DepositStep(u, e)
        PROVE  KeepsBoth(d)
    <2>1. /\ base' \in [Account -> Balance] /\ target' \in [Account -> Balance]
          /\ target'[Pool(d)] >= target[Pool(d)]
      BY <1>3, DepositFacts
    <2>2. base'[Pool(d)] >= base[Pool(d)]
      BY <1>1, <1>3, DepositRaisesBase
    <2>3. QED  BY <1>1, <2>1, <2>2, RaisedKeepsBoth
  <1>4. ASSUME NEW u \in Users, NEW e \in Dexes, WithdrawStep(u, e)
        PROVE  FALSE
    <2>1. PICK k \in Nat : k > 0 /\ issuance[e] = issuance'[e] + k
      BY <1>4, WithdrawFacts
    <2>2. issuance[e] \in Nat
      BY <1>1, AccountFacts DEF TypeOK
    <2>3. QED  BY <2>1, <2>2
  <1>5. ASSUME NEW u \in Users, NEW to \in Account, NEW n \in Nat,
               PlainTransfer(u, to, n)
        PROVE  KeepsBoth(d)
    BY <1>1, <1>5, TransferFacts, RaisedKeepsBoth
  <1>6. ASSUME NEW u \in Users, NEW e \in Dexes, SwapIn(u, e) \/ SwapOut(u, e)
        PROVE  KeepsBoth(d)
    BY <1>1, <1>6, SwapInKeepsBoth, SwapOutKeepsBoth
  <1>7. CASE Next
    <2>1. CASE \E u \in Users, e \in Dexes : SwapIn(u, e) \/ SwapOut(u, e)
      BY <1>6, <2>1
    <2>2. CASE \E u \in Users : Transfer(u)
      <3>1. PICK u \in Users, to \in Receivers, n \in TransferAmounts :
               PlainTransfer(u, to, n)
        BY <2>2 DEF Transfer, PlainTransfer
      <3>2. to \in Account /\ n \in Nat
        BY AmountFacts, AccountFacts
      <3>3. QED  BY <1>5, <3>1, <3>2
    <2>3. ASSUME NEW u \in Users, NEW e \in Dexes,
                 \/ InitializePool(u, e) \/ Deposit(u, e) \/ Withdraw(u, e)
                 \/ MarkerCall(u, e) \/ SetNonMintable(u, e)
          PROVE  KeepsBoth(d)
      <3>1. CASE Deposit(u, e)
        <4>1. DepositStep(u, e)
          <5>1. /\ \A n \in DepositAmounts : n \in Nat
                /\ \A n \in Limits : n \in Nat
            BY AmountFacts, AccountFacts
          <5>2. QED  BY <3>1, <5>1 DEF Deposit, DepositStep
        <4>2. QED  BY <1>3, <4>1
      <3>2. CASE Withdraw(u, e)
        <4>1. WithdrawStep(u, e)
          <5>1. /\ \A n \in BurnAmounts : n \in Nat
                /\ \A n \in Limits : n \in Nat
            BY AmountFacts, AccountFacts
          <5>2. QED  BY <3>2, <5>1 DEF Withdraw, WithdrawStep
        <4>2. QED  BY <1>4, <4>1
      <3>3. CASE InitializePool(u, e)
        BY <1>2, <3>3 DEF InitializePool
      <3>4. CASE MarkerCall(u, e)
        BY <1>2, <3>4 DEF MarkerCall, TransferMarker, MarkerMint, MarkerBurn
      <3>5. CASE SetNonMintable(u, e)
        BY <1>2, <3>5 DEF SetNonMintable
      <3>6. QED  BY <2>3, <3>1, <3>2, <3>3, <3>4, <3>5
    <2>4. QED  BY <1>7, <2>1, <2>2, <2>3 DEF Next
  <1>8. CASE UNCHANGED vars
    BY <1>2, <1>8 DEF vars
  <1>9. QED  BY <1>7, <1>8

\* SwapKeepsProduct for every instance: a swap of either kind, in either direction
\* and for any receiver, costs the providers at most the rounding of its divisions.
THEOREM SwapsKeepProduct == Spec => SwapKeepsProduct
  <1>1. IInv /\ [Next]_vars
        => [\A d \in Dexes :
              issuance' = issuance /\ base'[Pool(d)] > 0
              => /\ ProductKept(base[Pool(d)], target[Pool(d)],
                                base'[Pool(d)], target'[Pool(d)])
                 /\ ProductKept(target[Pool(d)], base[Pool(d)],
                                target'[Pool(d)], base'[Pool(d)])]_vars
    BY ProductStep DEF KeepsBoth
  <1>2. QED  BY <1>1, InitInv, StepInv, PTL DEF Spec, SwapKeepsProduct
=============================================================================
