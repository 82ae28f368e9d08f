------------------------------ MODULE PoolXYK ------------------------------
(***************************************************************************)
(* The constant-product pools of pallets/pool-xyk over one trading pair    *)
(* (the base asset XOR and one target asset), one pool per DEX.            *)
(*                                                                         *)
(* Extrinsics run one at a time and each of the pallet's is atomic: the    *)
(* transfers of an action sit in one with_transaction, so a call either    *)
(* makes every change or none and a refused call is no step at all.  What  *)
(* interleaves is the order of the callers' extrinsics: any account may    *)
(* act between the moment a caller chose its amounts and limits and the    *)
(* moment its call runs, so amounts and limits are arbitrary here.         *)
(*                                                                         *)
(* The base asset lives in pallet_balances: a transfer that would leave    *)
(* the receiver below the existential deposit is refused, and a sender     *)
(* left below it loses the rest as dust.  The target asset and the marker  *)
(* (liquidity) tokens live in orml_tokens, whose existential deposit is 0. *)
(***************************************************************************)
EXTENDS XykMath, TokenUnits, FiniteSets

CONSTANTS
    Users,            \* accounts that sign extrinsics
    Dexes,            \* the public DEXs, all over the same base asset
    NoOwner,          \* a marker asset that is not registered has no owner
    ED,               \* ExistentialDeposit of the base asset: 500
    InitialBase,      \* endowment of every user
    InitialTarget,
    DepositAmounts,   \* desired amounts of deposits
    SwapAmounts,      \* exact amounts of swaps
    Receivers,        \* accounts that swaps and plain transfers pay
    Limits,           \* minimum outputs of swaps and minimums of deposits
    MaxInputs,        \* maximum inputs of exact-output swaps
    BurnAmounts,      \* marker tokens handed in for withdrawal
    TransferAmounts,  \* plain transfers of base and target, donations included
    MarkerAmounts,    \* marker tokens transferred, minted or burned outside the pool
    MaxMarker         \* cap on the issuance MarkerMint may reach

ASSUME EDAssumption == ED \in Nat \ {0}
ASSUME AmountsAssumption ==
    /\ DepositAmounts \cup SwapAmounts \cup Limits \cup MaxInputs \subseteq Balance
    /\ BurnAmounts \cup TransferAmounts \cup MarkerAmounts \subseteq Balance
ASSUME EndowmentAssumption ==
    /\ InitialBase \in Balance /\ InitialBase >= ED
    /\ InitialTarget \in Balance

\* Technical accounts of a DEX's pool: reserves and collected fees.
Pool(d) == <<"pool", d>>
FeeAccount(d) == <<"fee", d>>
Account == Users \cup {Pool(d) : d \in Dexes} \cup {FeeAccount(d) : d \in Dexes}

ASSUME AccountAssumption ==
    Users \cap ({Pool(d) : d \in Dexes} \cup {FeeAccount(d) : d \in Dexes}) = {}
ASSUME ReceiversAssumption == Receivers \subseteq Account
ASSUME OwnerAssumption == NoOwner \notin Users

VARIABLES
    base,       \* free balance of the base asset
    target,     \* free balance of the target asset
    marker,     \* per pool, the users' liquidity tokens
    issuance,   \* per pool, total issuance of the liquidity token
    mintable,   \* per pool, is_mintable of the liquidity token
    owner,      \* per pool, who initialised it and so owns its marker asset
    reserves    \* the Reserves entry of the pair: its key has no DEX

vars == <<base, target, marker, issuance, mintable, owner, reserves>>

registered == {d \in Dexes : owner[d] # NoOwner}

-----------------------------------------------------------------------------
(* Transfers of the two currencies.                                        *)

\* What a pallet_balances account keeps: dust is removed.
KeepAlive(b) == IF b < ED THEN 0 ELSE b

CanMoveBase(bal, from, to, amount) ==
    \/ amount = 0 \/ from = to
    \/ /\ amount <= bal[from]
       /\ bal[to] + amount \in Balance
       /\ bal[to] + amount >= ED

MoveBase(bal, from, to, amount) ==
    IF amount = 0 \/ from = to THEN bal
    ELSE [bal EXCEPT ![from] = KeepAlive(bal[from] - amount),
                     ![to] = bal[to] + amount]

CanMoveTarget(bal, from, to, amount) ==
    \/ amount = 0 \/ from = to
    \/ amount <= bal[from] /\ bal[to] + amount \in Balance

MoveTarget(bal, from, to, amount) ==
    IF amount = 0 \/ from = to THEN bal
    ELSE [bal EXCEPT ![from] = bal[from] - amount, ![to] = bal[to] + amount]

\* orml_tokens deposit and withdraw of a pool's marker asset.
CanMint(d, to, amount) ==
    /\ mintable[d]
    /\ issuance[d] + amount \in Balance
    /\ marker[d][to] + amount \in Balance

Mint(d, to, amount) ==
    /\ marker' = [marker EXCEPT ![d][to] = @ + amount]
    /\ issuance' = [issuance EXCEPT ![d] = @ + amount]

\* Fault: the amount is compared with the issuance, not with the holder's tokens.
CanBurnOfIssuance(d, from, amount) == amount <= issuance[d]

CanBurn(d, from, amount) == amount <= marker[d][from]

\* Fault: the issuance is not lowered.
BurnWithoutIssuance(d, from, amount) ==
    /\ marker' = [marker EXCEPT ![d][from] = @ - amount]
    /\ UNCHANGED issuance

Burn(d, from, amount) ==
    /\ marker' = [marker EXCEPT ![d][from] = @ - amount]
    /\ issuance' = [issuance EXCEPT ![d] = @ - amount]

\* Fault: the balances are read before the transfers.
UpdateReservesStale(d) ==
    reserves' = [base |-> base[Pool(d)], target |-> target[Pool(d)]]

\* update_reserves: both balances of the pool account, after the transfers.
UpdateReserves(d) ==
    reserves' = [base |-> base'[Pool(d)], target |-> target'[Pool(d)]]

-----------------------------------------------------------------------------
Init ==
    /\ base = [a \in Account |-> IF a \in Users THEN InitialBase ELSE 0]
    /\ target = [a \in Account |-> IF a \in Users THEN InitialTarget ELSE 0]
    /\ marker = [d \in Dexes |-> [u \in Users |-> 0]]
    /\ issuance = [d \in Dexes |-> 0]
    /\ mintable = [d \in Dexes |-> FALSE]
    /\ owner = [d \in Dexes |-> NoOwner]
    /\ reserves = [base |-> 0, target |-> 0]

\* initialize_pool: the caller becomes the owner of the new marker asset, and
\* the pool's technical account may mint and burn it.
InitializePool(u, d) ==
    /\ d \notin registered
    /\ owner' = [owner EXCEPT ![d] = u]
    /\ mintable' = [mintable EXCEPT ![d] = TRUE]
    /\ UNCHANGED <<base, target, marker, issuance, reserves>>

PoolIsEmpty(d) == base[Pool(d)] = 0 /\ target[Pool(d)] = 0
PoolIsUsable(d) == base[Pool(d)] > 0 /\ target[Pool(d)] > 0

\* The amounts a deposit settles on and the marker tokens it mints, or Err.
\* The first deposit subtracts MIN_LIQUIDITY from its k without a check.
FirstDepositTerms(k, baseDesired, targetDesired) ==
    IF k = Err THEN Err
    ELSE IF MinLiquidity > k /\ k < MinLiquidity - k THEN Err
    ELSE [base |-> baseDesired, target |-> targetDesired,
          minted |-> WrapSub(k, MinLiquidity)]

\* The terms of a calculation whose first asset is the base asset or is not.
BaseFirstTerms(calc) ==
    IF calc = Err THEN Err
    ELSE [base |-> calc.a, target |-> calc.b, minted |-> calc.marker]

TargetFirstTerms(calc) ==
    IF calc = Err THEN Err
    ELSE [base |-> calc.b, target |-> calc.a, minted |-> calc.marker]

LaterDepositTerms(k, terms) ==
    IF k = Err \/ terms = Err THEN Err
    ELSE IF MinLiquidity > k /\ terms.minted < MinLiquidity - k THEN Err
    ELSE terms

DepositTerms(d, baseDesired, targetDesired, baseMin, targetMin, baseFirst) ==
    LET rb == base[Pool(d)]
        rt == target[Pool(d)]
        k == IF PoolIsEmpty(d) THEN PoolK(baseDesired, targetDesired)
                               ELSE PoolK(rb, rt)
    IN  IF PoolIsEmpty(d) THEN FirstDepositTerms(k, baseDesired, targetDesired)
        ELSE LaterDepositTerms(k,
                IF baseFirst
                THEN BaseFirstTerms(CalcDepositLiquidity(issuance[d], rb, rt,
                         baseDesired, targetDesired, baseMin, targetMin))
                ELSE TargetFirstTerms(CalcDepositLiquidity(issuance[d], rt, rb,
                         targetDesired, baseDesired, targetMin, baseMin)))

\* reserve() of a deposit.
ReserveDeposit(u, d, terms) ==
    /\ CanMoveBase(base, u, Pool(d), terms.base)
    /\ base' = MoveBase(base, u, Pool(d), terms.base)
    /\ CanMoveTarget(target, u, Pool(d), terms.target)
    /\ target' = MoveTarget(target, u, Pool(d), terms.target)
    /\ CanMint(d, u, terms.minted)
    /\ Mint(d, u, terms.minted)
    /\ UpdateReserves(d)
    /\ UNCHANGED <<mintable, owner>>

DepositLiquidity(u, d, baseDesired, targetDesired, baseMin, targetMin, baseFirst) ==
    LET terms == DepositTerms(d, baseDesired, targetDesired, baseMin, targetMin,
                              baseFirst)
    IN  /\ d \in registered
        /\ baseDesired >= baseMin /\ targetDesired >= targetMin
        /\ base[u] > 0 /\ target[u] > 0
        /\ PoolIsEmpty(d) \/ PoolIsUsable(d)
        /\ terms # Err
        /\ base[u] >= terms.base /\ target[u] >= terms.target
        /\ ReserveDeposit(u, d, terms)

\* reserve() of a withdrawal.
ReserveWithdrawal(u, d, baseOut, targetOut, k) ==
    /\ CanMoveBase(base, Pool(d), u, baseOut)
    /\ base' = MoveBase(base, Pool(d), u, baseOut)
    /\ CanMoveTarget(target, Pool(d), u, targetOut)
    /\ target' = MoveTarget(target, Pool(d), u, targetOut)
    /\ CanBurn(d, u, k)
    /\ Burn(d, u, k)
    /\ UpdateReserves(d)
    /\ UNCHANGED <<mintable, owner>>

WithdrawLiquidity(u, d, k, baseMin, targetMin) ==
    LET baseOut == WithdrawShare(base[Pool(d)], k, issuance[d])
        targetOut == WithdrawShare(target[Pool(d)], k, issuance[d])
    IN  /\ d \in registered
        /\ marker[d][u] > 0
        /\ PoolIsUsable(d)
        /\ k > 0
        /\ baseOut # Err /\ targetOut # Err
        /\ baseOut >= baseMin /\ targetOut >= targetMin
        /\ ReserveWithdrawal(u, d, baseOut, targetOut, k)

-----------------------------------------------------------------------------
(* Swaps.  Selling the base asset takes the fee from the input, selling    *)
(* the target asset takes it from the output: fees are always base.        *)

Source(sellBase) == IF sellBase THEN base ELSE target
Destination(sellBase) == IF sellBase THEN target ELSE base

\* The checks of PairSwapAction::prepare_and_validate on settled amounts.
SwapIsValid(u, d, sellBase, sourceAmount, destAmount) ==
    LET x == Source(sellBase)[Pool(d)]
        y == Destination(sellBase)[Pool(d)]
    IN  /\ Source(sellBase)[u] >= sourceAmount
        /\ y >= destAmount
        /\ PriceGuardHolds(x, y, sourceAmount, destAmount)

\* reserve() with the fee taken from the source.
SellBase(u, receiver, d, sourceAmount, destAmount, fee) ==
    LET paid == MoveBase(base, u, Pool(d), sourceAmount - fee)
    IN  /\ CanMoveBase(base, u, Pool(d), sourceAmount - fee)
        /\ CanMoveBase(paid, u, FeeAccount(d), fee)
        /\ base' = MoveBase(paid, u, FeeAccount(d), fee)
        /\ CanMoveTarget(target, Pool(d), receiver, destAmount)
        /\ target' = MoveTarget(target, Pool(d), receiver, destAmount)

\* reserve() with the fee taken from the destination.
SellTarget(u, receiver, d, sourceAmount, destAmount, fee) ==
    LET fees == MoveBase(base, Pool(d), FeeAccount(d), fee)
        net == WrapSub(destAmount, fee)
    IN  /\ CanMoveTarget(target, u, Pool(d), sourceAmount)
        /\ target' = MoveTarget(target, u, Pool(d), sourceAmount)
        /\ CanMoveBase(base, Pool(d), FeeAccount(d), fee)
        /\ CanMoveBase(fees, Pool(d), receiver, net)
        /\ base' = MoveBase(fees, Pool(d), receiver, net)

Swap(u, receiver, d, sellBase, sourceAmount, destAmount, fee) ==
    /\ SwapIsValid(u, d, sellBase, sourceAmount, destAmount)
    /\ IF sellBase
       THEN SellBase(u, receiver, d, sourceAmount, destAmount, fee)
       ELSE SellTarget(u, receiver, d, sourceAmount, destAmount, fee)
    /\ UpdateReserves(d)
    /\ UNCHANGED <<marker, issuance, mintable, owner>>

SwapExactInput(u, receiver, d, sellBase, amountIn, minOut) ==
    LET calc == CalcOutputForExactInput(~sellBase, Source(sellBase)[Pool(d)],
                    Destination(sellBase)[Pool(d)], amountIn)
    IN  /\ d \in registered
        /\ Source(sellBase)[u] > 0
        /\ PoolIsUsable(d)
        /\ amountIn > 0
        /\ calc # Err
        /\ calc.amount >= minOut
        /\ Swap(u, receiver, d, sellBase, amountIn, calc.amount, calc.fee)

SwapExactOutput(u, receiver, d, sellBase, amountOut, maxIn) ==
    LET calc == CalcInputForExactOutput(~sellBase, Source(sellBase)[Pool(d)],
                    Destination(sellBase)[Pool(d)], amountOut)
    IN  /\ d \in registered
        /\ Source(sellBase)[u] > 0
        /\ PoolIsUsable(d)
        /\ amountOut > 0
        /\ calc # Err
        /\ calc.amount <= maxIn
        /\ Swap(u, receiver, d, sellBase, calc.amount, amountOut, calc.fee)

-----------------------------------------------------------------------------
(* Extrinsics of pallets/assets that move what a pool relies on.           *)

\* assets::transfer of the base or target asset, to any account.
TransferBase(u, to, amount) ==
    /\ CanMoveBase(base, u, to, amount)
    /\ base' = MoveBase(base, u, to, amount)
    /\ UNCHANGED <<target, marker, issuance, mintable, owner, reserves>>

TransferTarget(u, to, amount) ==
    /\ CanMoveTarget(target, u, to, amount)
    /\ target' = MoveTarget(target, u, to, amount)
    /\ UNCHANGED <<base, marker, issuance, mintable, owner, reserves>>

TransferMarker(u, to, d, amount) ==
    /\ CanMoveTarget(marker[d], u, to, amount)
    /\ marker' = [marker EXCEPT ![d] = MoveTarget(marker[d], u, to, amount)]
    /\ UNCHANGED <<base, target, issuance, mintable, owner, reserves>>

\* assets::mint and assets::burn: register_asset_id gave the owner of the
\* marker asset MINT on it; every holder may burn its own.
MarkerMint(u, to, d, amount) ==
    /\ owner[d] = u
    /\ CanMint(d, to, amount)
    /\ issuance[d] + amount <= MaxMarker
    /\ Mint(d, to, amount)
    /\ UNCHANGED <<base, target, mintable, owner, reserves>>

MarkerBurn(u, d, amount) ==
    /\ CanBurn(d, u, amount)
    /\ Burn(d, u, amount)
    /\ UNCHANGED <<base, target, mintable, owner, reserves>>

\* assets::set_non_mintable, by the owner of the marker asset.
SetNonMintable(u, d) ==
    /\ owner[d] = u
    /\ mintable[d]
    /\ mintable' = [mintable EXCEPT ![d] = FALSE]
    /\ UNCHANGED <<base, target, marker, issuance, owner, reserves>>

-----------------------------------------------------------------------------
Deposit(u, d) ==
    \E bd, td \in DepositAmounts, bm, tm \in Limits, baseFirst \in BOOLEAN :
        DepositLiquidity(u, d, bd, td, bm, tm, baseFirst)

Withdraw(u, d) ==
    \E k \in BurnAmounts, bm, tm \in Limits : WithdrawLiquidity(u, d, k, bm, tm)

SwapIn(u, d) ==
    \E r \in Receivers, sellBase \in BOOLEAN, amount \in SwapAmounts, lim \in Limits :
        SwapExactInput(u, r, d, sellBase, amount, lim)

SwapOut(u, d) ==
    \E r \in Receivers, sellBase \in BOOLEAN, amount \in SwapAmounts, lim \in MaxInputs :
        SwapExactOutput(u, r, d, sellBase, amount, lim)

Transfer(u) ==
    \E to \in Receivers, amount \in TransferAmounts :
        TransferBase(u, to, amount) \/ TransferTarget(u, to, amount)

MarkerCall(u, d) ==
    \E amount \in MarkerAmounts :
        \/ \E v \in Users : TransferMarker(u, v, d, amount)
        \/ \E v \in Users : MarkerMint(u, v, d, amount)
        \/ MarkerBurn(u, d, amount)

Next ==
    \/ \E u \in Users, d \in Dexes :
          \/ InitializePool(u, d)
          \/ Deposit(u, d)
          \/ Withdraw(u, d)
          \/ SwapIn(u, d)
          \/ SwapOut(u, d)
          \/ MarkerCall(u, d)
          \/ SetNonMintable(u, d)
    \/ \E u \in Users : Transfer(u)

Spec == Init /\ [][Next]_vars

-----------------------------------------------------------------------------
(* Properties.                                                             *)

\* Every balance fits its type and only registered pools have marker tokens:
\* no credit or unchecked subtraction of a call leaves u128 or invents a
\* liquidity token for a pool nobody initialised.
TypeOK ==
    /\ base \in [Account -> Balance]
    /\ target \in [Account -> Balance]
    /\ marker \in [Dexes -> [Users -> Balance]]
    /\ issuance \in [Dexes -> Balance]
    /\ mintable \in [Dexes -> BOOLEAN]
    /\ owner \in [Dexes -> Users \cup {NoOwner}]
    /\ reserves \in [base : Balance, target : Balance]
    /\ \A d \in Dexes \ registered : issuance[d] = 0

\* The issuance by which every share is computed counts exactly the tokens users
\* hold, whether the pool or the marker asset's owner minted them: no transfer,
\* mint or burn changes one without the other.
IssuanceIsBacked ==
    \A d \in Dexes :
        /\ IsFiniteSet(UnitsOf(marker[d]))
        /\ Cardinality(UnitsOf(marker[d])) = issuance[d]

\* The cached reserves never promise more than the pool's account holds: only
\* plain transfers to the account, which do not call update_reserves, can make
\* the two differ (one DEX; two DEXs share the entry).
CacheNeverOverstates ==
    \A d \in Dexes : Dexes = {d} =>
        /\ reserves.base <= base[Pool(d)]
        /\ reserves.target <= target[Pool(d)]

\* No order of calls takes the last target token out of a pool: the price guard
\* of swaps and the MIN_LIQUIDITY added to the issuance in withdrawals both hold
\* something back.
NeverDrained ==
    [][\A d \in Dexes : target[Pool(d)] > 0 => target'[Pool(d)] > 0]_vars

PoolChanges(d) ==
    \/ base'[Pool(d)] # base[Pool(d)]
    \/ target'[Pool(d)] # target[Pool(d)]

\* What r reserves say about one of t tokens does not fall when r2 and t2
\* replace them, but for the rounding of reserve / supply in a deposit.
ShareKept(r, t, r2, t2) ==
    r2 * (t + MinLiquidity) + (t2 * t) \div Unit + 1 >= r * (t2 + MinLiquidity)

\* Deposits and withdrawals never dilute the other providers: the reserves
\* behind a marker token do not fall when tokens are minted or burned by a pool.
\* The base reserve is left out when it was reaped as dust.
SharesNeverDiluted ==
    [][\A d \in Dexes :
          issuance'[d] # issuance[d] /\ PoolChanges(d)
          => /\ ShareKept(target[Pool(d)], issuance[d],
                          target'[Pool(d)], issuance'[d])
             /\ base'[Pool(d)] > 0 =>
                   ShareKept(base[Pool(d)], issuance[d],
                             base'[Pool(d)], issuance'[d])]_vars

\* The most a swap that takes x to x2 and y down to y2 may round away of the
\* product x * y: the division by the price loses y * (y - y2) / Unit when the
\* input is exact; an exact output under-charges by less than one unit of the
\* input and the rounding of the fee.
SwapRounding(x, y, x2, y2) ==
    (y * (y - y2)) \div Unit + 1 + y2 + ((x2 - x) * FeeDen) \div (FeeDen - FeeNum)

ProductKept(x, y, x2, y2) ==
    y2 < y => x2 * y2 + SwapRounding(x, y, x2, y2) >= x * y

\* A swap never lowers the product of the reserves by more than its divisions
\* round away, whoever trades, whoever receives and in whichever direction; a
\* base reserve reaped as dust is the only other way to lose value.
SwapKeepsProduct ==
    [][\A d \in Dexes :
          issuance' = issuance /\ base'[Pool(d)] > 0
          => /\ ProductKept(base[Pool(d)], target[Pool(d)],
                            base'[Pool(d)], target'[Pool(d)])
             /\ ProductKept(target[Pool(d)], base[Pool(d)],
                            target'[Pool(d)], base'[Pool(d)])]_vars

\* A pool with reserves but no liquidity tokens.
Stranded(d) == issuance[d] = 0 /\ PoolIsUsable(d)

\* Such a pool (its first deposit was worth exactly MIN_LIQUIDITY, or every token
\* was redeemed) accepts no deposit again: the deposit formula divides by the
\* issuance.  Only the owner of the marker asset can revive it, by minting.
StrandedTakesNoDeposit ==
    [][\A d \in Dexes :
          Stranded(d) /\ issuance'[d] # 0 => UNCHANGED <<base, target>>]_vars

-----------------------------------------------------------------------------
(* Statements of the repository's comments and tests that the code above   *)
(* does not meet; each has a run that shows how.                           *)

\* "rounding proportions such that user does not withdraw more thus breaking
\* the pool" (pool-xyk/src/tests.rs): redeeming tokens leaves both reserves.
WithdrawalNeverBreaksPool ==
    [][\A d \in Dexes :
          PoolIsUsable(d) /\ issuance'[d] < issuance[d] => PoolIsUsable(d)']_vars

\* "Previous checks guarantee that unwrap and subtraction are safe."
\* (action_deposit_liquidity.rs): a first deposit mints pool_k - MIN_LIQUIDITY.
FirstDepositSubtractionIsSafe ==
    [][\A d \in Dexes :
          PoolIsEmpty(d) /\ PoolIsUsable(d)' /\ issuance'[d] # issuance[d]
          => issuance'[d] - issuance[d] + MinLiquidity =
                PoolK(base'[Pool(d)], target'[Pool(d)])]_vars

\* "limit: Either maximum input amount or minimum output amount tolerated for
\* successful swap" (dex-api/src/lib.rs): the receiver of an exact-input swap
\* gets at least the limit.
MinOutIsHonoured ==
    [][\A u \in Users, d \in Dexes, sellBase \in BOOLEAN,
          amount \in SwapAmounts, minOut \in Limits :
          SwapExactInput(u, u, d, sellBase, amount, minOut)
          => Destination(sellBase)'[u] >= Destination(sellBase)[u] + minOut]_vars
=============================================================================
