---------------------------- MODULE MCAlgorithms ----------------------------
(***************************************************************************)
(* The pure calculations, each over every input in a range.  What a state  *)
(* holds depends on its topic: the rows of an aggregation, or two reserves *)
(* x and y with three more numbers.  For the topic "pool" these are the    *)
(* supply t and the amounts a and b of XykMath; for the topic "split" the  *)
(* price t, the amount a and the reserves b of FastSplit and MockSource;   *)
(* for the topic "path" the second pool's reserves t and b and the desired *)
(* output a of TradePath.  The reserve x grows from state to state.        *)
(***************************************************************************)
EXTENDS Aggregation

CONSTANTS
    FeeNum, FeeDen, MinLiquidity, PriceGuard,   \* as in XykMath
    PoolUnit, MaxReserve, MaxSupply, MaxPoolAmount,
    ReserveMargin, Fee,   \* as in FastSplit and MockSource
    MaxSplitReserve, SplitPrices, SplitAmounts, SplitReserves,
    PathUnit, PathModulus, PathPriceGuard, QuoteFunds, ProbeAmount,   \* as in TradePath
    MaxPathReserve, PathReserves, PathOutputs

\* The pools' fixed point, fee and bounds are as XykMath assumes them; their
\* reserves, supplies and amounts are Balances.
ASSUME PoolAssumption ==
    /\ PoolUnit \in Nat \ {0} /\ Modulus > 2 * PoolUnit
    /\ FeeNum \in Nat /\ FeeDen \in Nat /\ FeeNum < FeeDen
    /\ MinLiquidity \in Nat \ {0} /\ PriceGuard \in Nat \ {0}
    /\ {MaxReserve, MaxSupply, MaxPoolAmount} \subseteq Balance
\* The reserves and amounts of a split are Fixed, its margin and fee parts of one.
ASSUME SplitAssumption ==
    /\ ReserveMargin \in 0 .. PoolUnit /\ Fee \in 0 .. PoolUnit
    /\ MaxSplitReserve \in 0 .. FixedMax
    /\ SplitAmounts \subseteq 1 .. FixedMax
    /\ SplitPrices \cup SplitReserves \subseteq 0 .. FixedMax
\* The paths' fixed point has FeeNum/FeeDen exactly, as 10^18 has 3/1000; their
\* reserves, outputs and funds are Balances.
ASSUME PathAssumption ==
    /\ PathUnit \in Nat \ {0} /\ (FeeNum * PathUnit) % FeeDen = 0
    /\ PathModulus \in Nat /\ PathModulus > 2 * PathUnit /\ PathPriceGuard \in Nat \ {0}
    /\ ProbeAmount \in Nat \ {0}
    /\ {QuoteFunds, MaxPathReserve} \cup PathReserves \cup PathOutputs \subseteq
           0 .. (PathModulus - 1)

VARIABLES topic, x, y, t, a, b

inputs == <<x, y, t, a, b>>

Xyk == INSTANCE XykMath WITH Unit <- PoolUnit
Split == INSTANCE FastSplit WITH Unit <- PoolUnit
Mock == INSTANCE MockSource WITH Unit <- PoolUnit
Path == INSTANCE TradePath WITH
            Unit <- PathUnit, Modulus <- PathModulus, PriceGuard <- PathPriceGuard

AlgorithmsInit ==
    \/ /\ topic = "aggregation"
       /\ Init
       /\ x = 0 /\ y = 0 /\ t = 0 /\ a = 0 /\ b = 0
    \/ /\ topic = "pool"
       /\ x = 1 /\ y \in 1 .. MaxReserve
       /\ t \in 0 .. MaxSupply
       /\ a \in 1 .. MaxPoolAmount /\ b \in 1 .. MaxPoolAmount
       /\ desiredInput = TRUE /\ samples = <<>> /\ rows = <<>>
    \/ /\ topic = "split"
       /\ x = 1 /\ y \in 1 .. MaxSplitReserve
       /\ t \in SplitPrices
       /\ a \in SplitAmounts /\ b \in SplitReserves
       /\ desiredInput = TRUE /\ samples = <<>> /\ rows = <<>>
    \/ /\ topic = "path"
       /\ x = 1 /\ y \in PathReserves
       /\ t \in PathReserves /\ b \in PathReserves
       /\ a \in PathOutputs
       /\ desiredInput = TRUE /\ samples = <<>> /\ rows = <<>>

GrowReserve ==
    /\ x < (CASE topic = "pool" -> MaxReserve
              [] topic = "split" -> MaxSplitReserve
              [] topic = "path" -> MaxPathReserve
              [] OTHER -> 0)
    /\ x' = x + 1
    /\ UNCHANGED <<topic, y, t, a, b, desiredInput, samples, rows>>

AggregateNext ==
    /\ topic = "aggregation"
    /\ NextSource
    /\ UNCHANGED <<topic, x, y, t, a, b>>

AlgorithmsNext == GrowReserve \/ AggregateNext

AlgorithmsSpec == AlgorithmsInit /\ [][AlgorithmsNext]_<<vars, topic, inputs>>

-----------------------------------------------------------------------------
\* find_distribution's distribution is the best there is (Aggregation).
SplitIsOptimal == topic = "aggregation" => DistributionIsOptimal

\* The parts exchange_single sends out stay within the trade (Aggregation).
PartsStayWithinTrade == topic = "aggregation" => TradeIsNotExceeded

\* exchange_single sends no source more than it was sampled for (Aggregation).
PartsWereQuoted == topic = "aggregation" => ExchangeWasQuoted

\* generic_split reports the fees of the samples it chose (Aggregation).
FeesAreOfSamples == topic = "aggregation" => FeeIsConsistent

\* Exact-input swaps in both directions lose at most the division's error.
ExactInput ==
    topic = "pool" => \A byDestination \in BOOLEAN : Xyk!ExactInputLoss(byDestination, x, y, a)

\* Exact-output swaps under-charge by less than one unit of the input, and
\* every one that would take the whole reserve or wraps around is refused.
ExactOutput ==
    topic = "pool" => \A byDestination \in BOOLEAN : Xyk!ExactOutputLoss(byDestination, x, y, a)

\* Deposits stay between the minimums and the desired amounts of both assets.
DepositRange ==
    topic = "pool" =>
        \A am \in 0 .. a, bm \in 0 .. b : Xyk!DepositWithinRange(x, y, a, b, am, bm)

\* Deposits mint at most, and withdrawals pay at most, a proportional share.
Shares ==
    topic = "pool" => /\ Xyk!MarkerIsAtMostShare(a, x, t)
                      /\ \A k \in 1 .. t : Xyk!WithdrawIsAtMostShare(x, k, t)

\* A deposit redeemed at once is not profitable in either asset.
NoRoundTripGain ==
    topic = "pool" => /\ Xyk!RoundTripIsNoGain(x, y, t, a, b)
                      /\ Xyk!RoundTripIsNoGain(y, x, t, b, a)

\* decide_amounts_selling_base_asset asks of the primary market no more
\* collateral than it has (FastSplit).
PrimaryCanPay == topic = "split" => Split!PrimaryCanPay(x, y, t, a, b)

\* decide_amounts_buying_base_asset and its counterpart trade with the secondary
\* market exactly until its price is the primary one (FastSplit).
SplitStopsAtPrimaryPrice ==
    topic = "split" => \A direction \in Split!Directions, byInput \in BOOLEAN :
        Split!SplitStopsAtPrimaryPrice(direction, byInput, x, y, t, a)

\* mock-liquidity-source's quotes are those of a constant product (MockSource).
MockKeepsProduct ==
    topic = "split" => Mock!QuoteKeepsProduct(x, y, a) /\ Mock!PathIsNoGain(x, y, a)

\* A desired output over two swaps is missed by what roundings cost (TradePath).
PathIsShortByRounding ==
    topic = "path" =>
        Path!BuyIsShortByRounding([x1 |-> x, y1 |-> y, x2 |-> t, y2 |-> b], a)
=============================================================================
