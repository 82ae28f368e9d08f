---------------------------- MODULE Aggregation ----------------------------
(***************************************************************************)
(* How liquidity-proxy divides one trade among several liquidity sources:  *)
(* find_distribution of algo.rs, the sampling and generic_split around it, *)
(* and the parts of the trade that exchange_single sends to each source.   *)
(*                                                                         *)
(* Amounts are Fixed.  A table of samples has a row per source; its j-th   *)
(* column is the source's quote for j / NumSamples of the trade.           *)
(***************************************************************************)
EXTENDS FixedWrapper, Sequences, Functions

CONSTANTS
    NumSamples,   \* GetNumSamples: 40
    MaxOutcome,   \* quotes are worth 0 to MaxOutcome, or fail
    MaxSources,   \* how many sources the registry lists
    MaxAmount     \* the trades whose parts are looked at

ASSUME NumSamplesAssumption ==
    NumSamples \in Nat \ {0} /\ NumSamples * Unit <= FixedMax /\ 2 * NumSamples <= Unit
\* No sum of outcomes overflows: find_distribution skips those that do, and may then
\* miss a smaller one that does not.
ASSUME OutcomeAssumption ==
    /\ MaxOutcome \in Nat /\ MaxSources \in Nat \ {0}
    /\ MaxSources * MaxOutcome <= FixedMax
ASSUME TradeAssumption == MaxAmount \in 0 .. FixedMax

-----------------------------------------------------------------------------
(* Sampling.                                                               *)

\* linspace(0, amount, NumSamples, Right): the j-th part of the amount is found
\* by two divisions, the last one is the amount itself.
Linspace(amount) ==
    [j \in 1 .. NumSamples |->
        IF j = NumSamples \/ amount = 0 THEN amount
        ELSE FxDiv(amount, FxDiv(NumSamples * Unit, j * Unit))]

\* sample_liquidity_source: a quote that fails is the worst possible outcome.
Sample(quote, desiredInput) ==
    [j \in 1 .. NumSamples |->
        IF quote[j] = Err THEN (IF desiredInput THEN 0 ELSE FixedMax) ELSE quote[j]]

-----------------------------------------------------------------------------
(* find_distribution.                                                      *)

\* The quotes a source can give: outcomes grow with the part of the trade, until
\* they fail.
Quotes ==
    {q \in [1 .. NumSamples -> (0 .. MaxOutcome) \cup {Err}] :
        \A j, k \in 1 .. NumSamples :
            j < k => q[k] = Err \/ (q[j] # Err /\ q[j] <= q[k])}

Better(v, w, inversed) == IF inversed THEN v < w ELSE v > w

\* Fault: the samples of a source are read one column too far to the left.
SampleToTheLeft(row, k) == IF k = 0 THEN row[1] ELSE row[k]

\* What a source adds when it takes k + 1 parts: columns count from 1 here.
SampleOf(row, k) == row[k + 1]

\* A row of the dynamic program: the best sum of the sources so far for every
\* number of parts, and how many of the parts are left to the sources before.
FirstRow(row) ==
    [sum |-> [j \in 0 .. NumSamples |-> IF j = 0 THEN 0 ELSE row[j]],
     left |-> [j \in 0 .. NumSamples |-> 0]]

\* One round of the outer loop: a sum that overflows is skipped, the sum without
\* the source stays unless another is strictly better, the first of equals wins.
NextRow(prev, row, inversed) ==
    LET with(j, k) == prev[j - k - 1] + SampleOf(row, k)
        options(j) == {k \in 0 .. (j - 1) :
                         /\ with(j, k) <= FixedMax
                         /\ Better(with(j, k), prev[j], inversed)}
        best(j, from) == CHOOSE k \in from : \A m \in from :
                            /\ ~Better(with(j, m), with(j, k), inversed)
                            /\ with(j, m) = with(j, k) => k <= m
        cell == [j \in 0 .. NumSamples |->
                    LET from == options(j)
                        k == best(j, from)
                    IN  IF from = {} THEN [sum |-> prev[j], left |-> j]
                        ELSE [sum |-> with(j, k), left |-> j - k - 1]]
    IN  [sum |-> [j \in 0 .. NumSamples |-> cell[j].sum],
         left |-> [j \in 0 .. NumSamples |-> cell[j].left]]

\* parts[i]: what is left for the sources up to i, from the last source back.
Parts(table) ==
    LET parts[i \in 0 .. Len(table)] ==
            IF i = Len(table) THEN NumSamples ELSE table[i + 1].left[parts[i + 1]]
    IN  parts

\* The parts of each source, their shares of the trade, and the best sum, from
\* the rows of the dynamic program.
FindDistribution(table) ==
    LET parts == Parts(table)
        weight == [i \in 1 .. Len(table) |-> parts[i] - parts[i - 1]]
    IN  [weight |-> weight,
         share |-> [i \in 1 .. Len(table) |->
                       FxDiv(weight[i] * Unit, NumSamples * Unit)],
         best |-> table[Len(table)].sum[NumSamples]]

-----------------------------------------------------------------------------
(* generic_split and exchange_single.                                      *)

\* The number of parts of a share: cmul and rounding to an integer.
PartsOfShare(share) == (2 * share * NumSamples + Unit) \div (2 * Unit)

\* Fault: the fee of the next sample is taken.
FeeOfNextSample(fees, share) == fees[(PartsOfShare(share) % NumSamples) + 1]

\* The fee sampled for as many parts as the source got; none for no part.
FeeOf(fees, share) ==
    LET parts == PartsOfShare(share) IN IF parts = 0 THEN 0 ELSE fees[parts]

TotalFee(fees, share) ==
    LET total[i \in 0 .. Len(share)] ==
            IF i = 0 THEN 0 ELSE FxAdd(total[i - 1], FeeOf(fees[i], share[i]))
    IN  total[Len(share)]

\* The aggregated outcome, or Err when no source can take part.
GenericSplit(table, fees) ==
    LET found == FindDistribution(table)
        fee == TotalFee(fees, found.share)
    IN  IF found.best <= 0 \/ found.best >= FixedMax \/ fee = Err THEN Err
        ELSE [share |-> found.share, amount |-> found.best, fee |-> fee]

\* Fault: every part is rounded up.
PartOfRoundedUp(share, amount) == (share * amount + Unit - 1) \div Unit

\* The amount, desired or limit, that one source's exchange is given.
PartOf(share, amount) == (share * amount) \div Unit

\* The parts of a trade, for the sources with a share.
ExchangeParts(share, amount) ==
    [i \in {s \in DOMAIN share : share[s] > 0} |-> PartOf(share[i], amount)]

-----------------------------------------------------------------------------
(* The aggregation of a list of sources: one step per round of the outer   *)
(* loop of find_distribution.                                              *)

VARIABLES
    desiredInput,   \* the direction of the trade
    samples,        \* sample_data, the sources read so far
    rows            \* accumulator and foreign

vars == <<desiredInput, samples, rows>>

Init ==
    /\ desiredInput \in BOOLEAN
    /\ \E q \in Quotes : samples = <<Sample(q, desiredInput)>>
    /\ rows = <<FirstRow(samples[1])>>

NextSource ==
    /\ Len(samples) < MaxSources
    /\ \E q \in Quotes : samples' = Append(samples, Sample(q, desiredInput))
    /\ rows' = Append(rows, NextRow(rows[Len(rows)].sum, samples'[Len(samples')],
                                    ~desiredInput))
    /\ UNCHANGED desiredInput

Spec == Init /\ [][NextSource]_vars

-----------------------------------------------------------------------------
(* What the algorithm promises.                                            *)

\* Every way to hand the parts of a trade to the sources.
Assignments ==
    {weight \in [1 .. Len(samples) -> 0 .. NumSamples] :
        SumFunction(weight) = NumSamples}

\* What an assignment is worth in a table of outcomes or fees.
Worth(data, weight) ==
    SumFunction([i \in 1 .. Len(data) |-> IF weight[i] = 0 THEN 0
                                          ELSE data[i][weight[i]]])

\* find_distribution hands out all parts, the sum it returns is that of its
\* distribution, and no other way to do so has a larger sum (a smaller one, when
\* the trade is for a desired output): the dynamic program misses nothing.
DistributionIsOptimal ==
    LET found == FindDistribution(rows)
        best == found.best
    IN  /\ found.weight \in Assignments
        /\ Worth(samples, found.weight) = best
        /\ \A weight \in Assignments :
              Worth(samples, weight) <= FixedMax
              => ~Better(Worth(samples, weight), best, ~desiredInput)

\* The parts of an exchange never add up to more than the trade, and what is
\* lost is at most one rounding per source of its share and one of its part.
TradeIsNotExceeded ==
    LET share == FindDistribution(rows).share
    IN  \A amount \in 1 .. MaxAmount :
          LET rest == amount - SumFunction(ExchangeParts(share, amount))
          IN  rest >= 0 /\ Unit * rest <= Len(share) * (Unit + amount)

\* No source is sent more than the largest part it was sampled for: the exchange
\* stays within what the quotes were asked for.
ExchangeWasQuoted ==
    LET found == FindDistribution(rows)
    IN  \A amount \in 1 .. MaxAmount :
          LET parts == ExchangeParts(found.share, amount)
          IN  \A i \in DOMAIN parts :
                 parts[i] <= Linspace(amount)[found.weight[i]]

\* The fees of the samples, all different.
fees == [i \in 1 .. Len(samples) |-> [j \in 1 .. NumSamples |-> i * NumSamples + j]]

\* The fee generic_split reports is the sum of the fees of the chosen samples,
\* although it finds their columns back from the rounded shares.
FeeIsConsistent ==
    LET split == GenericSplit(rows, fees)
    IN  split # Err => split.fee = Worth(fees, FindDistribution(rows).weight)
=============================================================================
