--------------------------- MODULE LiquidityProxy ---------------------------
(***************************************************************************)
(* How pallets/liquidity-proxy carries out an exchange: the path through   *)
(* the base asset, the swaps of that path, and the exchanges with one      *)
(* source after the other that each swap consists of, all of them inside   *)
(* common::with_transaction.                                               *)
(*                                                                         *)
(* Nothing runs between the steps of a dispatched call; they are told      *)
(* apart here because every one may fail, and because each works with what *)
(* the steps before it left.  quote_single asks every source before the    *)
(* first exchange: by the time a source's turn comes its quote is history, *)
(* so an exchange with a source moves any amounts that keep the source's   *)
(* part of the limit, which is what the trait LiquiditySource asks of one  *)
(* (pool-xyk compares the limit with an amount before its fee, see the run *)
(* min_out; bonding-curve-pool has yet to compare it).                     *)
(***************************************************************************)
EXTENDS Integers

CONSTANTS
    Users, NumSources, Transit, Base, Others,   \* as in AtomicExchange
    Unit,            \* the Fixed 1, the shares of a distribution add up to it
    Markets,         \* <<source, asset>>: who can exchange the asset with Base
    Selections,      \* selected_source_types of a call
    Amounts, Limits, \* desired amounts and limits of a SwapAmount
    Endowments,      \* initial balances
    MaxCommitted,    \* cap on the exchanges that commit
    Idle             \* no call is being dispatched

ByInput == "WithDesiredInput"
ByOutput == "WithDesiredOutput"
Variants == {ByInput, ByOutput}
Phases == {"direct", "first", "second"}

Sources == 1 .. NumSources
Assets == {Base} \cup Others
Account == Users \cup Sources \cup {Transit}
Balances == [Account -> [Assets -> Nat]]

ASSUME SourcesAssumption == NumSources \in Nat \ {0} /\ Unit \in Nat \ {0}
ASSUME PartiesAssumption ==
    /\ Transit \notin Users \cup Sources
    /\ Users \cap Sources = {}
    /\ Base \notin Others
ASSUME InputsAssumption ==
    /\ Amounts \cup Limits \subseteq Nat
    /\ MaxCommitted \in Nat
    /\ Markets \subseteq Sources \X Others
    /\ Selections \subseteq SUBSET Sources
    /\ Endowments \subseteq Balances

\* LiquiditySourceFilter, and what with_mode makes of a mode and a selection.
SourceFilters == [selected : SUBSET Sources, forbidSelected : BOOLEAN]
FilterModes == {"Disabled", "AllowSelected", "ForbidSelected"}

WithMode(mode, selected) ==
    [selected |-> IF mode = "Disabled" THEN {} ELSE selected,
     forbidSelected |-> mode # "AllowSelected"]

Filters == {WithMode(mode, selected) : mode \in FilterModes, selected \in Selections}

VARIABLES
    balance,   \* of every account and asset
    call,      \* the exchange being dispatched, and the storage it started from
    leg,       \* exchange_single: the swap of the path that is under way
    committed  \* exchanges committed, up to MaxCommitted

vars == <<balance, call, leg, committed>>

Calls == [sender : Users, receiver : Users, input : Assets, output : Assets,
          variant : Variants, amount : Nat, limit : Nat,
          filter : SourceFilters, phase : Phases, saved : Balances]

Legs == [payer : Account, payee : Account, input : Assets, output : Assets,
         variant : Variants, amount : Nat, limit : Nat,
         left : 0 .. Unit, next : 1 .. (NumSources + 1), paid : Nat, got : Nat]

ASSUME IdleAssumption == Idle \notin Calls

-----------------------------------------------------------------------------
\* quote_single found a distribution: the whole trade is left to share out.
Leg(payer, payee, input, output, variant, amount, limit) ==
    [payer |-> payer, payee |-> payee, input |-> input, output |-> output,
     variant |-> variant, amount |-> amount, limit |-> limit,
     left |-> Unit, next |-> 1, paid |-> 0, got |-> 0]

Direct(input, output) == Base \in {input, output}

\* Fault: the mode of the filter is not looked at.
MatchesSelected(filter, s) == s \in filter.selected

\* matches_index
Matches(filter, s) == (s \in filter.selected) # filter.forbidSelected

\* list_liquidity_sources: of the enabled types, those the filter lets pass and
\* that can exchange the pair.
Listed(s, filter, input, output) ==
    /\ Matches(filter, s)
    /\ \E a \in Others : <<s, a>> \in Markets /\ {input, output} = {Base, a}

\* Fault: a source's part of the trade is rounded up.
PartOfRoundedUp(share, amount) == (share * amount + Unit - 1) \div Unit

\* A source's part of an amount, desired or limit.
PartOf(share, amount) == (share * amount) \div Unit

-----------------------------------------------------------------------------
Init ==
    /\ balance \in Endowments
    /\ call = Idle
    /\ leg = Idle
    /\ committed = 0

\* exchange begins.  For a desired output over two swaps the quotes have been
\* made, the second before the first, and the limit holds for the amount the
\* first one asks for; that amount is what the first swap will sell.
Begin(sender, receiver, input, output, variant, amount, limit, filter) ==
    LET start(phase) ==
          [sender |-> sender, receiver |-> receiver, input |-> input, output |-> output,
           variant |-> variant, amount |-> amount, limit |-> limit,
           filter |-> filter, phase |-> phase, saved |-> balance]
    IN  /\ call = Idle
        /\ committed < MaxCommitted
        /\ input # output
        /\ \/ /\ Direct(input, output)
              /\ call' = start("direct")
              /\ leg' = Leg(sender, receiver, input, output, variant, amount, limit)
           \/ /\ ~Direct(input, output)
              /\ call' = start("first")
              /\ \E quoted \in IF variant = ByInput THEN {amount} ELSE 0 .. limit :
                    leg' = Leg(sender, Transit, input, Base, ByInput, quoted, 0)
        /\ UNCHANGED <<balance, committed>>

\* Fault: a payer's balance is not looked at.
PayerCanPayAnything(paid) == TRUE

\* Currency::transfer fails without the funds.
PayerCanPay(paid) == paid <= balance[leg.payer][leg.input]

\* The next source with a share, in the order of the distribution, exchanges its
\* part: all of a desired amount against at least, or at most, its part of the
\* limit.
SourceExchange(s, share) ==
    LET part == PartOf(share, leg.amount)
        bound == PartOf(share, leg.limit)
    IN  /\ call # Idle
        /\ s >= leg.next
        /\ Listed(s, call.filter, leg.input, leg.output)
        /\ share <= leg.left
        /\ \E paid \in IF leg.variant = ByInput THEN {part} ELSE 0 .. bound,
              got \in IF leg.variant = ByInput THEN bound .. balance[s][leg.output]
                                               ELSE {part} :
              /\ PayerCanPay(paid)
              /\ got <= balance[s][leg.output]
              /\ balance' = [balance EXCEPT ![leg.payer][leg.input] = @ - paid,
                                            ![s][leg.input] = @ + paid,
                                            ![s][leg.output] = @ - got,
                                            ![leg.payee][leg.output] = @ + got]
              /\ leg' = [leg EXCEPT !.left = @ - share, !.next = s + 1,
                                    !.paid = @ + paid, !.got = @ + got]
        /\ UNCHANGED <<call, committed>>

\* Every share of the swap has been exchanged.
LegDone == call # Idle /\ leg.left = 0

\* Fault: the second swap takes all the base asset the technical account has.
SecondAmountOfTransit == balance[Transit][Base]

\* first_swap.amount: what the second swap sells.
SecondAmount == leg.got

\* Fault: the swap that follows the first is a first one again.
PhaseAfterFirstAgain == "first"

PhaseAfterFirst == "second"

SecondSwap ==
    /\ LegDone
    /\ call.phase = "first"
    /\ leg' = Leg(Transit, call.receiver, Base, call.output, ByInput, SecondAmount, 0)
    /\ call' = [call EXCEPT !.phase = PhaseAfterFirst]
    /\ UNCHANGED <<balance, committed>>

\* The check after the second swap of a desired input.
WithinSlippage ==
    call.phase = "second" /\ call.variant = ByInput => leg.got >= call.limit

\* The last swap is done: the transaction commits.
Commit ==
    /\ LegDone
    /\ call.phase # "first"
    /\ WithinSlippage
    /\ call' = Idle /\ leg' = Idle
    /\ committed' = committed + 1
    /\ UNCHANGED balance

StorageAfterFailure == call.saved

\* Some step fails, for a reason of its own: every transaction is rolled back.
Fail ==
    /\ call # Idle
    /\ balance' = StorageAfterFailure
    /\ call' = Idle /\ leg' = Idle
    /\ UNCHANGED committed

Step ==
    \/ \E s \in Sources, share \in 1 .. Unit : SourceExchange(s, share)
    \/ SecondSwap
    \/ Commit
    \/ Fail

Next ==
    \/ \E sender, receiver \in Users, input, output \in Assets, variant \in Variants,
          amount \in Amounts, limit \in Limits, filter \in Filters :
             Begin(sender, receiver, input, output, variant, amount, limit, filter)
    \/ Step

\* The runtime executes a call it has dispatched to its end.
Spec == Init /\ [][Next]_vars /\ WF_vars(Step)

-----------------------------------------------------------------------------
\* A call under way knows where it began, a swap of it who pays whom.
TypeOK ==
    /\ balance \in Balances
    /\ committed \in 0 .. MaxCommitted
    /\ \/ call = Idle /\ leg = Idle
       \/ call \in Calls /\ leg \in Legs

\* What the rest of the chain can see of the balances: a transaction that has not
\* committed shows what it started from.
Visible == IF call = Idle THEN balance ELSE call.saved

Atomic == INSTANCE AtomicExchange WITH balance <- Visible

\* exchange is all or nothing and keeps its limits, although it goes through
\* sources that are asked one by one, an account that all traders share, and
\* steps each of which may fail: it implements AtomicExchange.
ExchangeIsAtomic == Atomic!Spec

\* The technical account never spends, on one trade, base asset that another
\* trade has left in it (exchange, the second exchange_single of a path).
TransitKeepsWhatItHad ==
    call # Idle => \A a \in Assets : balance[Transit][a] >= call.saved[Transit][a]

\* A source that the caller forbids, or leaves out of those it allows, takes no
\* part in either swap: it neither gives nor takes anything.
SelectionIsRespected ==
    call # Idle => \A s \in Sources :
        (s \in call.filter.selected <=> call.filter.forbidSelected)
        => balance[s] = call.saved[s]

\* An exchange ends, committed or rolled back, and the next one can be
\* dispatched: no path of swaps goes on for ever.
ExchangeEnds == call # Idle ~> call = Idle
=============================================================================
