------------------------ MODULE LiquidityProxyProofs ------------------------
(***************************************************************************)
(* Theorems about LiquidityProxy for any users, sources, shares, amounts   *)
(* and limits: its types, that the technical account is never spent, and   *)
(* that every step of an exchange is a step of AtomicExchange or is not    *)
(* seen outside its transaction.                                           *)
(***************************************************************************)
EXTENDS LiquidityProxy, TLAPS

-----------------------------------------------------------------------------
(* Parts of a trade.                                                       *)

\* The floored division by which a part is taken of an amount.
LEMMA DivBounds ==
    ASSUME NEW x \in Nat, NEW y \in Nat \ {0}
    PROVE  /\ x \div y \in Nat
           /\ (x \div y) * y <= x
           /\ x <= (x \div y) * y + (y - 1)
  BY SMT

\* A common factor does not change which of two numbers is the smaller one.
LEMMA CancelFactor ==
    ASSUME NEW x \in Int, NEW y \in Int, NEW z \in Nat \ {0}, x * z < y * z
    PROVE  x < y
  BY SMT

\* A part, times the Unit, is the share of the amount but for one rounding.
LEMMA PartBounds ==
    ASSUME NEW share \in Nat, NEW amount \in Nat
    PROVE  /\ PartOf(share, amount) \in Nat
           /\ PartOf(share, amount) * Unit <= share * amount
           /\ share * amount <= PartOf(share, amount) * Unit + (Unit - 1)
  <1> DEFINE x == share * amount
  <1>1. x \in Nat
    BY SMT
  <1>2. PartOf(share, amount) = x \div Unit
    BY DEF PartOf
  <1> HIDE DEF x
  <1>3. /\ x \div Unit \in Nat
        /\ (x \div Unit) * Unit <= x
        /\ x <= (x \div Unit) * Unit + (Unit - 1)
    BY <1>1, SourcesAssumption, DivBounds
  <1> QED
    BY <1>2, <1>3 DEF x

\* The total is at most the shares that are done, of the amount.
AtMost(total, done, amount) == total * Unit <= done * amount

\* The total is at least that, but for a rounding of each of n parts.
AtLeast(total, done, amount, n) == done * amount <= total * Unit + n * (Unit - 1)

\* Both bounds hold when nothing is done.
LEMMA NothingYet ==
    ASSUME NEW amount \in Nat
    PROVE  AtMost(0, 0, amount) /\ AtLeast(0, 0, amount, 0)
  BY SourcesAssumption DEF AtMost, AtLeast

\* One more part, or less than it, keeps the total below the shares done.
LEMMA AddAtMost ==
    ASSUME NEW total \in Nat, NEW done \in Nat, NEW amount \in Nat,
           NEW share \in Nat, NEW more \in Nat,
           AtMost(total, done, amount), more <= PartOf(share, amount)
    PROVE  AtMost(total + more, done + share, amount)
  <1>1. /\ PartOf(share, amount) \in Nat
        /\ PartOf(share, amount) * Unit <= share * amount
    BY PartBounds
  <1>2. more * Unit <= PartOf(share, amount) * Unit
    BY <1>1, SourcesAssumption, SMT
  <1>3. /\ (total + more) * Unit = total * Unit + more * Unit
        /\ (done + share) * amount = done * amount + share * amount
    BY SourcesAssumption, SMT
  <1> DEFINE tu == total * Unit
             mu == more * Unit
             pu == PartOf(share, amount) * Unit
             da == done * amount
             sa == share * amount
  <1>4. tu \in Int /\ mu \in Int /\ pu \in Int /\ da \in Int /\ sa \in Int
    BY <1>1, SourcesAssumption, SMT
  <1>5. tu <= da
    BY DEF AtMost
  <1> HIDE DEF tu, mu, pu, da, sa
  <1>6. tu + mu <= da + sa
    BY <1>1, <1>2, <1>4, <1>5 DEF mu, pu, sa
  <1> QED
    BY <1>3, <1>6 DEF AtMost, tu, mu, da, sa

\* One more part, or more than it, and one more rounding allowed for.
LEMMA AddAtLeast ==
    ASSUME NEW total \in Nat, NEW done \in Nat, NEW amount \in Nat,
           NEW share \in Nat, NEW more \in Nat, NEW n \in Nat, NEW m \in Nat,
           AtLeast(total, done, amount, n), more >= PartOf(share, amount), m > n
    PROVE  AtLeast(total + more, done + share, amount, m)
  <1>1. /\ PartOf(share, amount) \in Nat
        /\ share * amount <= PartOf(share, amount) * Unit + (Unit - 1)
    BY PartBounds
  <1>2. PartOf(share, amount) * Unit <= more * Unit
    BY <1>1, SourcesAssumption, SMT
  <1>3. /\ (total + more) * Unit = total * Unit + more * Unit
        /\ (done + share) * amount = done * amount + share * amount
    BY SourcesAssumption, SMT
  <1>4. n * (Unit - 1) + (Unit - 1) <= m * (Unit - 1)
    BY SourcesAssumption, SMT
  <1> DEFINE tu == total * Unit
             mu == more * Unit
             pu == PartOf(share, amount) * Unit
             da == done * amount
             sa == share * amount
             nu == n * (Unit - 1)
             nm == m * (Unit - 1)
  <1>5. /\ tu \in Int /\ mu \in Int /\ pu \in Int /\ da \in Int /\ sa \in Int
        /\ nu \in Int /\ nm \in Int /\ Unit \in Int
    BY <1>1, SourcesAssumption, SMT
  <1>6. /\ da <= tu + nu
        /\ sa <= pu + (Unit - 1)
        /\ pu <= mu
        /\ nu + (Unit - 1) <= nm
    BY <1>1, <1>2, <1>4 DEF AtLeast
  <1> HIDE DEF tu, mu, pu, da, sa, nu, nm
  <1>7. da + sa <= tu + mu + nm
    BY <1>5, <1>6
  <1> QED
    BY <1>3, <1>7 DEF AtLeast, tu, mu, da, sa, nm

\* However much is done, the total does not exceed the amount.
LEMMA NeverMore ==
    ASSUME NEW total \in Nat, NEW done \in 0 .. Unit, NEW amount \in Nat,
           AtMost(total, done, amount)
    PROVE  total <= amount
  <1>1. done * amount <= Unit * amount
    BY SourcesAssumption, SMT
  <1>2. Unit * amount = amount * Unit
    BY SourcesAssumption, SMT
  <1>3. total * Unit <= amount * Unit
    <2> DEFINE tu == total * Unit
               da == done * amount
               au == amount * Unit
    <2>1. tu \in Int /\ da \in Int /\ au \in Int
      BY SourcesAssumption, SMT
    <2>2. tu <= da /\ da <= au
      BY <1>1, <1>2 DEF AtMost
    <2> HIDE DEF tu, da, au
    <2>3. tu <= au
      BY <2>1, <2>2
    <2> QED
      BY <2>3 DEF tu, au
  <1>4. CASE amount < total
    <2>1. amount * Unit < total * Unit
      BY <1>4, SourcesAssumption, SMT
    <2> DEFINE tu == total * Unit
               au == amount * Unit
    <2>2. tu \in Int /\ au \in Int
      BY SourcesAssumption, SMT
    <2>3. tu <= au /\ au < tu
      BY <1>3, <2>1
    <2> HIDE DEF tu, au
    <2> QED
      BY <2>2, <2>3
  <1> QED
    BY <1>4

\* Everything is done: what is missing is one rounding for every source but one.
LEMMA WholeAtLeast ==
    ASSUME NEW total \in Nat, NEW amount \in Nat, NEW n \in 0 .. NumSources,
           AtLeast(total, Unit, amount, n)
    PROVE  total >= amount - (NumSources - 1)
  <1>1. n * (Unit - 1) <= NumSources * (Unit - 1)
    BY SourcesAssumption, SMT
  <1>2. NumSources * (Unit - 1) < NumSources * Unit
    BY SourcesAssumption, SMT
  <1>3. /\ Unit * amount = amount * Unit
        /\ (amount - NumSources) * Unit = amount * Unit - NumSources * Unit
    BY SourcesAssumption, SMT
  <1> DEFINE tu == total * Unit
             au == amount * Unit
             nu == n * (Unit - 1)
             nn == NumSources * (Unit - 1)
             su == NumSources * Unit
  <1>4. tu \in Int /\ au \in Int /\ nu \in Int /\ nn \in Int /\ su \in Int
    BY SourcesAssumption, SMT
  <1>5. au <= tu + nu /\ nu <= nn /\ nn < su
    BY <1>1, <1>2, <1>3 DEF AtLeast
  <1> HIDE DEF tu, au, nu, nn, su
  <1>6. au - su < tu
    BY <1>4, <1>5
  <1>7. (amount - NumSources) * Unit < total * Unit
    BY <1>3, <1>6 DEF tu, au, su
  <1>8. amount - NumSources < total
    BY <1>7, CancelFactor, SourcesAssumption
  <1> QED
    BY <1>8, SourcesAssumption

-----------------------------------------------------------------------------
(* What one exchange with a source does to the balances.                   *)

Parties == Users \cup {Transit}

\* The users and the technical account are the accounts that are no source.
LEMMA PartiesFacts ==
    /\ Account = Parties \cup Sources
    /\ Parties \cap Sources = {}
    /\ \A u \in Users : u \in Parties /\ u \in Account /\ u # Transit
    /\ Transit \in Parties /\ Transit \in Account
    /\ Base \in Assets /\ Base \notin Others
    /\ \A a \in Assets : a # Base => a \in Others
    /\ Others \subseteq Assets
  BY PartiesAssumption DEF Parties, Account, Assets

\* The payer p gives m of i to the source s, which gives g of o to the payee q.
Moves(bal, p, s, q, i, o, m, g) ==
    [bal EXCEPT ![p][i] = @ - m, ![s][i] = @ + m, ![s][o] = @ - g, ![q][o] = @ + g]

\* Nothing else moves, and no balance gets negative that covers what it gives.
LEMMA MovesFacts ==
    ASSUME NEW bal \in Balances, NEW p \in Parties, NEW q \in Parties,
           NEW s \in Sources, NEW i \in Assets, NEW o \in Assets, i # o,
           NEW m \in Nat, NEW g \in Nat, m <= bal[p][i], g <= bal[s][o]
    PROVE  /\ Moves(bal, p, s, q, i, o, m, g) \in Balances
           /\ \A r \in Parties, a \in Assets :
                 Moves(bal, p, s, q, i, o, m, g)[r][a] =
                    bal[r][a] - (IF r = p /\ a = i THEN m ELSE 0)
                              + (IF r = q /\ a = o THEN g ELSE 0)
  <1> DEFINE new == Moves(bal, p, s, q, i, o, m, g)
             b1 == [bal EXCEPT ![p][i] = bal[p][i] - m]
             b2 == [b1 EXCEPT ![s][i] = bal[s][i] + m]
             b3 == [b2 EXCEPT ![s][o] = bal[s][o] - g]
             b4 == [b3 EXCEPT ![q][o] = bal[q][o] + g]
             Ints == [Account -> [Assets -> Int]]
  <1>1. p \in Account /\ q \in Account /\ s \in Account /\ p # s /\ q # s
    BY PartiesFacts
  <1>2. bal \in Ints /\ \A r \in Account, a \in Assets : bal[r][a] \in Nat
    BY DEF Balances
  <1>3. new = b4
    BY DEF Moves
  <1>4. /\ b1 \in Ints
        /\ \A r \in Account, a \in Assets :
              b1[r][a] = IF r = p /\ a = i THEN bal[p][i] - m ELSE bal[r][a]
    BY <1>1, <1>2
  <1> HIDE DEF b1
  <1>5. /\ b2 \in Ints
        /\ \A r \in Account, a \in Assets :
              b2[r][a] = IF r = s /\ a = i THEN bal[s][i] + m ELSE b1[r][a]
    BY <1>1, <1>2, <1>4
  <1> HIDE DEF b2
  <1>6. /\ b3 \in Ints
        /\ \A r \in Account, a \in Assets :
              b3[r][a] = IF r = s /\ a = o THEN bal[s][o] - g ELSE b2[r][a]
    BY <1>1, <1>2, <1>5
  <1> HIDE DEF b3
  <1>7. /\ b4 \in Ints
        /\ \A r \in Account, a \in Assets :
              b4[r][a] = IF r = q /\ a = o THEN bal[q][o] + g ELSE b3[r][a]
    BY <1>1, <1>2, <1>6
  <1> HIDE DEF b4, new
  <1>8. \A r \in Account, a \in Assets :
           new[r][a] = IF r = p /\ a = i THEN bal[r][a] - m
                       ELSE IF r = s /\ a = i THEN bal[r][a] + m
                       ELSE IF r = s /\ a = o THEN bal[r][a] - g
                       ELSE IF r = q /\ a = o THEN bal[r][a] + g
                       ELSE bal[r][a]
    BY <1>1, <1>3, <1>4, <1>5, <1>6, <1>7
  <1>9. \A r \in Account, a \in Assets : new[r][a] \in Nat
    <2> SUFFICES ASSUME NEW r \in Account, NEW a \in Assets PROVE new[r][a] \in Nat
      OBVIOUS
    <2> QED
      BY <1>1, <1>2, <1>8
  <1>10. new \in Balances
    BY <1>3, <1>7, <1>9 DEF Balances
  <1>11. \A r \in Parties, a \in Assets :
            new[r][a] = bal[r][a] - (IF r = p /\ a = i THEN m ELSE 0)
                                  + (IF r = q /\ a = o THEN g ELSE 0)
    <2> SUFFICES ASSUME NEW r \in Parties, NEW a \in Assets
                 PROVE  new[r][a] = bal[r][a] - (IF r = p /\ a = i THEN m ELSE 0)
                                              + (IF r = q /\ a = o THEN g ELSE 0)
      OBVIOUS
    <2>1. r \in Account /\ r # s
      BY PartiesFacts
    <2> QED
      BY <1>1, <1>2, <1>8, <2>1
  <1> QED
    BY <1>10, <1>11 DEF new

-----------------------------------------------------------------------------
(* The inductive invariant.                                                *)

\* Which swap of which path is under way.
Path ==
    /\ call.input # call.output
    /\ call.amount \in Amounts /\ call.limit \in Limits
    /\ call.phase = "direct" =>
          /\ Direct(call.input, call.output)
          /\ leg.payer = call.sender /\ leg.payee = call.receiver
          /\ leg.input = call.input /\ leg.output = call.output
          /\ leg.variant = call.variant
          /\ leg.amount = call.amount /\ leg.limit = call.limit
    /\ call.phase = "first" =>
          /\ ~Direct(call.input, call.output)
          /\ leg.payer = call.sender /\ leg.payee = Transit
          /\ leg.input = call.input /\ leg.output = Base
          /\ leg.variant = ByInput /\ leg.limit = 0
          /\ call.variant = ByInput => leg.amount = call.amount
          /\ call.variant = ByOutput => leg.amount <= call.limit
    /\ call.phase = "second" =>
          /\ ~Direct(call.input, call.output)
          /\ leg.payer = Transit /\ leg.payee = call.receiver
          /\ leg.input = Base /\ leg.output = call.output
          /\ leg.variant = ByInput /\ leg.limit = 0

Done == Unit - leg.left
Turns == leg.next - 1

\* What the sources have taken and given so far, of the shares that are done.
Progress ==
    /\ leg.variant = ByInput =>
          /\ AtMost(leg.paid, Done, leg.amount)
          /\ AtLeast(leg.paid, Done, leg.amount, Turns)
          /\ AtLeast(leg.got, Done, leg.limit, Turns)
    /\ leg.variant = ByOutput =>
          /\ AtMost(leg.got, Done, leg.amount)
          /\ AtLeast(leg.got, Done, leg.amount, Turns)
          /\ AtMost(leg.paid, Done, leg.limit)

\* What a balance was when the swap under way began.
AtLegStart(r, a) ==
    balance[r][a] + (IF r = leg.payer /\ a = leg.input THEN leg.paid ELSE 0)
                  - (IF r = leg.payee /\ a = leg.output THEN leg.got ELSE 0)

\* What the sender has paid so far, for a first swap once the second has begun.
SenderPaid == call.saved[call.sender][call.input] - balance[call.sender][call.input]

\* Before the second swap nothing but the swap under way has moved anything; it
\* begins with what the first one has left: the sender's payment and its yield.
Moved ==
    /\ call.phase # "second" =>
          \A r \in Parties, a \in Assets : AtLegStart(r, a) = call.saved[r][a]
    /\ call.phase = "second" =>
          /\ AtLegStart(Transit, Base) = call.saved[Transit][Base] + leg.amount
          /\ \A r \in Parties, a \in Assets :
                /\ <<r, a>> # <<Transit, Base>>
                /\ <<r, a>> # <<call.sender, call.input>>
                => AtLegStart(r, a) = call.saved[r][a]
          /\ SenderPaid >= 0
          /\ call.variant = ByInput =>
                SenderPaid <= call.amount /\ SenderPaid >= call.amount - (NumSources - 1)
          /\ call.variant = ByOutput => SenderPaid <= call.limit

IInv ==
    /\ TypeOK
    /\ call # Idle => committed < MaxCommitted /\ Path /\ Progress /\ Moved

\* A dispatched call has both records.
LEMMA UnderWay ==
    ASSUME TypeOK, call # Idle
    PROVE  call \in Calls /\ leg \in Legs
  BY DEF TypeOK

\* A filter that with_mode makes is a filter of sources.
LEMMA FilterFacts ==
    ASSUME NEW filter \in Filters
    PROVE  filter \in SourceFilters
  <1>1. PICK mode \in FilterModes, selected \in Selections : filter = WithMode(mode, selected)
    BY DEF Filters
  <1>2. selected \in SUBSET Sources
    BY InputsAssumption
  <1> QED
    BY <1>1, <1>2 DEF WithMode, SourceFilters

\* The fields of the two records and their types.
LEMMA LegFacts ==
    ASSUME call \in Calls, leg \in Legs
    PROVE  /\ call.sender \in Users /\ call.receiver \in Users
           /\ call.input \in Assets /\ call.output \in Assets
           /\ call.variant \in Variants /\ call.amount \in Nat /\ call.limit \in Nat
           /\ call.filter \in SourceFilters
           /\ call.phase \in Phases /\ call.saved \in Balances
           /\ leg.payer \in Account /\ leg.payee \in Account
           /\ leg.input \in Assets /\ leg.output \in Assets
           /\ leg.variant \in Variants /\ leg.amount \in Nat /\ leg.limit \in Nat
           /\ leg.left \in 0 .. Unit /\ leg.next \in 1 .. (NumSources + 1)
           /\ leg.paid \in Nat /\ leg.got \in Nat
           /\ Done \in 0 .. Unit /\ Turns \in 0 .. NumSources
  <1>1. leg.left \in 0 .. Unit /\ leg.next \in 1 .. (NumSources + 1)
    BY DEF Legs
  <1>2. Done \in 0 .. Unit /\ Turns \in 0 .. NumSources
    BY <1>1, SourcesAssumption DEF Done, Turns
  <1> QED
    BY <1>1, <1>2 DEF Calls, Legs

\* The two ends of a swap are no sources, and its two assets differ.
LEMMA PathFacts ==
    ASSUME TypeOK, call # Idle, Path
    PROVE  /\ leg.payer \in Parties /\ leg.payee \in Parties
           /\ leg.input # leg.output
           /\ call.sender \in Parties /\ call.receiver \in Parties
           /\ call.sender # Transit /\ call.receiver # Transit
  <1>1. call.sender \in Users /\ call.receiver \in Users /\ call.phase \in Phases
    BY UnderWay, LegFacts
  <1>2. CASE call.phase = "direct"
    BY <1>1, <1>2, PartiesFacts DEF Path
  <1>3. CASE call.phase = "first"
    BY <1>1, <1>3, PartiesFacts DEF Path, Direct
  <1>4. CASE call.phase = "second"
    BY <1>1, <1>4, PartiesFacts DEF Path, Direct
  <1> QED
    BY <1>1, <1>2, <1>3, <1>4 DEF Phases

-----------------------------------------------------------------------------
(* Each step keeps the invariant.                                          *)

\* The chain starts idle, with balances.
LEMMA InitInv == Init => IInv
  BY InputsAssumption DEF Init, IInv, TypeOK

\* A swap that begins has moved and promised nothing.
LEMMA FreshLeg ==
    ASSUME NEW payer \in Account, NEW payee \in Account, NEW input \in Assets,
           NEW output \in Assets, NEW variant \in Variants, NEW amount \in Nat,
           NEW limit \in Nat,
           leg' = Leg(payer, payee, input, output, variant, amount, limit)
    PROVE  /\ leg' \in Legs
           /\ leg'.payer = payer /\ leg'.payee = payee
           /\ leg'.input = input /\ leg'.output = output /\ leg'.variant = variant
           /\ leg'.amount = amount /\ leg'.limit = limit
           /\ leg'.paid = 0 /\ leg'.got = 0 /\ leg'.left = Unit /\ leg'.next = 1
           /\ Progress'
           /\ \A r, a : balance'[r][a] \in Int => AtLegStart(r, a)' = balance'[r][a]
  <1>1. /\ leg'.payer = payer /\ leg'.payee = payee
        /\ leg'.input = input /\ leg'.output = output /\ leg'.variant = variant
        /\ leg'.amount = amount /\ leg'.limit = limit
        /\ leg'.paid = 0 /\ leg'.got = 0 /\ leg'.left = Unit /\ leg'.next = 1
    BY DEF Leg
  <1>2. leg' \in Legs
    BY SourcesAssumption DEF Leg, Legs
  <1>3. Done' = 0 /\ Turns' = 0
    BY <1>1, SourcesAssumption DEF Done, Turns
  <1>4. Progress'
    BY <1>1, <1>3, NothingYet DEF Progress
  <1>5. \A r, a : balance'[r][a] \in Int => AtLegStart(r, a)' = balance'[r][a]
    BY <1>1 DEF AtLegStart
  <1> QED
    BY <1>1, <1>2, <1>4, <1>5

\* A call is dispatched, over one or two swaps.
LEMMA BeginInv ==
    ASSUME IInv, NEW sender \in Users, NEW receiver \in Users, NEW input \in Assets,
           NEW output \in Assets, NEW variant \in Variants, NEW amount \in Amounts,
           NEW limit \in Limits, NEW filter \in Filters,
           Begin(sender, receiver, input, output, variant, amount, limit, filter)
    PROVE  IInv'
  <1> USE DEF IInv
  <1>1. /\ amount \in Nat /\ limit \in Nat /\ filter \in SourceFilters
        /\ balance \in Balances
    BY InputsAssumption, FilterFacts DEF TypeOK
  <1>2. /\ sender \in Account /\ receiver \in Account /\ Transit \in Account
        /\ Base \in Assets /\ sender \in Parties /\ receiver \in Parties
    BY PartiesFacts
  <1>3. /\ input # output /\ balance' = balance /\ committed' = committed
        /\ call' # Idle /\ committed < MaxCommitted
    BY <1>1, IdleAssumption DEF Begin, Calls, Phases
  <1>4. \A r \in Parties, a \in Assets : balance'[r][a] \in Int
    BY <1>1, <1>3, PartiesFacts DEF Balances
  <1>5. CASE Direct(input, output)
    <2>1. call' = [sender |-> sender, receiver |-> receiver, input |-> input,
                   output |-> output, variant |-> variant, amount |-> amount,
                   limit |-> limit, filter |-> filter, phase |-> "direct",
                   saved |-> balance]
      BY <1>5 DEF Begin
    <2>2. leg' = Leg(sender, receiver, input, output, variant, amount, limit)
      BY <1>5 DEF Begin
    <2>3. call' \in Calls
      BY <1>1, <2>1 DEF Calls, Phases
    <2>4. /\ leg' \in Legs /\ Progress'
          /\ leg'.payer = sender /\ leg'.payee = receiver
          /\ leg'.input = input /\ leg'.output = output /\ leg'.variant = variant
          /\ leg'.amount = amount /\ leg'.limit = limit
          /\ \A r, a : balance'[r][a] \in Int => AtLegStart(r, a)' = balance'[r][a]
      BY <1>1, <1>2, <2>2, FreshLeg
    <2>5. TypeOK'
      BY <1>1, <1>3, <2>3, <2>4 DEF TypeOK
    <2>6. Path'
      BY <1>3, <1>5, <2>1, <2>4 DEF Path
    <2>7. Moved'
      BY <1>3, <1>4, <2>1, <2>4 DEF Moved
    <2> QED
      BY <1>3, <2>4, <2>5, <2>6, <2>7
  <1>6. CASE ~Direct(input, output)
    <2>1. call' = [sender |-> sender, receiver |-> receiver, input |-> input,
                   output |-> output, variant |-> variant, amount |-> amount,
                   limit |-> limit, filter |-> filter, phase |-> "first",
                   saved |-> balance]
      BY <1>6 DEF Begin
    <2>2. PICK quoted \in IF variant = ByInput THEN {amount} ELSE 0 .. limit :
             leg' = Leg(sender, Transit, input, Base, ByInput, quoted, 0)
      BY <1>6 DEF Begin
    <2>3. call' \in Calls
      BY <1>1, <2>1 DEF Calls, Phases
    <2>4. /\ quoted \in Nat
          /\ variant = ByInput => quoted = amount
          /\ variant = ByOutput => quoted <= limit
      BY <1>1, <2>2 DEF ByInput, ByOutput
    <2>5. ByInput \in Variants
      BY DEF Variants
    <2>6. /\ leg' \in Legs /\ Progress'
          /\ leg'.payer = sender /\ leg'.payee = Transit
          /\ leg'.input = input /\ leg'.output = Base /\ leg'.variant = ByInput
          /\ leg'.amount = quoted /\ leg'.limit = 0
          /\ \A r, a : balance'[r][a] \in Int => AtLegStart(r, a)' = balance'[r][a]
      BY <1>2, <2>2, <2>4, <2>5, FreshLeg
    <2>7. TypeOK'
      BY <1>1, <1>3, <2>3, <2>6 DEF TypeOK
    <2>8. Path'
      BY <1>3, <1>6, <2>1, <2>4, <2>6 DEF Path
    <2>9. Moved'
      BY <1>3, <1>4, <2>1, <2>6 DEF Moved
    <2> QED
      BY <1>3, <2>6, <2>7, <2>8, <2>9
  <1> QED
    BY <1>5, <1>6

\* A source exchanges its part of the swap under way.
LEMMA SourceExchangeInv ==
    ASSUME IInv, NEW s \in Sources, NEW share \in 1 .. Unit, SourceExchange(s, share)
    PROVE  IInv'
  <1> DEFINE part == PartOf(share, leg.amount)
             bound == PartOf(share, leg.limit)
  <1>1. /\ call # Idle /\ TypeOK /\ Path /\ Progress /\ Moved
        /\ call' = call /\ committed' = committed
        /\ s >= leg.next /\ share <= leg.left /\ committed < MaxCommitted
    BY DEF IInv, SourceExchange
  <1>2. call \in Calls /\ leg \in Legs /\ balance \in Balances
    BY <1>1, UnderWay DEF TypeOK
  <1>3. /\ leg.payer \in Parties /\ leg.payee \in Parties /\ leg.input # leg.output
        /\ call.sender \in Parties /\ call.receiver \in Parties
    BY <1>1, PathFacts
  <1>4. /\ leg.input \in Assets /\ leg.output \in Assets /\ leg.variant \in Variants
        /\ leg.amount \in Nat /\ leg.limit \in Nat
        /\ leg.left \in 0 .. Unit /\ leg.next \in 1 .. (NumSources + 1)
        /\ leg.paid \in Nat /\ leg.got \in Nat
        /\ Done \in 0 .. Unit /\ Turns \in 0 .. NumSources
    BY <1>2, LegFacts
  <1>5. share \in Nat /\ Unit \in Nat
    BY SourcesAssumption
  <1>6. part \in Nat /\ bound \in Nat
    BY <1>4, <1>5, PartBounds
  <1>7. PICK paid \in IF leg.variant = ByInput THEN {part} ELSE 0 .. bound,
             got \in IF leg.variant = ByInput
                     THEN bound .. balance[s][leg.output] ELSE {part} :
           /\ paid <= balance[leg.payer][leg.input]
           /\ got <= balance[s][leg.output]
           /\ balance' = Moves(balance, leg.payer, s, leg.payee, leg.input,
                               leg.output, paid, got)
           /\ leg' = [leg EXCEPT !.left = leg.left - share, !.next = s + 1,
                                 !.paid = leg.paid + paid, !.got = leg.got + got]
    BY DEF SourceExchange, PayerCanPay, Moves
  <1>8. balance[s][leg.output] \in Nat
    BY <1>2, <1>4, PartiesFacts DEF Balances
  <1>9. /\ paid \in Nat /\ got \in Nat
        /\ leg.variant = ByInput => paid = part /\ got >= bound
        /\ leg.variant = ByOutput => paid <= bound /\ got = part
    <2> HIDE DEF part, bound
    <2> QED
      BY <1>6, <1>7, <1>8 DEF ByInput, ByOutput
  <1>10. /\ balance' \in Balances
         /\ \A r \in Parties, a \in Assets :
               balance'[r][a] =
                  balance[r][a] - (IF r = leg.payer /\ a = leg.input THEN paid ELSE 0)
                                + (IF r = leg.payee /\ a = leg.output THEN got ELSE 0)
    <2>1. /\ paid \in Nat /\ paid <= balance[leg.payer][leg.input]
          /\ got \in Nat /\ got <= balance[s][leg.output]
      BY <1>7, <1>9
    <2>2. /\ balance \in Balances /\ leg.payer \in Parties /\ leg.payee \in Parties
          /\ leg.input \in Assets /\ leg.output \in Assets /\ leg.input # leg.output
      BY <1>2, <1>3, <1>4
    <2>3. \A p, q \in Parties, i, o \in Assets :
             i # o /\ paid <= balance[p][i] /\ got <= balance[s][o] =>
                /\ Moves(balance, p, s, q, i, o, paid, got) \in Balances
                /\ \A r \in Parties, a \in Assets :
                      Moves(balance, p, s, q, i, o, paid, got)[r][a] =
                         balance[r][a] - (IF r = p /\ a = i THEN paid ELSE 0)
                                       + (IF r = q /\ a = o THEN got ELSE 0)
      <3> TAKE p, q \in Parties, i, o \in Assets
      <3> HAVE i # o /\ paid <= balance[p][i] /\ got <= balance[s][o]
      <3> QED
        BY <2>1, <2>2, MovesFacts
    <2> DEFINE new == Moves(balance, leg.payer, s, leg.payee, leg.input, leg.output,
                            paid, got)
    <2>4. /\ new \in Balances
          /\ \A r \in Parties, a \in Assets :
                new[r][a] =
                   balance[r][a] - (IF r = leg.payer /\ a = leg.input THEN paid ELSE 0)
                                 + (IF r = leg.payee /\ a = leg.output THEN got ELSE 0)
      BY <2>1, <2>2, <2>3
    <2> HIDE DEF new
    <2>5. balance' = new
      BY <1>7 DEF new
    <2> QED
      BY <2>4, <2>5
  <1>11. /\ leg'.payer = leg.payer /\ leg'.payee = leg.payee
         /\ leg'.input = leg.input /\ leg'.output = leg.output
         /\ leg'.variant = leg.variant /\ leg'.amount = leg.amount
         /\ leg'.limit = leg.limit
         /\ leg'.left = leg.left - share /\ leg'.next = s + 1
         /\ leg'.paid = leg.paid + paid /\ leg'.got = leg.got + got
    BY <1>2, <1>7 DEF Legs
  <1>12. leg' \in Legs
    <2>1. leg.left - share \in 0 .. Unit
      BY <1>1, <1>4, <1>5
    <2>2. s + 1 \in 1 .. (NumSources + 1)
      BY SourcesAssumption DEF Sources
    <2>3. leg.paid + paid \in Nat /\ leg.got + got \in Nat
      BY <1>4, <1>9
    <2> QED
      BY <1>2, <1>7, <2>1, <2>2, <2>3 DEF Legs
  <1>13. TypeOK'
    BY <1>1, <1>2, <1>10, <1>12 DEF TypeOK
  <1>14. Path'
    BY <1>1, <1>11 DEF Path
  <1>15. /\ Done' = Done + share /\ Turns' > Turns
         /\ Done \in Nat /\ Turns \in Nat /\ Turns' \in Nat
    <2>1. s \in Nat /\ NumSources \in Nat
      BY SourcesAssumption DEF Sources
    <2>2. leg.left \in Nat /\ leg.next \in Nat /\ leg.left <= Unit
      BY <1>4, <1>5, <2>1
    <2>3. Done' = Unit - (leg.left - share) /\ Done = Unit - leg.left
      BY <1>11 DEF Done
    <2>4. Turns' = (s + 1) - 1 /\ Turns = leg.next - 1
      BY <1>11 DEF Turns
    <2>5. Done' = Done + share
      BY <1>5, <2>2, <2>3
    <2>6. Turns' > Turns /\ Turns' \in Nat
      BY <1>1, <2>1, <2>2, <2>4
    <2>7. Done \in Nat /\ Turns \in Nat
      BY <1>4, <1>5, <2>1
    <2> QED
      BY <2>5, <2>6, <2>7
  <1>16. Progress'
    <2>1. CASE leg.variant = ByInput
      <3>1. AtMost(leg.paid + paid, Done + share, leg.amount)
        <4>1. AtMost(leg.paid, Done, leg.amount) /\ paid <= PartOf(share, leg.amount)
          BY <1>1, <1>6, <1>9, <2>1 DEF Progress
        <4> QED
          BY <1>4, <1>5, <1>9, <1>15, <4>1, AddAtMost
      <3>2. AtLeast(leg.paid + paid, Done + share, leg.amount, Turns')
        <4>1. AtLeast(leg.paid, Done, leg.amount, Turns) /\ paid >= PartOf(share, leg.amount)
          BY <1>1, <1>6, <1>9, <2>1 DEF Progress
        <4> QED
          BY <1>4, <1>5, <1>9, <1>15, <4>1, AddAtLeast
      <3>3. AtLeast(leg.got + got, Done + share, leg.limit, Turns')
        <4>1. AtLeast(leg.got, Done, leg.limit, Turns) /\ got >= PartOf(share, leg.limit)
          BY <1>1, <1>6, <1>9, <2>1 DEF Progress
        <4> QED
          BY <1>4, <1>5, <1>9, <1>15, <4>1, AddAtLeast
      <3>4. ByInput # ByOutput
        BY DEF ByInput, ByOutput
      <3> QED
        BY <1>11, <1>15, <2>1, <3>1, <3>2, <3>3, <3>4 DEF Progress
    <2>2. CASE leg.variant = ByOutput
      <3>1. AtMost(leg.got + got, Done + share, leg.amount)
        <4>1. AtMost(leg.got, Done, leg.amount) /\ got <= PartOf(share, leg.amount)
          BY <1>1, <1>6, <1>9, <2>2 DEF Progress
        <4> QED
          BY <1>4, <1>5, <1>9, <1>15, <4>1, AddAtMost
      <3>2. AtLeast(leg.got + got, Done + share, leg.amount, Turns')
        <4>1. AtLeast(leg.got, Done, leg.amount, Turns) /\ got >= PartOf(share, leg.amount)
          BY <1>1, <1>6, <1>9, <2>2 DEF Progress
        <4> QED
          BY <1>4, <1>5, <1>9, <1>15, <4>1, AddAtLeast
      <3>3. AtMost(leg.paid + paid, Done + share, leg.limit)
        <4>1. AtMost(leg.paid, Done, leg.limit) /\ paid <= PartOf(share, leg.limit)
          BY <1>1, <1>6, <1>9, <2>2 DEF Progress
        <4> QED
          BY <1>4, <1>5, <1>9, <1>15, <4>1, AddAtMost
      <3>4. ByInput # ByOutput
        BY DEF ByInput, ByOutput
      <3> QED
        BY <1>11, <1>15, <2>2, <3>1, <3>2, <3>3, <3>4 DEF Progress
    <2> QED
      BY <1>4, <2>1, <2>2 DEF Variants
  <1>17. Moved'
    <2>1. \A r \in Parties, a \in Assets : AtLegStart(r, a)' = AtLegStart(r, a)
      <3> SUFFICES ASSUME NEW r \in Parties, NEW a \in Assets
                   PROVE  AtLegStart(r, a)' = AtLegStart(r, a)
        OBVIOUS
      <3>1. balance[r][a] \in Nat
        BY <1>2, PartiesFacts DEF Balances
      <3>2. balance'[r][a] =
                  balance[r][a] - (IF r = leg.payer /\ a = leg.input THEN paid ELSE 0)
                                + (IF r = leg.payee /\ a = leg.output THEN got ELSE 0)
        BY <1>10
      <3> QED
        BY <1>4, <1>9, <1>11, <3>1, <3>2 DEF AtLegStart
    <2>2. CASE call.phase # "second"
      BY <1>1, <2>1, <2>2 DEF Moved
    <2>3. CASE call.phase = "second"
      <3>1. SenderPaid' = SenderPaid
        <4>1. call.input \in Assets /\ call.sender \in Users
          BY <1>2, LegFacts
        <4>2. call.sender # leg.payer /\ call.input # leg.output
          BY <1>1, <2>3, <4>1, PartiesFacts DEF Path
        <4>3. balance[call.sender][call.input] \in Nat
          BY <1>2, <4>1, PartiesFacts DEF Balances
        <4>4. balance'[call.sender][call.input] = balance[call.sender][call.input]
          BY <1>3, <1>9, <1>10, <4>1, <4>2, <4>3
        <4> QED
          BY <1>1, <4>4 DEF SenderPaid
      <3> QED
        BY <1>1, <1>11, <2>1, <2>3, <3>1, PartiesFacts DEF Moved
    <2> QED
      BY <2>2, <2>3
  <1> QED
    BY <1>1, <1>13, <1>14, <1>16, <1>17 DEF IInv

\* What a swap has moved when all its shares are done.
LEMMA WholeLeg ==
    ASSUME IInv, LegDone
    PROVE  /\ leg.variant = ByInput =>
                 /\ leg.paid <= leg.amount
                 /\ leg.paid >= leg.amount - (NumSources - 1)
                 /\ leg.got >= leg.limit - (NumSources - 1)
           /\ leg.variant = ByOutput =>
                 /\ leg.got <= leg.amount
                 /\ leg.got >= leg.amount - (NumSources - 1)
                 /\ leg.paid <= leg.limit
  <1>1. call # Idle /\ TypeOK /\ Progress /\ leg.left = 0
    BY DEF IInv, LegDone
  <1>2. /\ leg.amount \in Nat /\ leg.limit \in Nat
        /\ leg.paid \in Nat /\ leg.got \in Nat /\ Turns \in 0 .. NumSources
    BY <1>1, UnderWay, LegFacts
  <1>3. Done = Unit /\ Unit \in 0 .. Unit
    BY <1>1, SourcesAssumption DEF Done
  <1>4. CASE leg.variant = ByInput
    <2>1. /\ AtMost(leg.paid, Unit, leg.amount)
          /\ AtLeast(leg.paid, Unit, leg.amount, Turns)
          /\ AtLeast(leg.got, Unit, leg.limit, Turns)
      BY <1>1, <1>3, <1>4 DEF Progress
    <2>2. leg.paid <= leg.amount
      BY <1>2, <1>3, <2>1, NeverMore
    <2>3. leg.paid >= leg.amount - (NumSources - 1)
      BY <1>2, <2>1, WholeAtLeast
    <2>4. leg.got >= leg.limit - (NumSources - 1)
      BY <1>2, <2>1, WholeAtLeast
    <2> QED
      BY <1>4, <2>2, <2>3, <2>4 DEF ByInput, ByOutput
  <1>5. CASE leg.variant = ByOutput
    <2>1. /\ AtMost(leg.got, Unit, leg.amount)
          /\ AtLeast(leg.got, Unit, leg.amount, Turns)
          /\ AtMost(leg.paid, Unit, leg.limit)
      BY <1>1, <1>3, <1>5 DEF Progress
    <2>2. leg.got <= leg.amount
      BY <1>2, <1>3, <2>1, NeverMore
    <2>3. leg.got >= leg.amount - (NumSources - 1)
      BY <1>2, <2>1, WholeAtLeast
    <2>4. leg.paid <= leg.limit
      BY <1>2, <1>3, <2>1, NeverMore
    <2> QED
      BY <1>5, <2>2, <2>3, <2>4 DEF ByInput, ByOutput
  <1> QED
    BY <1>4, <1>5

\* The second swap sells what the first has left in the technical account.
LEMMA SecondSwapInv ==
    ASSUME IInv, SecondSwap
    PROVE  IInv'
  <1>1. /\ call # Idle /\ TypeOK /\ Path /\ Moved /\ LegDone
        /\ call.phase = "first" /\ balance' = balance /\ committed' = committed
        /\ committed < MaxCommitted
    BY DEF IInv, SecondSwap, LegDone
  <1>2. call \in Calls /\ leg \in Legs /\ balance \in Balances
    BY <1>1, UnderWay DEF TypeOK
  <1>3. /\ call.sender \in Users /\ call.receiver \in Users
        /\ call.input \in Assets /\ call.output \in Assets
        /\ call.amount \in Nat /\ call.limit \in Nat /\ call.saved \in Balances
        /\ leg.paid \in Nat /\ leg.got \in Nat /\ leg.amount \in Nat
    BY <1>2, LegFacts
  <1>4. /\ call.sender \in Parties /\ call.receiver \in Account
        /\ call.sender # Transit /\ Transit \in Parties /\ Transit \in Account
        /\ Base \in Assets /\ ByInput \in Variants /\ 0 \in Nat
    BY <1>3, PartiesFacts DEF Variants
  <1>5. /\ ~Direct(call.input, call.output) /\ call.input # Base
        /\ leg.payer = call.sender /\ leg.payee = Transit
        /\ leg.input = call.input /\ leg.output = Base
        /\ leg.variant = ByInput
        /\ call.variant = ByInput => leg.amount = call.amount
        /\ call.variant = ByOutput => leg.amount <= call.limit
    BY <1>1 DEF Path, Direct
  <1>6. leg' = Leg(Transit, call.receiver, Base, call.output, ByInput, leg.got, 0)
    BY DEF SecondSwap, SecondAmount
  <1>7. /\ leg' \in Legs /\ Progress'
        /\ leg'.payer = Transit /\ leg'.payee = call.receiver
        /\ leg'.input = Base /\ leg'.output = call.output /\ leg'.variant = ByInput
        /\ leg'.amount = leg.got /\ leg'.limit = 0
        /\ \A r, a : balance'[r][a] \in Int => AtLegStart(r, a)' = balance'[r][a]
    BY <1>3, <1>4, <1>6, FreshLeg
  <1>8. /\ call' \in Calls /\ call'.phase = "second"
        /\ call'.sender = call.sender /\ call'.receiver = call.receiver
        /\ call'.input = call.input /\ call'.output = call.output
        /\ call'.variant = call.variant /\ call'.amount = call.amount
        /\ call'.limit = call.limit /\ call'.saved = call.saved
    BY <1>2 DEF SecondSwap, PhaseAfterFirst, Calls, Phases
  <1>9. TypeOK'
    BY <1>1, <1>7, <1>8 DEF TypeOK
  <1>10. Path'
    BY <1>1, <1>5, <1>7, <1>8 DEF Path
  <1>11. \A r \in Parties, a \in Assets :
            /\ balance[r][a] \in Nat /\ call.saved[r][a] \in Nat
            /\ AtLegStart(r, a) = call.saved[r][a]
            /\ AtLegStart(r, a)' = balance[r][a]
    BY <1>1, <1>2, <1>3, <1>7, PartiesFacts DEF Moved, Balances
  <1>12. AtLegStart(Transit, Base)' = call.saved[Transit][Base] + leg.got
    <2>1. AtLegStart(Transit, Base) = balance[Transit][Base] - leg.got
      BY <1>3, <1>4, <1>5, <1>11 DEF AtLegStart
    <2> QED
      BY <1>3, <1>4, <1>11, <2>1
  <1>13. \A r \in Parties, a \in Assets :
            /\ <<r, a>> # <<Transit, Base>>
            /\ <<r, a>> # <<call.sender, call.input>>
            => AtLegStart(r, a)' = call.saved[r][a]
    <2> SUFFICES ASSUME NEW r \in Parties, NEW a \in Assets,
                        <<r, a>> # <<Transit, Base>>,
                        <<r, a>> # <<call.sender, call.input>>
                 PROVE  AtLegStart(r, a)' = call.saved[r][a]
      OBVIOUS
    <2>1. AtLegStart(r, a) = balance[r][a]
      BY <1>5, <1>11 DEF AtLegStart
    <2> QED
      BY <1>11, <2>1
  <1>14. SenderPaid' = leg.paid
    <2>1. AtLegStart(call.sender, call.input)
             = balance[call.sender][call.input] + leg.paid
      BY <1>3, <1>4, <1>5, <1>11 DEF AtLegStart
    <2> QED
      BY <1>1, <1>3, <1>4, <1>8, <1>11, <2>1 DEF SenderPaid
  <1>15. /\ leg.paid <= leg.amount
         /\ leg.paid >= leg.amount - (NumSources - 1)
    BY <1>1, <1>5, WholeLeg
  <1>16. Moved'
    <2>1. /\ call.variant = ByInput =>
               leg.paid <= call.amount /\ leg.paid >= call.amount - (NumSources - 1)
          /\ call.variant = ByOutput => leg.paid <= call.limit
      BY <1>3, <1>5, <1>15
    <2> QED
      BY <1>3, <1>7, <1>8, <1>12, <1>13, <1>14, <2>1 DEF Moved
  <1> QED
    BY <1>1, <1>7, <1>9, <1>10, <1>16 DEF IInv

\* A call that ends leaves nothing under way.
LEMMA EndInv ==
    ASSUME IInv, Commit \/ Fail
    PROVE  IInv'
  <1>1. call # Idle /\ TypeOK /\ committed < MaxCommitted
    BY DEF IInv, Commit, Fail, LegDone
  <1>2. call' = Idle /\ leg' = Idle
    BY DEF Commit, Fail
  <1>3. balance \in Balances /\ committed \in 0 .. MaxCommitted
    BY <1>1 DEF TypeOK
  <1>4. balance' \in Balances
    BY <1>1, <1>3, UnderWay, LegFacts DEF Commit, Fail, StorageAfterFailure
  <1>5. committed' \in 0 .. MaxCommitted
    BY <1>1, <1>3, InputsAssumption DEF Commit, Fail
  <1> QED
    BY <1>2, <1>4, <1>5 DEF IInv, TypeOK

\* Every step, and a stuttering one, keeps the invariant.
LEMMA NextInv ==
    ASSUME IInv, [Next]_vars
    PROVE  IInv'
  <1>1. ASSUME NEW sender \in Users, NEW receiver \in Users, NEW input \in Assets,
               NEW output \in Assets, NEW variant \in Variants,
               NEW amount \in Amounts, NEW limit \in Limits, NEW filter \in Filters,
               Begin(sender, receiver, input, output, variant, amount, limit, filter)
        PROVE  IInv'
    BY <1>1, BeginInv
  <1>2. ASSUME NEW s \in Sources, NEW share \in 1 .. Unit, SourceExchange(s, share)
        PROVE  IInv'
    BY <1>2, SourceExchangeInv
  <1>3. CASE SecondSwap
    BY <1>3, SecondSwapInv
  <1>4. CASE Commit \/ Fail
    BY <1>4, EndInv
  <1>5. CASE UNCHANGED vars
    BY <1>5 DEF vars, IInv, TypeOK, Path, Progress, Moved, Done, Turns, AtLegStart,
                SenderPaid
  <1> QED
    BY <1>1, <1>2, <1>3, <1>4, <1>5 DEF Next, Step

\* The invariant holds in every reachable state.
LEMMA Invariant == Spec => []IInv
  <1>1. Init => IInv
    BY InitInv
  <1>2. IInv /\ [Next]_vars => IInv'
    BY NextInv
  <1> QED
    BY <1>1, <1>2, PTL DEF Spec

-----------------------------------------------------------------------------
(* Theorems.                                                               *)

\* A call under way has its records, and no balance is ever negative.
THEOREM TypeCorrect == Spec => []TypeOK
  <1>1. IInv => TypeOK
    BY DEF IInv
  <1> QED
    BY <1>1, Invariant, PTL

\* The technical account does not spend on one trade what another one, or a
\* rounding of an earlier one, has left there.
THEOREM TransitIsNeverSpent == Spec => []TransitKeepsWhatItHad
  <1>1. IInv => TransitKeepsWhatItHad
    <2> SUFFICES ASSUME IInv, call # Idle, NEW a \in Assets
                 PROVE  balance[Transit][a] >= call.saved[Transit][a]
      BY DEF TransitKeepsWhatItHad
    <2>1. TypeOK /\ Path /\ Progress /\ Moved
      BY DEF IInv
    <2>2. call \in Calls /\ leg \in Legs /\ balance \in Balances
      BY <2>1, UnderWay DEF TypeOK
    <2>3. /\ call.sender \in Users /\ call.receiver \in Users
          /\ call.saved \in Balances /\ call.phase \in Phases
          /\ leg.paid \in Nat /\ leg.got \in Nat /\ leg.amount \in Nat
          /\ Done \in 0 .. Unit
      BY <2>2, LegFacts
    <2>4. /\ call.sender # Transit /\ call.receiver # Transit /\ Transit \in Parties
      BY <2>3, PartiesFacts
    <2>5. balance[Transit][a] \in Nat /\ call.saved[Transit][a] \in Nat
      BY <2>2, <2>3, PartiesFacts DEF Balances
    <2>6. CASE call.phase # "second"
      <3>1. leg.payer # Transit
        BY <2>1, <2>3, <2>4, <2>6 DEF Path, Phases
      <3>2. AtLegStart(Transit, a) = call.saved[Transit][a]
        BY <2>1, <2>4, <2>6 DEF Moved
      <3> QED
        BY <2>3, <2>5, <3>1, <3>2 DEF AtLegStart
    <2>7. CASE call.phase = "second"
      <3>1. /\ leg.payer = Transit /\ leg.payee # Transit /\ leg.input = Base
            /\ leg.variant = ByInput
        BY <2>1, <2>4, <2>7 DEF Path
      <3>2. leg.paid <= leg.amount
        BY <2>1, <2>3, <3>1, NeverMore DEF Progress
      <3>3. CASE a = Base
        <4>1. AtLegStart(Transit, Base) = call.saved[Transit][Base] + leg.amount
          BY <2>1, <2>7 DEF Moved
        <4> QED
          BY <2>3, <2>5, <3>1, <3>2, <3>3, <4>1 DEF AtLegStart
      <3>4. CASE a # Base
        <4>1. AtLegStart(Transit, a) = call.saved[Transit][a]
          BY <2>1, <2>4, <2>7, <3>4 DEF Moved
        <4> QED
          BY <2>3, <2>5, <3>1, <3>4, <4>1 DEF AtLegStart
      <3> QED
        BY <3>3, <3>4
    <2> QED
      BY <2>6, <2>7
  <1> QED
    BY <1>1, Invariant, PTL

Received == balance[call.receiver][call.output] - call.saved[call.receiver][call.output]
Parked == balance[Transit][Base] - call.saved[Transit][Base]

\* What an exchange that commits has moved, of the balances it started from.
LEMMA CommitMoves ==
    ASSUME IInv, Commit
    PROVE  /\ SenderPaid \in Int /\ Received \in Int /\ Parked \in Int
           /\ SenderPaid >= 0 /\ Received >= 0
           /\ Direct(call.input, call.output) => Parked = 0
           /\ ~Direct(call.input, call.output) => Parked \in 0 .. (NumSources - 1)
           /\ \A a \in Others : balance[Transit][a] = call.saved[Transit][a]
           /\ \A u \in Users, a \in Assets :
                 /\ <<u, a>> # <<call.sender, call.input>>
                 /\ <<u, a>> # <<call.receiver, call.output>>
                 => balance[u][a] = call.saved[u][a]
           /\ call.variant = ByInput =>
                 /\ SenderPaid \in (call.amount - (NumSources - 1)) .. call.amount
                 /\ Received >= call.limit - (IF Direct(call.input, call.output)
                                              THEN NumSources - 1 ELSE 0)
           /\ call.variant = ByOutput =>
                 /\ SenderPaid <= call.limit
                 /\ Direct(call.input, call.output) =>
                       Received \in (call.amount - (NumSources - 1)) .. call.amount
  <1>1. /\ call # Idle /\ TypeOK /\ Path /\ Moved /\ LegDone
        /\ call.phase # "first" /\ WithinSlippage
    BY DEF IInv, Commit, LegDone
  <1>2. call \in Calls /\ leg \in Legs /\ balance \in Balances
    BY <1>1, UnderWay DEF TypeOK
  <1>3. /\ call.sender \in Users /\ call.receiver \in Users
        /\ call.input \in Assets /\ call.output \in Assets /\ call.phase \in Phases
        /\ call.amount \in Nat /\ call.limit \in Nat /\ call.saved \in Balances
        /\ leg.paid \in Nat /\ leg.got \in Nat /\ leg.amount \in Nat /\ leg.limit \in Nat
        /\ call.input # call.output
    BY <1>1, <1>2, LegFacts DEF Path
  <1>4. /\ call.sender \in Parties /\ call.receiver \in Parties /\ Transit \in Parties
        /\ call.sender # Transit /\ call.receiver # Transit
        /\ Base \in Assets /\ Base \notin Others /\ Others \subseteq Assets
        /\ \A u \in Users : u \in Parties /\ u # Transit
    BY <1>3, PartiesFacts
  <1>5. \A r \in Parties, a \in Assets :
           /\ balance[r][a] \in Nat /\ call.saved[r][a] \in Nat
           /\ AtLegStart(r, a) =
                 balance[r][a] + (IF r = leg.payer /\ a = leg.input THEN leg.paid ELSE 0)
                               - (IF r = leg.payee /\ a = leg.output THEN leg.got ELSE 0)
    BY <1>2, <1>3, PartiesFacts DEF Balances, AtLegStart
  <1>6. /\ SenderPaid \in Int /\ Received \in Int /\ Parked \in Int
    BY <1>3, <1>4, <1>5 DEF SenderPaid, Received, Parked
  <1>7. ByInput # ByOutput /\ NumSources \in Nat
    BY SourcesAssumption DEF ByInput, ByOutput
  <1>8. CASE call.phase = "direct"
    <2>1. /\ Direct(call.input, call.output)
          /\ leg.payer = call.sender /\ leg.payee = call.receiver
          /\ leg.input = call.input /\ leg.output = call.output
          /\ leg.variant = call.variant
          /\ leg.amount = call.amount /\ leg.limit = call.limit
      BY <1>1, <1>8 DEF Path
    <2>2. \A r \in Parties, a \in Assets :
             balance[r][a] + (IF r = call.sender /\ a = call.input THEN leg.paid ELSE 0)
                           - (IF r = call.receiver /\ a = call.output THEN leg.got ELSE 0)
             = call.saved[r][a]
      BY <1>1, <1>5, <1>8, <2>1 DEF Moved
    <2>3. SenderPaid = leg.paid
      BY <1>3, <1>4, <1>5, <2>2 DEF SenderPaid
    <2>4. Received = leg.got
      BY <1>3, <1>4, <1>5, <2>2 DEF Received
    <2>5. \A a \in Assets : balance[Transit][a] = call.saved[Transit][a]
      BY <1>3, <1>4, <1>5, <2>2
    <2>6. Parked = 0
      BY <1>4, <1>5, <2>5 DEF Parked
    <2>7. \A u \in Users, a \in Assets :
             /\ <<u, a>> # <<call.sender, call.input>>
             /\ <<u, a>> # <<call.receiver, call.output>>
             => balance[u][a] = call.saved[u][a]
      <3> SUFFICES ASSUME NEW u \in Users, NEW a \in Assets,
                          ~(u = call.sender /\ a = call.input),
                          ~(u = call.receiver /\ a = call.output)
                   PROVE  balance[u][a] = call.saved[u][a]
        OBVIOUS
      <3> QED
        BY <1>4, <1>5, <2>2
    <2>8. /\ call.variant = ByInput =>
                /\ leg.paid <= call.amount
                /\ leg.paid >= call.amount - (NumSources - 1)
                /\ leg.got >= call.limit - (NumSources - 1)
          /\ call.variant = ByOutput =>
                /\ leg.got <= call.amount
                /\ leg.got >= call.amount - (NumSources - 1)
                /\ leg.paid <= call.limit
      BY <1>1, <2>1, WholeLeg
    <2> HIDE DEF SenderPaid, Received, Parked
    <2>9. call.variant = ByInput =>
             /\ SenderPaid \in (call.amount - (NumSources - 1)) .. call.amount
             /\ Received >= call.limit - (NumSources - 1)
      BY <1>3, <1>7, <2>3, <2>4, <2>8
    <2>10. call.variant = ByOutput =>
              /\ SenderPaid <= call.limit
              /\ Received \in (call.amount - (NumSources - 1)) .. call.amount
      BY <1>3, <1>7, <2>3, <2>4, <2>8
    <2>11. SenderPaid >= 0 /\ Received >= 0
      BY <1>3, <2>3, <2>4
    <2> QED
      BY <1>4, <1>6, <2>1, <2>5, <2>6, <2>7, <2>9, <2>10, <2>11
  <1>9. CASE call.phase = "second"
    <2>1. /\ ~Direct(call.input, call.output)
          /\ call.input # Base /\ call.output # Base
          /\ leg.payer = Transit /\ leg.payee = call.receiver
          /\ leg.input = Base /\ leg.output = call.output
          /\ leg.variant = ByInput
      BY <1>1, <1>9 DEF Path, Direct
    <2>2. /\ AtLegStart(Transit, Base) = call.saved[Transit][Base] + leg.amount
          /\ \A r \in Parties, a \in Assets :
                /\ <<r, a>> # <<Transit, Base>>
                /\ <<r, a>> # <<call.sender, call.input>>
                => AtLegStart(r, a) = call.saved[r][a]
          /\ SenderPaid >= 0
          /\ call.variant = ByInput =>
                SenderPaid <= call.amount /\ SenderPaid >= call.amount - (NumSources - 1)
          /\ call.variant = ByOutput => SenderPaid <= call.limit
      BY <1>1, <1>9 DEF Moved
    <2>3. Received = leg.got
      <3>1. AtLegStart(call.receiver, call.output) = call.saved[call.receiver][call.output]
        BY <1>3, <1>4, <2>2
      <3> QED
        BY <1>3, <1>4, <1>5, <2>1, <3>1 DEF Received
    <2>4. Parked = leg.amount - leg.paid
      <3>1. AtLegStart(Transit, Base) = balance[Transit][Base] + leg.paid
        BY <1>3, <1>4, <1>5, <2>1
      <3> QED
        BY <1>3, <1>4, <1>5, <2>2, <3>1 DEF Parked
    <2>5. leg.paid <= leg.amount /\ leg.paid >= leg.amount - (NumSources - 1)
      BY <1>1, <2>1, WholeLeg
    <2>6. Parked \in 0 .. (NumSources - 1)
      BY <1>3, <1>7, <2>4, <2>5
    <2>7. \A a \in Others : balance[Transit][a] = call.saved[Transit][a]
      <3> SUFFICES ASSUME NEW a \in Others
                   PROVE  balance[Transit][a] = call.saved[Transit][a]
        OBVIOUS
      <3>1. AtLegStart(Transit, a) = call.saved[Transit][a]
        BY <1>4, <2>2
      <3> QED
        BY <1>4, <1>5, <2>1, <3>1
    <2>8. \A u \in Users, a \in Assets :
             /\ <<u, a>> # <<call.sender, call.input>>
             /\ <<u, a>> # <<call.receiver, call.output>>
             => balance[u][a] = call.saved[u][a]
      <3> SUFFICES ASSUME NEW u \in Users, NEW a \in Assets,
                          <<u, a>> # <<call.sender, call.input>>,
                          ~(u = call.receiver /\ a = call.output)
                   PROVE  balance[u][a] = call.saved[u][a]
        OBVIOUS
      <3>1. AtLegStart(u, a) = call.saved[u][a]
        BY <1>4, <2>2
      <3> QED
        BY <1>4, <1>5, <2>1, <3>1
    <2>9. call.variant = ByInput => Received >= call.limit
      BY <1>1, <1>9, <2>3 DEF WithinSlippage
    <2> HIDE DEF SenderPaid, Received, Parked
    <2>10. call.variant = ByInput =>
              SenderPaid \in (call.amount - (NumSources - 1)) .. call.amount
      BY <1>3, <1>6, <1>7, <2>2
    <2>11. Received >= 0
      BY <1>3, <2>3
    <2>12. call.variant = ByInput =>
              Received >= call.limit - (IF Direct(call.input, call.output)
                                        THEN NumSources - 1 ELSE 0)
      BY <1>3, <1>6, <2>1, <2>9
    <2> QED
      BY <1>6, <2>1, <2>2, <2>6, <2>7, <2>8, <2>10, <2>11, <2>12
  <1> QED
    BY <1>1, <1>3, <1>8, <1>9 DEF Phases

\* The definitions that the two modules share.
LEMMA AtomicDefs ==
    /\ Atomic!Assets = Assets
    /\ Atomic!Account = Account
    /\ Atomic!Variants = Variants
    /\ Atomic!ByInput = ByInput /\ Atomic!ByOutput = ByOutput
    /\ Atomic!Dust = NumSources - 1
    /\ \A input, output : Atomic!Direct(input, output) = Direct(input, output)
  BY DEF Atomic!Assets, Assets, Atomic!Account, Account, Atomic!Sources, Sources,
         Atomic!Variants, Variants, Atomic!ByInput, ByInput, Atomic!ByOutput, ByOutput,
         Atomic!Dust, Atomic!Direct, Direct

\* Seen from outside, a call that commits happens at once, within its limits.
LEMMA CommitIsAtomic ==
    ASSUME IInv, Commit
    PROVE  Atomic!Exchange(call.sender, call.receiver, call.input, call.output,
                           call.variant, call.amount, call.limit)
  <1>1. Visible = call.saved /\ Visible' = balance
    BY DEF Commit, LegDone, Visible
  <1>2. balance \in Balances /\ call.variant \in Variants
    BY UnderWay, LegFacts DEF IInv, TypeOK, Commit, LegDone
  <1>3. Visible' \in [Account -> [Assets -> Nat]]
    BY <1>1, <1>2 DEF Balances
  <1> QED
    BY <1>1, <1>3, CommitMoves, AtomicDefs
       DEF Atomic!Exchange, SenderPaid, Received, Parked

\* A call that is dispatched remembers the storage it starts from.
LEMMA BeginSaves ==
    ASSUME IInv, NEW sender \in Users, NEW receiver \in Users, NEW input \in Assets,
           NEW output \in Assets, NEW variant \in Variants, NEW amount \in Amounts,
           NEW limit \in Limits, NEW filter \in Filters,
           Begin(sender, receiver, input, output, variant, amount, limit, filter)
    PROVE  call = Idle /\ call' # Idle /\ call'.saved = balance
  <1>1. /\ amount \in Nat /\ limit \in Nat /\ filter \in SourceFilters
        /\ balance \in Balances
    BY InputsAssumption, FilterFacts DEF IInv, TypeOK
  <1>2. call' \in Calls
    BY <1>1 DEF Begin, Calls, Phases
  <1> QED
    BY <1>2, IdleAssumption DEF Begin

\* Every other step leaves what is seen from outside as it was.
LEMMA OthersAreInvisible ==
    ASSUME IInv, [Next]_vars, ~Commit
    PROVE  UNCHANGED Visible
  <1>1. ASSUME NEW sender \in Users, NEW receiver \in Users, NEW input \in Assets,
               NEW output \in Assets, NEW variant \in Variants,
               NEW amount \in Amounts, NEW limit \in Limits, NEW filter \in Filters,
               Begin(sender, receiver, input, output, variant, amount, limit, filter)
        PROVE  UNCHANGED Visible
    <2>1. call = Idle /\ call' # Idle /\ call'.saved = balance
      BY <1>1, BeginSaves
    <2> QED
      BY <2>1 DEF Visible
  <1>2. ASSUME NEW s \in Sources, NEW share \in 1 .. Unit, SourceExchange(s, share)
        PROVE  UNCHANGED Visible
    BY <1>2 DEF SourceExchange, Visible
  <1>3. CASE SecondSwap
    <2>1. call # Idle /\ call \in Calls
      BY <1>3, UnderWay DEF IInv, SecondSwap, LegDone
    <2>2. call' \in Calls /\ call'.saved = call.saved
      BY <1>3, <2>1 DEF SecondSwap, PhaseAfterFirst, Calls, Phases
    <2> QED
      BY <2>1, <2>2, IdleAssumption DEF Visible
  <1>4. CASE Fail
    BY <1>4 DEF Fail, StorageAfterFailure, Visible
  <1>5. CASE UNCHANGED vars
    BY <1>5 DEF vars, Visible
  <1> QED
    BY <1>1, <1>2, <1>3, <1>4, <1>5 DEF Next, Step

\* exchange is all or nothing, and keeps its limits but for the dust: whatever the
\* sources, the order they are asked in and the step that fails.
THEOREM ExchangeImplementsAtomic == Spec => ExchangeIsAtomic
  <1>1. Init => Atomic!Init
    BY InputsAssumption, AtomicDefs DEF Init, Atomic!Init, Visible, Balances
  <1>2. IInv /\ [Next]_vars => [Atomic!Next]_Visible
    <2> SUFFICES ASSUME IInv, [Next]_vars
                 PROVE  [Atomic!Next]_Visible
      OBVIOUS
    <2>1. CASE Commit
      <3>1. Atomic!Exchange(call.sender, call.receiver, call.input, call.output,
                            call.variant, call.amount, call.limit)
        BY <2>1, CommitIsAtomic
      <3>2. call \in Calls /\ leg \in Legs /\ Path
        BY <2>1, UnderWay DEF IInv, Commit, LegDone
      <3>3. /\ call.sender \in Users /\ call.receiver \in Users
            /\ call.input \in Assets /\ call.output \in Assets
            /\ call.variant \in Variants
            /\ call.amount \in Amounts /\ call.limit \in Limits
            /\ call.input # call.output
        BY <3>2, LegFacts DEF Path
      <3> QED
        BY <3>1, <3>3, AtomicDefs DEF Atomic!Next
    <2>2. CASE ~Commit
      BY <2>2, OthersAreInvisible
    <2> QED
      BY <2>1, <2>2
  <1> QED
    BY <1>1, <1>2, Invariant, PTL DEF Spec, ExchangeIsAtomic, Atomic!Spec

\* An exchange with a source moves nothing of any other source.
LEMMA OtherSourcesRest ==
    ASSUME IInv, NEW s \in Sources, NEW share \in 1 .. Unit, SourceExchange(s, share),
           NEW r \in Sources, r # s
    PROVE  balance'[r] = balance[r]
  <1>1. leg.payer \in Parties /\ leg.payee \in Parties
    BY PathFacts DEF IInv, SourceExchange
  <1>2. r # leg.payer /\ r # leg.payee /\ r \in Account
    BY <1>1, PartiesFacts
  <1>3. PICK paid, got :
           balance' = [balance EXCEPT ![leg.payer][leg.input] = @ - paid,
                                      ![s][leg.input] = @ + paid,
                                      ![s][leg.output] = @ - got,
                                      ![leg.payee][leg.output] = @ + got]
    BY DEF SourceExchange
  <1>4. balance \in [Account -> [Assets -> Nat]]
    BY DEF IInv, TypeOK, Balances
  <1> QED
    BY <1>2, <1>3, <1>4

\* The sources a caller has excluded take no part in the exchange, in either of
\* its swaps, whatever the others do.
THEOREM SelectionIsAlwaysRespected == Spec => []SelectionIsRespected
  <1>1. Init => SelectionIsRespected
    BY DEF Init, SelectionIsRespected
  <1>2. IInv /\ SelectionIsRespected /\ [Next]_vars => SelectionIsRespected'
    <2> SUFFICES ASSUME IInv, SelectionIsRespected, [Next]_vars, call' # Idle,
                        NEW r \in Sources,
                        r \in call'.filter.selected <=> call'.filter.forbidSelected
                 PROVE  balance'[r] = call'.saved[r]
      BY DEF SelectionIsRespected
    <2>1. ASSUME NEW sender \in Users, NEW receiver \in Users, NEW input \in Assets,
                 NEW output \in Assets, NEW variant \in Variants,
                 NEW amount \in Amounts, NEW limit \in Limits, NEW filter \in Filters,
                 Begin(sender, receiver, input, output, variant, amount, limit, filter)
          PROVE  balance'[r] = call'.saved[r]
      BY <2>1, BeginSaves DEF Begin
    <2>2. ASSUME NEW s \in Sources, NEW share \in 1 .. Unit, SourceExchange(s, share)
          PROVE  balance'[r] = call'.saved[r]
      <3>1. call' = call /\ Matches(call.filter, s)
        BY <2>2 DEF SourceExchange, Listed
      <3>2. r # s
        <4>1. call.filter \in SourceFilters
          BY <2>2, UnderWay, LegFacts DEF SourceExchange, IInv
        <4>2. call.filter.forbidSelected \in BOOLEAN
          BY <4>1 DEF SourceFilters
        <4>3. CASE call.filter.forbidSelected = TRUE
          <5>1. r \in call.filter.selected
            BY <3>1, <4>3
          <5>2. s \notin call.filter.selected
            BY <3>1, <4>3 DEF Matches
          <5> QED
            BY <5>1, <5>2
        <4>4. CASE call.filter.forbidSelected = FALSE
          <5>1. r \notin call.filter.selected
            BY <3>1, <4>4
          <5>2. s \in call.filter.selected
            <6>1. (s \in call.filter.selected) # FALSE
              BY <3>1, <4>4 DEF Matches
            <6>2. s \notin call.filter.selected => (s \in call.filter.selected) = FALSE
              OBVIOUS
            <6> QED
              BY <6>1, <6>2
          <5> QED
            BY <5>1, <5>2
        <4> QED
          BY <4>2, <4>3, <4>4
      <3>3. balance'[r] = balance[r]
        BY <2>2, <3>2, OtherSourcesRest
      <3> QED
        BY <3>1, <3>3 DEF SelectionIsRespected
    <2>3. CASE SecondSwap
      <3>1. call # Idle /\ call \in Calls
        BY <2>3, UnderWay DEF SecondSwap, LegDone, IInv
      <3>2. balance' = balance /\ call'.filter = call.filter /\ call'.saved = call.saved
        BY <2>3, <3>1 DEF SecondSwap, Calls
      <3> QED
        BY <3>1, <3>2 DEF SelectionIsRespected
    <2>4. CASE Commit \/ Fail
      BY <2>4 DEF Commit, Fail
    <2>5. CASE UNCHANGED vars
      BY <2>5 DEF vars, SelectionIsRespected
    <2> QED
      BY <2>1, <2>2, <2>3, <2>4, <2>5 DEF Next, Step
  <1> QED
    BY <1>1, <1>2, Invariant, PTL DEF Spec
=============================================================================
