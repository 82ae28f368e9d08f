--------------------------- MODULE AtomicExchange ---------------------------
(***************************************************************************)
(* What an exchange by liquidity-proxy promises, seen from outside its     *)
(* transaction: it happens at once and entirely or not at all, it moves    *)
(* nothing of anybody but the sender's input, the receiver's output and    *)
(* the liquidity of the sources, and it keeps the limit of the SwapAmount. *)
(* A sum of parts is rounded once for every source but one: that much may  *)
(* be missing of it, and may stay in the technical account that carries    *)
(* the base asset from one swap of a path to the next.                     *)
(***************************************************************************)
EXTENDS Integers

CONSTANTS
    Users,
    NumSources,   \* sources are numbered in the order the registry lists them
    Transit,      \* GetTechnicalAccountId
    Base, Others, \* the base asset and all others
    Amounts, Limits   \* the desired amounts and limits of a SwapAmount

ByInput == "WithDesiredInput"
ByOutput == "WithDesiredOutput"
Variants == {ByInput, ByOutput}

Sources == 1 .. NumSources
Assets == {Base} \cup Others
Account == Users \cup Sources \cup {Transit}
Dust == NumSources - 1

VARIABLE balance

\* construct_trivial_path: one swap when an end is the base asset, or else two.
Direct(input, output) == Base \in {input, output}

Exchange(sender, receiver, input, output, variant, amount, limit) ==
    LET paid == balance[sender][input] - balance'[sender][input]
        got == balance'[receiver][output] - balance[receiver][output]
        parked == balance'[Transit][Base] - balance[Transit][Base]
    IN  /\ balance' \in [Account -> [Assets -> Nat]]
        /\ paid >= 0 /\ got >= 0
        /\ IF Direct(input, output) THEN parked = 0 ELSE parked \in 0 .. Dust
        /\ \A a \in Others : balance'[Transit][a] = balance[Transit][a]
        /\ \A u \in Users, a \in Assets :
              <<u, a>> \notin {<<sender, input>>, <<receiver, output>>}
                 => balance'[u][a] = balance[u][a]
        /\ variant = ByInput => /\ paid \in (amount - Dust) .. amount
                                /\ got >= limit - (IF Direct(input, output) THEN Dust ELSE 0)
        /\ variant = ByOutput => /\ paid <= limit
                                 /\ Direct(input, output) => got \in (amount - Dust) .. amount

Init == balance \in [Account -> [Assets -> Nat]]

Next ==
    \E sender, receiver \in Users, input, output \in Assets, variant \in Variants,
       amount \in Amounts, limit \in Limits :
          /\ input # output
          /\ Exchange(sender, receiver, input, output, variant, amount, limit)

Spec == Init /\ [][Next]_balance
=============================================================================
