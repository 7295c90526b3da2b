------------------------------ MODULE Funding ------------------------------
(***************************************************************************)
(* senpi-strategy-ops/deploy.py plan_funding, and what cmd_create does     *)
(* with it: a budget is split over the instances by funding_share, each    *)
(* amount rounded to the cent and raised to the minimum of a wallet; if    *)
(* the balance does not cover the amounts and a fee for each wallet,       *)
(* create halts and names what would be covered.                           *)
(*                                                                         *)
(* Money is counted in cents, the balance in parts of a cent.  A shares'   *)
(* product that ends in half a cent is a float a little above or below it, *)
(* and round() goes to even, so either cent is a possible answer.  Every   *)
(* instance needs a wallet: a recorded one is discarded or closed first.   *)
(***************************************************************************)
EXTENDS Integers, FiniteSets, Functions

CONSTANTS
    Instances,
    Whole,          \* a funding_share is so many parts of Whole
    MinWallet,      \* MIN_WALLET, in cents
    FeeBuffer,      \* FEE_BUFFER, in cents
    CentParts,      \* the precision of the balance
    MaxCents,       \* bound: of a budget and of the balance
    None

VARIABLES
    share,          \* the package: funding_share of its instances
    balance,        \* platform: total_withdrawable, in parts of a cent
    budget,         \* --budget of the last create, or None
    read,           \* the balance it read, or None
    amounts,        \* what it planned for each instance
    usable          \* what its halt named, or None if it went on to fund

vars == <<share, balance, budget, read, amounts, usable>>

need == DOMAIN share

Total(f) == FoldFunction(LAMBDA a, b : a + b, 0, f)

\* round(a / d): the nearest integers.
Rounded(a, d) == {k \in (a \div d) .. (a \div d + 1) : 2 * (a - k * d) \in -d .. d}

Larger(a, b) == IF a > b THEN a ELSE b

Amount(b, i) == {Larger(MinWallet, k) : k \in Rounded(b * share[i], Whole)}

Plans(b) == {plan \in [need -> UNION {Amount(b, i) : i \in need}] :
                \A i \in need : plan[i] \in Amount(b, i)}

\* Mutant: the fee of one wallet is kept back.
UsableOneFee(available) ==
    {Larger(0, k) : k \in Rounded(available - FeeBuffer * CentParts, CentParts)}

Usable(available) ==
    {Larger(0, k) : k \in Rounded(available - FeeBuffer * CentParts * Cardinality(need), CentParts)}

\* Mutant: the halt names the balance.
NamedBalance(u) == balance \div CentParts

\* "re-run `create` with --budget <= ..."
Named(u) == u

\* create, up to its halt or its first strategy_create_custom_strategy.  A
\* balance that cannot be read stops nothing.
Create(b) ==
    /\ amounts' \in Plans(b)
    /\ budget' = b
    /\ \/ read' = None /\ usable' = None
       \/ /\ read' = balance
          /\ \E u \in Usable(balance) :
                usable' = IF Total(amounts') > u THEN Named(u) ELSE None
    /\ UNCHANGED <<share, balance>>

\* A deposit, a trade or a wallet of another strategy.
Moves ==
    /\ balance' \in 0 .. (MaxCents * CentParts)
    /\ budget' = None /\ read' = None /\ usable' = None
    /\ amounts' = [i \in need |-> 0]
    /\ UNCHANGED share

\* validate_pkg: the shares of a package sum to 1.
Init ==
    /\ \E insts \in (SUBSET Instances) \ {{}} : share \in [insts -> 1 .. Whole]
    /\ Total(share) = Whole
    /\ balance \in 0 .. (MaxCents * CentParts)
    /\ budget = None /\ read = None /\ usable = None
    /\ amounts = [i \in need |-> 0]

Next == Moves \/ \E b \in 0 .. MaxCents : Create(b)

Spec == Init /\ [][Next]_vars

(***************************************************************************)
(* Properties.                                                             *)
(***************************************************************************)
Halted == usable # None
Goes   == budget # None /\ ~Halted

\* A create that goes on funds every wallet with its share, to half a cent, or
\* with the minimum if that is more; the balance it read covers all of them and
\* their fees, to half a cent ("we never silently fund LESS than asked").
FundsWhatWasAsked ==
    Goes =>
        /\ \A i \in need : LET off == 2 * (amounts[i] * Whole - budget * share[i])
                           IN  /\ amounts[i] >= MinWallet
                               /\ off >= -Whole
                               /\ off > Whole => amounts[i] = MinWallet
        /\ read # None =>
             2 * CentParts * (Total(amounts) + FeeBuffer * Cardinality(need))
                =< 2 * read + CentParts

\* A create that halts on a budget its own halt calls covered ("re-run `create`
\* with --budget <= ...") does so because rounding or the minimum has raised the
\* amounts above the budget: by half a cent for a wallet, if none is at the
\* minimum.
HaltIsNear ==
    Halted /\ budget =< usable =>
        /\ Total(amounts) > budget
        /\ \/ 2 * (Total(amounts) - budget) =< Cardinality(need)
           \/ \E i \in need : amounts[i] = MinWallet /\ budget * share[i] < MinWallet * Whole
=============================================================================
