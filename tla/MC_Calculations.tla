-------------------------- MODULE MC_Calculations --------------------------
(***************************************************************************)
(* The calculations in one run: Fills and ExitMatch (review.py), Funding   *)
(* (deploy.py), Codec (codec.py) and the paged read AuditQuery             *)
(* (adapter.py).  They share no state; each behaviour is one of one of     *)
(* them, and the others rest.                                              *)
(***************************************************************************)
EXTENDS Integers, FiniteSets

CONSTANTS Coins, Sizes, Prices, MaxFills
CONSTANTS Trades, MaxTime, Window, MaxLag
CONSTANTS Instances, Whole, MinWallet, FeeBuffer, CentParts, MaxCents
CONSTANTS Places, Quanta, MaxDecimal
CONSTANTS Limit, MaxPages, MaxEvents
CONSTANT  None

ASSUME FillsAssumption ==
    Sizes \subseteq Nat \ {0} /\ Prices \subseteq Nat /\ MaxFills \in Nat

ASSUME ExitAssumption ==
    /\ MaxTime \in Nat /\ Window \in Nat /\ MaxLag \in Nat
    /\ None \notin 0 .. MaxTime

ASSUME FundingAssumption ==
    /\ IsFiniteSet(Instances)
    /\ Whole \in Nat \ {0} /\ CentParts \in Nat \ {0}
    /\ MinWallet \in Nat \ {0} /\ FeeBuffer \in Nat /\ MaxCents \in Nat
    /\ None \notin Int

ASSUME CodecAssumption ==
    Places \in Nat \ {0} /\ Quanta \subseteq Nat \ {0} /\ MaxDecimal \in Nat

ASSUME AuditAssumption ==
    Limit \in Nat \ {0} /\ MaxPages \in Nat /\ None \notin Int

VARIABLES fills, lost
VARIABLES closed, events
VARIABLES share, balance, budget, read, amounts, usable
VARIABLES quantum, decimal
VARIABLES newest, oldest, echoes, pages, start, cursor, rows, seen, at
VARIABLE  subject

F == INSTANCE Fills
E == INSTANCE ExitMatch
B == INSTANCE Funding
N == INSTANCE Codec
A == INSTANCE AuditQuery

fillsVars  == <<fills, lost>>
exitVars   == <<closed, events>>
budgetVars == <<share, balance, budget, read, amounts, usable>>
codecVars  == <<quantum, decimal>>
auditVars  == <<newest, oldest, echoes, pages, start, cursor, rows, seen, at>>
vars       == <<fillsVars, exitVars, budgetVars, codecVars, auditVars, subject>>

NoPackage ==
    /\ share = [i \in {} |-> 0] /\ amounts = [i \in {} |-> 0]
    /\ balance = 0
    /\ budget = None /\ read = None /\ usable = None

NoPrice == quantum = 1 /\ decimal = 0

Init ==
    /\ F!Init
    /\ E!Init
    /\ A!Init
    /\ \/ subject \in {"fills", "exit", "audit"} /\ NoPackage /\ NoPrice
       \/ subject = "funding" /\ B!Init /\ NoPrice
       \/ subject = "codec" /\ N!Init /\ NoPackage
    /\ echoes => subject = "audit"

Next ==
    /\ UNCHANGED subject
    /\ \/ /\ subject = "fills" /\ F!Next
          /\ UNCHANGED <<exitVars, budgetVars, codecVars, auditVars>>
       \/ /\ subject = "exit" /\ E!Next
          /\ UNCHANGED <<fillsVars, budgetVars, codecVars, auditVars>>
       \/ /\ subject = "funding" /\ B!Next
          /\ UNCHANGED <<fillsVars, exitVars, codecVars, auditVars>>
       \/ /\ subject = "codec" /\ N!Next
          /\ UNCHANGED <<fillsVars, exitVars, budgetVars, auditVars>>
       \/ /\ subject = "audit" /\ A!Next
          /\ UNCHANGED <<fillsVars, exitVars, budgetVars, codecVars>>

Spec == Init /\ [][Next]_vars

\* Fills: what the walk leaves open is the position the wallet holds.
LotsAreThePosition == F!LotsAreThePosition

\* Fills: a trade's entry is the price of the units it closes, first in first out.
EntryIsFirstIn == F!EntryIsFirstIn

\* Fills: the report leaves out only older closes than it has.
ReportIsNewest == F!ReportIsNewest

\* ExitMatch: a trade is given its own event by its order id, or when no other
\* trade closed nearby.
RightEvent == E!RightEvent

\* ExitMatch: undelayed events of different moments are never taken for each other.
NearestIsOwn == E!NearestIsOwn

\* Funding: a create that goes on funds what was asked, and the balance covers it.
FundsWhatWasAsked == B!FundsWhatWasAsked

\* Funding: a create within the advice of its own halt halts only by rounding or
\* by the minimum.
HaltIsNear == B!HaltIsNear

\* Codec: no bid, ask or size is worse than asked for, or a quantum off.
NeverWorse == N!NeverWorse

\* Codec: what it answers with reads back as itself.
RoundTrips == N!RoundTrips

\* AuditQuery: the pages have no gap and repeat nothing, whatever arrives.
NoGapNoRepeat == A!NoGapNoRepeat
=============================================================================
