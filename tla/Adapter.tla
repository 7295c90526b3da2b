------------------------------ MODULE Adapter ------------------------------
(***************************************************************************)
(* aftermath_runtime/adapter.py: one strategy loop calling tools, over     *)
(* ptb.py (preview, build, inspect), gas.py (the sponsor) and accounts.py  *)
(* (which account the wallet acts through).  A call is a sequence of       *)
(* requests; collateral moves, orders rest and fill, and the host signs    *)
(* and submits what was built, between any two of them.                    *)
(*                                                                         *)
(* An account stands for a capability of the wallet in the configured      *)
(* collateral and not an agent's.  One call of _cancel_all_and_verify      *)
(* reads the orders of the account in one step here; KillSwitch has the    *)
(* reading market by market, and the signals.                              *)
(***************************************************************************)
EXTENDS Integers, FiniteSets

CONSTANTS
    Accounts,       \* account ids
    MaxCollateral,  \* bound: the most an account holds
    MaxBuilt,       \* bound: built transactions the host has not submitted yet
    None

ASSUME AccountsAssumption == Accounts \subseteq Nat /\ IsFiniteSet(Accounts) /\ None \notin Accounts
ASSUME BoundsAssumption == MaxCollateral \in Nat \ {0} /\ MaxBuilt \in Nat

VARIABLES
    owned,          \* venue: the accounts of the wallet
    collateral,     \* venue: what each holds unallocated
    orders,         \* venue: the accounts with a resting order
    pinned,         \* RuntimeConfig.account_id
    config_armed,   \* RuntimeConfig.armed
    gas_mode,       \* RuntimeConfig.gas_mode
    sponsor,        \* GasConfig.sponsor has been resolved
    account,        \* AdapterState.account
    halted,         \* CircuitBreaker.halted_reason is set
    verified,       \* KillSwitch.verified: it fired, is spent, and says so
    call,           \* the tool being served
    built,          \* what the host was handed and has not submitted or dropped
    looked,         \* history: whose positions the strategy last read since it last built
    picks           \* history: the accounts selection has named since the last build

venue  == <<owned, collateral, orders>>
config == <<pinned, config_armed, gas_mode>>
vars   == <<owned, collateral, orders, pinned, config_armed, gas_mode, sponsor, account,
            halted, verified, call, built, looked, picks>>

\* The tools of toolspec.py that build, and the cancellation of the kill switch.
Provision == {"create", "create_custom_strategy"}
Previewed == {"open", "close_positions", "update", "pause", "cancel_all"}
Tools     == Provision \cup Previewed \cup {"top_up", "withdraw_funds"}

ASSUME NoneAssumption == None \notin Tools

Idle == [tool |-> None, at |-> "idle", account |-> None]
Tx   == [tool : Tools \ {"cancel_all"}, account : Accounts \cup {None}]

Calls == [tool    : Tools \cup {None},
          at      : {"idle", "gas", "account", "preview", "build", "reread"},
          account : owned \cup {None}]

\* The variables' types; a call past the account's resolution has one.
TypeOK ==
    /\ owned \subseteq Accounts
    /\ collateral \in [Accounts -> 0..MaxCollateral]
    /\ orders \subseteq owned
    /\ pinned \in Accounts \cup {None}
    /\ config_armed \in BOOLEAN
    /\ gas_mode \in {"sponsored", "self", "dynamic"}
    /\ sponsor \in BOOLEAN /\ halted \in BOOLEAN /\ verified \in BOOLEAN
    /\ account \in owned \cup {None}
    /\ call \in Calls
    /\ call.at \in {"preview", "reread"} => call.account # None
    /\ built \subseteq Tx
    /\ looked \in owned \cup {None}
    /\ picks \subseteq owned

(***************************************************************************)
(* accounts.py.                                                            *)
(***************************************************************************)
\* Mutant: the operator's pin is only a preference.
SelectIgnoresPin(own, amount) ==
    {a \in own : \A b \in own : \/ amount[a] > amount[b]
                                \/ amount[a] = amount[b] /\ a <= b}

\* The pinned account if the wallet owns it, otherwise the one with the most
\* collateral, the lowest id of several; none is an error of the caller.
Select(own, amount) ==
    IF pinned # None THEN own \cap {pinned}
    ELSE {a \in own : \A b \in own : \/ amount[a] > amount[b]
                                     \/ amount[a] = amount[b] /\ a <= b}

\* Mutant: account() asks the venue every time.
CurrentAlways == Select(owned, collateral)

\* AftermathAdapter.account: cached until something is built.
Current == IF account # None THEN {account} ELSE Select(owned, collateral)

\* Mutant: only the positions are dropped.
InvalidatePositionsOnly == account' = account

Invalidate == account' = None

(***************************************************************************)
(* The venue, its other users, and the host.                               *)
(***************************************************************************)
\* What selection names from now on too.
Notes == picks' = picks \cup Select(owned', collateral')

Moves(a) ==
    /\ a \in owned
    /\ \E c \in 0..MaxCollateral : collateral' = [collateral EXCEPT ![a] = c]
    /\ UNCHANGED <<owned, orders>>
    /\ Notes
    /\ UNCHANGED <<config, sponsor, account, halted, verified, call, built,
                   looked>>

Rests(a) ==
    /\ a \in owned \ orders
    /\ orders' = orders \cup {a}
    /\ UNCHANGED <<owned, collateral, config, sponsor, account, halted, verified, call,
                   built, looked, picks>>

Goes(a) ==
    /\ a \in orders
    /\ orders' = orders \ {a}
    /\ UNCHANGED <<owned, collateral, config, sponsor, account, halted, verified, call,
                   built, looked, picks>>

Delta(tool) == CASE tool = "open" -> {-1}
                 [] tool = "withdraw_funds" -> {-1}
                 [] tool = "top_up" -> {1}
                 [] tool = "close_positions" -> {0, 1}
                 [] OTHER -> {0}

\* A provisioning transaction makes a new account, the deposit included if the
\* host composed it; any other acts on its account.
Submit(tx) ==
    /\ tx \in built
    /\ built' = built \ {tx}
    /\ IF tx.tool \in Provision
       THEN \E a \in Accounts \ owned, c \in {0, 1} :
                /\ c = 1 => tx.tool = "create_custom_strategy"
                /\ owned' = owned \cup {a}
                /\ collateral' = [collateral EXCEPT ![a] = c]
                /\ UNCHANGED orders
       ELSE \E d \in Delta(tx.tool) :
                /\ collateral[tx.account] + d \in 0..MaxCollateral
                /\ collateral' = [collateral EXCEPT ![tx.account] = @ + d]
                /\ orders' = IF tx.tool = "pause" THEN orders \ {tx.account} ELSE orders
                /\ UNCHANGED owned
    /\ Notes
    /\ UNCHANGED <<config, sponsor, account, halted, verified, call, looked>>

Drop(tx) ==
    /\ tx \in built
    /\ built' = built \ {tx}
    /\ UNCHANGED <<venue, config, sponsor, account, halted, verified, call, looked, picks>>

(***************************************************************************)
(* The strategy loop between calls.                                        *)
(***************************************************************************)
Looping == call = Idle

\* strategy_get_clearinghouse_state and the other tools that read one account.
Look ==
    /\ Looping
    /\ \E a \in Current :
        /\ account' = a
        /\ looked' \in {looked, a}      \* the second request may fail
    /\ UNCHANGED <<venue, config, sponsor, halted, verified, call, built, picks>>

\* observe: a breach halts, and a halt stays.
Observe ==
    /\ Looping
    /\ ~halted
    /\ halted' = TRUE
    /\ UNCHANGED <<venue, config, sponsor, account, verified, call, built, looked, picks>>

ResetBreaker ==
    /\ Looping
    /\ halted
    /\ halted' = FALSE
    /\ UNCHANGED <<venue, config, sponsor, account, verified, call, built, looked, picks>>

Rearm ==
    /\ Looping
    /\ verified
    /\ verified' = FALSE
    /\ UNCHANGED <<venue, config, sponsor, account, halted, call, built, looked, picks>>

(***************************************************************************)
(* A call.                                                                 *)
(***************************************************************************)
\* Mutant: the breaker is not asked.
AllowsHalted == config_armed

\* call_tool refuses a building tool before it touches the network.
Allows == config_armed /\ ~halted

At(where) == call' = [call EXCEPT !.at = where]

Begin(t) ==
    /\ Looping
    /\ t \in Tools \ {"cancel_all"}
    /\ Allows
    /\ call' = [Idle EXCEPT !.tool = t, !.at = "gas"]
    /\ UNCHANGED <<venue, config, sponsor, account, halted, verified, built, looked, picks>>

\* Mutant: a handler that takes a cached account for one it has resolved.
AfterGasCached(tool) ==
    IF tool \in Provision THEN "build" ELSE IF account # None THEN "preview" ELSE "account"

AfterGas(tool) == IF tool \in Provision THEN "build" ELSE "account"

\* ensure_gas_ready: one request, for the first sponsored transaction only.
Gas ==
    /\ call.at = "gas"
    /\ sponsor' = (sponsor \/ gas_mode = "sponsored")
    /\ At(AfterGas(call.tool))
    /\ UNCHANGED <<venue, config, account, halted, verified, built, looked, picks>>

\* account_ref of the handler.
Resolve ==
    /\ call.at = "account"
    /\ \E a \in Current :
        /\ account' = a
        /\ call' = [call EXCEPT !.account = a,
                                !.at = IF call.tool \in Previewed THEN "preview" ELSE "build"]
    /\ UNCHANGED <<venue, config, sponsor, halted, verified, built, looked, picks>>

\* PtbPipeline.build: a refused preview raises, and nothing is built.
Preview ==
    /\ call.at = "preview"
    /\ At("build")
    /\ UNCHANGED <<venue, config, sponsor, account, halted, verified, built, looked, picks>>

\* What a builder answers, as far as inspect reads it: a transaction or not,
\* the sender it echoes if it does, a sponsor's signature or not, and the
\* arguments a deferred account leaves.
Answers == [txKind : BOOLEAN, sender : {"own", "other", "silent"}, sponsorSignature : BOOLEAN,
            deferred : BOOLEAN]

Inspect(answer, tool) ==
    /\ answer.txKind
    /\ answer.sender # "other"
    /\ gas_mode = "self" => ~answer.sponsorSignature
    /\ gas_mode = "sponsored" => answer.sponsorSignature
    /\ tool = "create_custom_strategy" => answer.deferred

\* The build is posted and inspected; only then is the cached state dropped.
\* The transaction of a cancel-all is dropped by its caller.
Build ==
    /\ call.at = "build"
    /\ \E answer \in Answers : Inspect(answer, call.tool)
    /\ Invalidate
    /\ picks' = Select(owned, collateral)
    /\ looked' = None
    /\ IF call.tool = "cancel_all"
       THEN At("reread") /\ UNCHANGED built
       ELSE /\ Cardinality(built) < MaxBuilt
            /\ call' = Idle
            /\ built' = built \cup {[tool |-> call.tool, account |-> call.account]}
    /\ UNCHANGED <<venue, config, sponsor, halted, verified>>

\* Whatever request fails, whatever is refused or does not pass inspection,
\* the call raises and leaves the cached state alone.  The sponsor may have
\* been resolved already, then that request is not made.
Raise ==
    /\ \/ call.at = "gas"                       \* or an argument, or the catalog
       \/ call.at \in {"account", "preview", "reread"}
       \/ call.at = "build" /\ \E answer \in Answers : ~Inspect(answer, call.tool)
    /\ call' = Idle
    /\ UNCHANGED <<venue, config, sponsor, account, halted, verified, built, looked, picks>>

(***************************************************************************)
(* The kill switch fires: _cancel_all_and_verify.                          *)
(***************************************************************************)
\* The orders of the account are read: none, or none that can be cancelled, or
\* on to the cancellation.  A reading that fails is a survivor: nothing changes.
CancelAll ==
    /\ Looping
    /\ ~verified
    /\ \E a \in Current :
        /\ account' = a
        /\ IF a \notin orders
           THEN /\ verified' = TRUE
                /\ UNCHANGED call
           ELSE /\ call' = IF config_armed
                           THEN [tool |-> "cancel_all", at |-> "gas", account |-> a]
                           ELSE Idle
                /\ UNCHANGED verified
    /\ UNCHANGED <<venue, config, sponsor, halted, built, looked, picks>>

\* The orders are read again, after the cached account has been dropped.
Reread ==
    /\ call.at = "reread"
    /\ \E a \in Current :
        /\ account' = a
        /\ verified' = (a \notin orders)
    /\ call' = Idle
    /\ UNCHANGED <<venue, config, sponsor, halted, built, looked, picks>>

Init ==
    /\ owned \in SUBSET Accounts
    /\ collateral \in [Accounts -> 0..MaxCollateral]
    /\ orders \in SUBSET owned
    /\ pinned \in Accounts \cup {None}
    /\ config_armed \in BOOLEAN
    /\ gas_mode \in {"sponsored", "self", "dynamic"}
    /\ sponsor = FALSE
    /\ account = None
    /\ halted = FALSE
    /\ verified = FALSE
    /\ call = Idle
    /\ built = {}
    /\ looked = None
    /\ picks = Select(owned, collateral)

CallStep == \/ \E t \in Tools : Begin(t)
            \/ Gas \/ Resolve \/ Preview \/ Build \/ Raise \/ CancelAll \/ Reread

LoopStep == Look \/ Observe \/ ResetBreaker \/ Rearm

VenueStep == \/ \E a \in Accounts : Moves(a) \/ Rests(a) \/ Goes(a)
             \/ \E tx \in built : Submit(tx) \/ Drop(tx)

Next == CallStep \/ LoopStep \/ VenueStep

Spec == Init /\ [][Next]_vars

(***************************************************************************)
(* Properties.                                                             *)
(***************************************************************************)

\* The account the adapter acts through is one that selection has named since
\* something was last built: no decision outlives a transaction of the
\* adapter's own in its cache (AdapterState: "every build path calls
\* invalidate()").
CacheYoungerThanBuild == account # None => account \in picks

\* What a strategy decides from the positions of an account is built for that
\* account, however the collateral has moved meanwhile, until the next build (a
\* cancellation of the kill switch that fails after its build is one).
ActsWhereItLooked ==
    [][\A tx \in built' \ built :
            tx.account # None /\ looked # None => tx.account = looked]_vars

\* A halted runtime hands nothing to the host (enforce_hard_limits: "STOP
\* TRADING NOW"), in any order of observations, calls and resets.
HaltHolds == [][halted => built' \subseteq built]_vars

\* A cancellation is verified on the account it was built for
\* (_cancel_all_and_verify: "RE-READ to prove it").  Collateral that moves between
\* the two resolutions of the account can make it another's: README, section 5.
VerifiedWhereCancelled ==
    [][call.at = "reread" /\ verified' => call.account \notin orders]_vars

\* With a pinned account it is.
PinnedVerified ==
    [][call.at = "reread" /\ verified' /\ pinned # None => call.account \notin orders]_vars
=============================================================================
