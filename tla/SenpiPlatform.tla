---------------------------- MODULE SenpiPlatform ----------------------------
(***************************************************************************)
(* The two services senpi-strategy-ops drives, as its scripts use them:    *)
(* the strategy backend (strategy_create_custom_strategy, strategy_list,   *)
(* strategy_close over MCP) and the runtime host (openclaw senpi runtime   *)
(* create | list | delete).  Both are outside the repository.              *)
(*                                                                         *)
(* Only strategies of one package are modelled.  Every strategy has a      *)
(* wallet of its own, so a strategy's id also stands for its wallet.  A    *)
(* runtime is registered under the name <package>-<instance>, so an        *)
(* instance also stands for its runtime's name.                            *)
(***************************************************************************)
EXTENDS Naturals, FiniteSets

CONSTANTS
    Inst,           \* the instances of the package
    Sid,            \* strategy ids (and wallets) the backend can hand out
    None,           \* no strategy, no wallet, no instance
    Mishaps,        \* the kinds of mishap this environment can meet
    MaxMishaps      \* bound: mishaps in one behaviour

ASSUME PlatformAssumption ==
    /\ None \notin Sid \cup Inst
    /\ IsFiniteSet(Inst) /\ IsFiniteSet(Sid)
    /\ MaxMishaps \in Nat

VARIABLES
    strategies,     \* backend: the record of every strategy id
    runtimes,       \* host: what is registered under every runtime name
    mishaps         \* mishaps so far

platform == <<strategies, runtimes, mishaps>>

\* "UNUSED" is an id the backend has not handed out; FUND_WALLET stands for
\* every status on the way to ACTIVE.
Status == {"UNUSED", "FUND_WALLET", "ACTIVE", "PAUSED", "CLOSING_POSITIONS",
           "CLOSED", "FAILED"}
DEAD_STATUSES == {"CLOSED", "FAILED"}
LIVE_STATUSES == Status \ (DEAD_STATUSES \cup {"UNUSED"})

\* named: the strategy carries the name <package>-<instance> create asked for.
\* lost is not in the code: the call that made it answered with an error create
\* takes for a refused name.
Strategy == [status : Status, inst : Inst \cup {None}, named : BOOLEAN,
             lost : BOOLEAN]

\* wallet = None: nothing is registered under the name.  A "broken" runtime
\* runs, but its scanner errs.
Runtime == [wallet : Sid \cup {None},
            health : {"running", "broken", "stopped"}]
NoRuntime == [wallet |-> None, health |-> "stopped"]

PlatformTypeOK ==
    /\ strategies \in [Sid -> Strategy]
    /\ runtimes \in [Inst -> Runtime]
    /\ mishaps \in 0 .. MaxMishaps

PlatformInit ==
    /\ strategies =
         [s \in Sid |-> [status |-> "UNUSED", inst |-> None, named |-> FALSE,
                         lost |-> FALSE]]
    /\ runtimes = [i \in Inst |-> NoRuntime]
    /\ mishaps = 0

Registered(i) == runtimes[i].wallet # None
Running(i)    == Registered(i) /\ runtimes[i].health # "stopped"

strategy_open(s) == strategies[s].status \in LIVE_STATUSES

\* One more mishap of an enabled kind, or none.
Mishap(kind) ==
    /\ kind \in Mishaps
    /\ mishaps < MaxMishaps
    /\ mishaps' = mishaps + 1
Smooth == UNCHANGED mishaps

SetStatus(s, status) ==
    strategies' = [strategies EXCEPT ![s].status = status]

(***************************************************************************)
(* What the platform does on its own.                                      *)
(***************************************************************************)
Activate(s) ==
    /\ strategies[s].status = "FUND_WALLET"
    /\ SetStatus(s, "ACTIVE")
    /\ UNCHANGED <<runtimes, mishaps>>

FundingFails(s) ==
    /\ strategies[s].status = "FUND_WALLET"
    /\ Mishap("funding")
    /\ SetStatus(s, "FAILED")
    /\ UNCHANGED runtimes

Flattened(s) ==
    /\ strategies[s].status = "CLOSING_POSITIONS"
    /\ SetStatus(s, "CLOSED")
    /\ UNCHANGED <<runtimes, mishaps>>

\* The user closes a strategy in the app: its runtime stays registered.
AppClose(s) ==
    /\ strategies[s].status \in {"ACTIVE", "PAUSED"}
    /\ Mishap("app_close")
    /\ SetStatus(s, "CLOSING_POSITIONS")
    /\ UNCHANGED runtimes

AppPause(s) ==
    /\ strategies[s].status = "ACTIVE"
    /\ Mishap("app_pause")
    /\ SetStatus(s, "PAUSED")
    /\ UNCHANGED runtimes

RuntimeFails(i) ==
    /\ Running(i)
    /\ \E health \in {"broken", "stopped"} \ {runtimes[i].health} :
         runtimes' = [runtimes EXCEPT ![i].health = health]
    /\ Mishap("runtime")
    /\ UNCHANGED strategies

\* The host supervises what is registered and brings it back.
RuntimeRecovers(i) ==
    /\ Registered(i)
    /\ runtimes[i].health # "running"
    /\ runtimes' = [runtimes EXCEPT ![i].health = "running"]
    /\ UNCHANGED <<strategies, mishaps>>

PlatformStep ==
    \/ \E s \in Sid : \/ Activate(s) \/ FundingFails(s) \/ Flattened(s)
                      \/ AppClose(s) \/ AppPause(s)
    \/ \E i \in Inst : RuntimeFails(i) \/ RuntimeRecovers(i)

(***************************************************************************)
(* The calls, as the scripts see them.                                     *)
(***************************************************************************)

\* strategy_create_custom_strategy takes effect: a fresh id, with or without a
\* name.
CreateStrategy(i, s, named, lost) ==
    /\ strategies[s].status = "UNUSED"
    /\ strategies' = [strategies EXCEPT ![s] =
                        [status |-> "FUND_WALLET", inst |-> i, named |-> named,
                         lost |-> lost]]

\* runtime create takes effect unless the name is taken ("already exists").
CreateRuntime(i, wallet) ==
    /\ ~Registered(i)
    /\ runtimes' = [runtimes EXCEPT ![i] =
                      [wallet |-> wallet, health |-> "running"]]

DeleteRuntime(i) == runtimes' = [runtimes EXCEPT ![i] = NoRuntime]
=============================================================================
