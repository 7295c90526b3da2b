----------------------------- MODULE Portfolio -----------------------------
(***************************************************************************)
(* senpi-portfolio/scripts/portfolio.py: the report on a user's money in   *)
(* three buckets (idle in the embedded wallet, idle in strategy wallets,   *)
(* deployed in positions), told in steps.  Each step is a process of its   *)
(* own: it loads a state file, reads the platform call by call while money *)
(* keeps moving, replaces the file and prints its slice.  An agent runs    *)
(* the steps of a session one after the other and runs a step again when   *)
(* it was killed (the exec timeout) before it printed.                     *)
(*                                                                         *)
(* Money is counted in units larger than the tolerance of `reconciles`     *)
(* (2 dollars or 1%), and profit and loss are left out: the user's total   *)
(* does not change.                                                        *)
(***************************************************************************)
EXTENDS Integers, Sequences, FiniteSetsExt

CONSTANTS
    Wallet,         \* strategy wallets
    Funds,          \* the user's money, in units
    MaxMoves,       \* bound: times money moves
    MaxSessions,    \* bound: questions the user asks
    MaxMishaps,     \* bound: mishaps
    Mishaps,        \* kinds of mishap: "kill", "save", "fails", "detail", "empty"
    None            \* a value that is not there

ASSUME BoundsAssumption ==
    /\ Funds \in Nat
    /\ MaxMoves \in Nat
    /\ MaxSessions \in Nat
    /\ MaxMishaps \in Nat

\* A row of the report: what one strategy wallet holds.
Row == [idle_withdrawable : Nat, deployed : Nat, account_value : Nat]

\* None is told apart from every value.
ASSUME WalletAssumption == IsFiniteSet(Wallet) /\ None \notin Nat \cup Row

VARIABLES
    emb,        \* platform: idle money in the embedded wallet
    wal,        \* platform: what each strategy wallet holds
    listed,     \* platform: wallets whose strategy is ACTIVE
    file,       \* the state file, as _load_state reads it
    run,        \* the running step's process
    todo,       \* session: the steps the agent has yet to run
    still,      \* session: no money has moved since it began
    narrated,   \* session: the rows its `strategies` step told, once saved
    told,       \* the last slice printed
    moves, sessions, mishaps    \* counters of the bounds

world   == <<emb, wal, listed, moves>>
session == <<todo, still, narrated, sessions>>
vars    == <<emb, wal, listed, file, run, todo, still, narrated, told,
             moves, sessions, mishaps>>

Dex == {"main", "xyz"}

\* The session's steps: the full read, or one step for a narrow question.
Plans == {<<"money", "strategies", "positions">>, <<"money">>,
          <<"strategies">>, <<"positions">>, <<"all">>}

(***************************************************************************)
(* The bucket arithmetic.                                                  *)
(***************************************************************************)

NoRows == [w \in {} |-> None]

\* The two views of one wallet that the clearinghouse answers with: the idle
\* money is in both.
Clearinghouse(w) ==
    [d \in Dex |-> [accountValue |-> wal[w].idle + wal[w][d],
                    withdrawable |-> wal[w].idle]]

NoAnswer == [d \in Dex |-> [accountValue |-> 0, withdrawable |-> 0]]

Hydrate(view) ==
    LET idle == Max({view[d].withdrawable : d \in Dex})
        own(d) == Max({0, view[d].accountValue - idle})
    IN  [idle_withdrawable |-> idle,
         deployed |-> own("main") + own("xyz"),
         account_value |-> idle + own("main") + own("xyz")]

\* sum() over the values of f.
Sum(f) == FoldFunction(LAMBDA a, b : a + b, 0, f)

\* A sum over the rows; a row whose read failed has no money fields.
SumOf(rows, field) ==
    Sum([w \in DOMAIN rows |-> IF rows[w] = None THEN 0 ELSE rows[w][field]])

\* Mutant: whatever a strategy wallet is worth counts as idle in it.
TotalsConflated(embedded, rows, balance) ==
    LET idle  == IF embedded = None THEN 0 ELSE embedded
        grand == idle + SumOf(rows, "account_value")
    IN  [grand_total_usd |-> grand,
         idle_in_embedded |-> idle,
         idle_in_strategies |-> SumOf(rows, "account_value"),
         deployed_in_positions |-> SumOf(rows, "deployed"),
         reconciles |-> balance = None \/ balance = grand]

Totals(embedded, rows, balance) ==
    LET idle  == IF embedded = None THEN 0 ELSE embedded
        grand == idle + SumOf(rows, "account_value")
    IN  [grand_total_usd |-> grand,
         idle_in_embedded |-> idle,
         idle_in_strategies |-> SumOf(rows, "idle_withdrawable"),
         deployed_in_positions |-> SumOf(rows, "deployed"),
         reconciles |-> balance = None \/ balance = grand]

(***************************************************************************)
(* The state file.  `has` names the keys it holds.  Two fields are not in  *)
(* the code: lost says that a read behind strategies_full raised an error, *)
(* asof which session made the reads behind strategies_full (0: none).     *)
(***************************************************************************)

Blank == [has |-> {}, embedded |-> None, balance |-> None,
          full |-> NoRows, lost |-> FALSE, asof |-> 0, warned |-> FALSE]

Usable(state) == {"embedded_wallet", "portfolio_totals", "strategies_full"} \subseteq state.has

\* The dictionary each step saves, from the one it loaded and what it read.
SavedBy(step, loaded, data) ==
    CASE step = "money" ->
            [data EXCEPT !.has = loaded.has \cup {"embedded_wallet", "portfolio_totals"},
                         !.full = loaded.full, !.lost = loaded.lost,
                         !.asof = loaded.asof]
      [] step = "all" ->
            [data EXCEPT !.has = {"embedded_wallet", "strategies_full"}]
      [] OTHER ->
            [data EXCEPT !.has = loaded.has \cup {"embedded_wallet", "portfolio_totals",
                                                  "strategies_full"}]

\* What a kill inside _save_state leaves: the new text is written aside and
\* moved over the file in one step.
\* Mutant: it is written over the old one.
TornInPlace(state) == Blank

Torn(state) == state

(***************************************************************************)
(* The process of one step.                                                *)
(***************************************************************************)

Idle == [at |-> "idle", step |-> "money", loaded |-> Blank, data |-> Blank, left |-> {}]

Mishap(kind) == /\ kind \in Mishaps
                /\ mishaps < MaxMishaps
                /\ mishaps' = mishaps + 1

\* Loads the state; strategies and positions read nothing when it is usable.
\* Mutant: the warnings in a usable state are not carried forward.
CarriedForgets(state) == [state EXCEPT !.warned = FALSE]

Carried(state) == state

Begin ==
    /\ run.at = "idle"
    /\ todo # <<>>
    /\ LET step   == Head(todo)
           loaded == IF step = "all" THEN Blank ELSE file
           reuse  == step \in {"strategies", "positions"} /\ Usable(loaded)
       IN  run' = [at |-> IF reuse THEN "save" ELSE "embedded",
                   step |-> step,
                   loaded |-> loaded,
                   data |-> IF reuse THEN Carried(loaded)
                                     ELSE [Blank EXCEPT !.asof = sessions],
                   left |-> {}]
    /\ told' = None
    /\ UNCHANGED <<world, file, session, mishaps>>

\* fetch_embedded: an error leaves a warning and no totals, an empty answer
\* reads as zero without a total; user_get_me failing ("detail") only warns.
FetchEmbedded ==
    /\ run.at = "embedded"
    /\ \/ /\ run' = [run EXCEPT !.at = "list", !.data.embedded = emb, !.data.balance = Funds]
          /\ UNCHANGED mishaps
       \/ /\ Mishap("detail")
          /\ run' = [run EXCEPT !.at = "list", !.data.embedded = emb,
                                !.data.balance = Funds, !.data.warned = TRUE]
       \/ /\ Mishap("fails")
          /\ run' = [run EXCEPT !.at = "list", !.data.warned = TRUE]
       \/ /\ Mishap("empty")
          /\ run' = [run EXCEPT !.at = "list", !.data.embedded = 0]
    /\ UNCHANGED <<world, file, session, told>>

\* strategy_list: an error leaves no rows and a warning, an empty answer no
\* rows.  The mandate reads that follow ("detail") only warn.
ListStrategies ==
    /\ run.at = "list"
    /\ \/ /\ run' = [run EXCEPT !.at = "wallets", !.left = listed]
          /\ UNCHANGED mishaps
       \/ /\ Mishap("detail")
          /\ run' = [run EXCEPT !.at = "wallets", !.left = listed, !.data.warned = TRUE]
       \/ /\ Mishap("fails")
          /\ run' = [run EXCEPT !.at = "wallets", !.data.warned = TRUE, !.data.lost = TRUE]
       \/ /\ Mishap("empty")
          /\ run' = [run EXCEPT !.at = "wallets"]
    /\ UNCHANGED <<world, file, session, told>>

\* One wallet's clearinghouse state, read on a thread pool in any order.
\* Mutant: a wallet whose read failed is read again.
AddRowRetries(w, row, warned) ==
    run' = [run EXCEPT !.left = IF row = None THEN @ ELSE @ \ {w},
                       !.data.full = [v \in DOMAIN @ \cup {w} |-> IF v = w THEN row ELSE @[v]],
                       !.data.lost = @ \/ row = None,
                       !.data.warned = @ \/ warned]

AddRow(w, row, warned) ==
    run' = [run EXCEPT !.left = @ \ {w},
                       !.data.full = [v \in DOMAIN @ \cup {w} |-> IF v = w THEN row ELSE @[v]],
                       !.data.lost = @ \/ row = None,
                       !.data.warned = @ \/ warned]

HydrateWallet(w) ==
    /\ run.at = "wallets"
    /\ w \in run.left
    /\ \/ AddRow(w, Hydrate(Clearinghouse(w)), FALSE) /\ UNCHANGED mishaps
       \/ Mishap("detail") /\ AddRow(w, Hydrate(Clearinghouse(w)), TRUE)
       \/ Mishap("fails") /\ AddRow(w, None, TRUE)
       \/ Mishap("empty") /\ AddRow(w, Hydrate(NoAnswer), FALSE)
    /\ UNCHANGED <<world, file, session, told>>

Hydrated ==
    /\ run.at = "wallets"
    /\ run.left = {}
    /\ run' = [run EXCEPT !.at = "save"]
    /\ UNCHANGED <<world, file, session, told, mishaps>>

\* _save_state; its failure is swallowed.
Save ==
    /\ run.at = "save"
    /\ \/ /\ file' = SavedBy(run.step, run.loaded, run.data)
          /\ narrated' = IF run.step = "strategies" THEN run.data.full ELSE narrated
          /\ UNCHANGED mishaps
       \/ /\ Mishap("save")
          /\ UNCHANGED <<file, narrated>>
    /\ run' = [run EXCEPT !.at = "print"]
    /\ UNCHANGED <<world, todo, still, sessions, told>>

Tell ==
    /\ run.at = "print"
    /\ told' = [step |-> run.step,
                rows |-> run.data.full,
                balance |-> run.data.balance,
                totals |-> Totals(run.data.embedded, run.data.full, run.data.balance),
                lost |-> run.data.lost \/ run.data.embedded = None,
                asof |-> run.data.asof,
                warned |-> run.data.warned]
    /\ run' = Idle
    /\ todo' = Tail(todo)
    /\ UNCHANGED <<world, file, still, narrated, sessions, mishaps>>

Kill ==
    /\ run.at # "idle"
    /\ Mishap("kill")
    /\ run' = Idle
    /\ UNCHANGED <<world, file, session, told>>

KillWhileSaving ==
    /\ run.at = "save"
    /\ Mishap("kill")
    /\ file' = Torn(file)
    /\ run' = Idle
    /\ UNCHANGED <<world, session, told>>

(***************************************************************************)
(* The agent and the platform.                                             *)
(***************************************************************************)

\* A question; the agent may drop what is left of the one before.  The file is
\* the default one as the session before left it, or one that is not there
\* (--state names another, or the temporary directory was swept).
NewSession ==
    /\ run.at = "idle"
    /\ sessions < MaxSessions
    /\ sessions' = sessions + 1
    /\ todo' \in Plans
    /\ still' = TRUE
    /\ narrated' = None
    /\ told' = None
    /\ file' \in {file, Blank}
    /\ UNCHANGED <<world, run, mishaps>>

Moves == /\ moves < MaxMoves
         /\ moves' = moves + 1
         /\ still' = FALSE
         /\ UNCHANGED <<file, run, todo, narrated, told, sessions, mishaps>>

\* A strategy is created or topped up.
Fund(w) ==
    /\ emb > 0
    /\ emb' = emb - 1
    /\ wal' = [wal EXCEPT ![w].idle = @ + 1]
    /\ listed' = listed \cup {w}
    /\ Moves

\* A strategy is closed and its money returned.
Drain(w) ==
    /\ w \in listed
    /\ emb' = emb + wal[w].idle + wal[w].main + wal[w].xyz
    /\ wal' = [wal EXCEPT ![w] = [idle |-> 0, main |-> 0, xyz |-> 0]]
    /\ listed' = listed \ {w}
    /\ Moves

\* A strategy's status leaves ACTIVE or returns to it, its money where it is.
Toggle(w) ==
    /\ listed' = SymDiff(listed, {w})
    /\ UNCHANGED <<emb, wal>>
    /\ Moves

Enter(w, d) ==
    /\ wal[w].idle > 0
    /\ wal' = [wal EXCEPT ![w].idle = @ - 1, ![w][d] = @ + 1]
    /\ UNCHANGED <<emb, listed>>
    /\ Moves

Exit(w, d) ==
    /\ wal[w][d] > 0
    /\ wal' = [wal EXCEPT ![w].idle = @ + 1, ![w][d] = @ - 1]
    /\ UNCHANGED <<emb, listed>>
    /\ Moves

Platform == \E w \in Wallet :
    \/ Fund(w)
    \/ Drain(w)
    \/ Toggle(w)
    \/ \E d \in Dex : Enter(w, d) \/ Exit(w, d)

Init ==
    /\ wal \in [Wallet -> [idle : 0 .. Funds, main : 0 .. Funds, xyz : 0 .. Funds]]
    /\ emb = Funds - Sum([w \in Wallet |-> wal[w].idle + wal[w].main + wal[w].xyz])
    /\ emb >= 0
    /\ listed = Wallet
    /\ file = Blank
    /\ run = Idle
    /\ todo = <<>>
    /\ still = TRUE
    /\ narrated = None
    /\ told = None
    /\ moves = 0 /\ sessions = 0 /\ mishaps = 0

Next ==
    \/ NewSession
    \/ Platform
    \/ Begin
    \/ FetchEmbedded
    \/ ListStrategies
    \/ \E w \in Wallet : HydrateWallet(w)
    \/ Hydrated
    \/ Save
    \/ Tell
    \/ Kill
    \/ KillWhileSaving

Spec == Init /\ [][Next]_vars

(***************************************************************************)
(* Properties.                                                             *)
(***************************************************************************)

IsState(state) ==
    /\ state.has \subseteq {"embedded_wallet", "portfolio_totals", "strategies_full"}
    /\ state.embedded \in Nat \cup {None}
    /\ state.balance \in {Funds, None}
    /\ DOMAIN state.full \subseteq Wallet
    /\ \A w \in DOMAIN state.full : state.full[w] = None \/ state.full[w] \in Row
    /\ state.lost \in BOOLEAN
    /\ state.asof \in 0 .. sessions
    /\ state.warned \in BOOLEAN

\* The types; each wallet is read once.
TypeOK ==
    /\ emb \in 0 .. Funds
    /\ \A w \in Wallet : wal[w] \in [idle : 0 .. Funds, main : 0 .. Funds, xyz : 0 .. Funds]
    /\ listed \subseteq Wallet
    /\ IsState(file)
    /\ IsState(run.loaded) /\ IsState(run.data)
    /\ run.left \subseteq Wallet \ DOMAIN run.data.full
    /\ run.at \in {"idle", "embedded", "list", "wallets", "save", "print"}
    /\ still \in BOOLEAN

\* The buckets as they are.
TrueTotals ==
    <<emb, Sum([w \in Wallet |-> wal[w].idle]),
      Sum([w \in Wallet |-> wal[w].main + wal[w].xyz])>>

\* A slice with totals that carries no warning, whose grand total was checked
\* against the platform's own and whose rows the session read itself has every
\* dollar in its right bucket, if no money moved since the user asked (SKILL.md:
\* "Real-time, always").  Read errors, empty answers, kills, repeated steps and
\* what earlier sessions left in the file notwithstanding.
ReportIsTrue ==
    [][ ( /\ told' # told
          /\ told' # None
          /\ told'.step # "strategies"
          /\ told'.asof = sessions
          /\ ~ told'.warned
          /\ told'.balance # None
          /\ told'.totals.reconciles
          /\ still )
        => <<told'.totals.idle_in_embedded, told'.totals.idle_in_strategies,
             told'.totals.deployed_in_positions>> = TrueTotals ]_vars

\* A slice that rests on a read of this session that failed says so, also when
\* an earlier step made that read and this one only found its result in the
\* file, and whatever an earlier session had left there.
PartialIsWarned ==
    [][ (told' # told /\ told' # None /\ told'.asof = sessions /\ told'.lost)
        => told'.warned ]_vars

\* The positions a session analyses are those its strategies step narrated,
\* whatever moved in between and however often either step was killed.
PositionsFollowStrategies ==
    [][ (told' # told /\ told' # None /\ told'.step = "positions" /\ narrated # None)
        => told'.rows = narrated ]_vars
=============================================================================
