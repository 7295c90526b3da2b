-------------------------- MODULE Portfolio_proofs --------------------------
(***************************************************************************)
(* That the report is right, for any wallets and any funds, however often  *)
(* money moves, the user asks, and a step is killed, fails to save or reads*)
(* an error.                                                               *)
(***************************************************************************)
EXTENDS Portfolio, SumTheorems

Keys  == {"embedded_wallet", "portfolio_totals", "strategies_full"}
Steps == {"money", "strategies", "positions", "all"}

Tables == UNION {[S -> Row \cup {None}] : S \in SUBSET Wallet}

States == [has : SUBSET Keys, embedded : Nat \cup {None}, balance : {Funds, None},
           full : Tables, lost : BOOLEAN, asof : Nat, warned : BOOLEAN]

Runs == [at : {"idle", "embedded", "list", "wallets", "save", "print"}, step : Steps,
         loaded : States, data : States, left : SUBSET Wallet]

\* What a session has left, at any time.
Agendas == {<<>>, <<"money", "strategies", "positions">>, <<"strategies", "positions">>,
            <<"positions">>, <<"money">>, <<"strategies">>, <<"all">>}

Purses == [idle : Nat, main : Nat, xyz : Nat]

Worth == [w \in Wallet |-> wal[w].idle + wal[w].main + wal[w].xyz]

\* No dollar is made or lost by moving it.
Conserved ==
    /\ emb \in Nat
    /\ wal \in [Wallet -> Purses]
    /\ listed \subseteq Wallet
    /\ \E worth : worth = Worth /\ emb + Sum(worth) = Funds

Reading == {"list", "wallets", "save", "print"}

\* What a step holds before its first read.
Unread(data) ==
    /\ data.embedded = None /\ data.balance = None /\ data.full = NoRows
    /\ data.lost = FALSE /\ data.warned = FALSE

\* The types, and where a step is in its session.
TypeInv ==
    /\ Conserved
    /\ file \in States
    /\ run \in Runs
    /\ todo \in Agendas
    /\ still \in BOOLEAN
    /\ sessions \in Nat
    /\ run.left \cap DOMAIN run.data.full = {}
    /\ run.at = "embedded" => Unread(run.data)
    /\ run.at = "list" => run.data.full = NoRows
    /\ run.at # "idle" => todo # <<>> /\ run.step = Head(todo)

-----------------------------------------------------------------------------

(***************************************************************************)
(* Sums.                                                                   *)
(***************************************************************************)

LEMMA SumIsSums == ASSUME NEW f PROVE Sum(f) = PartSums(f)[DOMAIN f]
BY DEF Sum, FoldFunction, FoldFunctionOnSet, MapThenFoldSet, PartSums, Adds, AddStep, Some

\* A sum over some of the wallets is one over all of them, the others being zero.
LEMMA Extended ==
    ASSUME NEW T \in SUBSET Wallet, NEW a \in [T -> Int], NEW g \in [Wallet -> Int],
           \A w \in T : a[w] = g[w], \A w \in Wallet \ T : g[w] = 0
    PROVE  Sum(a) = Sum(g)
<1>1. IsFiniteSet(Wallet) /\ IsFiniteSet(T)
  BY WalletAssumption, FS_Subset
<1>2. Sum(a) = PartSums(a)[T] /\ Sum(g) = PartSums(g)[Wallet]
  BY SumIsSums
<1>3. PartSums(g)[Wallet] = PartSums(g)[T]
  BY <1>1, SumsZero
<1>4. T \in (SUBSET T) \cap (SUBSET Wallet)
  OBVIOUS
<1>5. PartSums(a)[T] = PartSums(g)[T]
  BY <1>1, <1>4, SumsAgree
<1> QED BY <1>2, <1>3, <1>5

(***************************************************************************)
(* The platform.                                                           *)
(***************************************************************************)

LEMMA WorthType ==
    ASSUME wal \in [Wallet -> Purses]
    PROVE  Worth \in [Wallet -> Nat] /\ Sum(Worth) \in Nat /\ \A w \in Wallet : Worth[w] <= Sum(Worth)
<1>1. Worth \in [Wallet -> Nat]
  BY DEF Worth, Purses
<1>2. IsFiniteSet(Wallet) /\ Sum(Worth) = PartSums(Worth)[Wallet]
  BY <1>1, WalletAssumption, SumIsSums
<1> QED BY <1>1, <1>2, SumsNat

\* Money moves out of and into one wallet.
LEMMA MovedLemma ==
    ASSUME Conserved, NEW w \in Wallet, NEW r \in Purses,
           wal' = [wal EXCEPT ![w] = r], emb' \in Nat, listed' \subseteq Wallet,
           emb' + r.idle + r.main + r.xyz = emb + wal[w].idle + wal[w].main + wal[w].xyz
    PROVE  Conserved'
<1>1. wal \in [Wallet -> Purses] /\ wal' \in [Wallet -> Purses] /\ emb \in Nat
  BY DEF Conserved
<1>2. PICK f : f = Worth
  OBVIOUS
<1>3. PICK h : h = [v \in Wallet |-> wal'[v].idle + wal'[v].main + wal'[v].xyz]
  OBVIOUS
<1>4. Worth' = h
  BY <1>3 DEF Worth
<1>5. f \in [Wallet -> Int] /\ h \in [Wallet -> Int]
  BY <1>1, <1>2, <1>3 DEF Worth, Purses
<1>6. \A v \in Wallet \ {w} : h[v] = f[v]
  BY <1>1, <1>2, <1>3 DEF Worth
<1>7. /\ f[w] = wal[w].idle + wal[w].main + wal[w].xyz
      /\ h[w] = r.idle + r.main + r.xyz
  BY <1>1, <1>2, <1>3 DEF Worth
<1>8. Sum(f) = PartSums(f)[Wallet] /\ Sum(h) = PartSums(h)[Wallet]
  BY <1>5, SumIsSums
<1>9. Sum(h) = Sum(f) - f[w] + h[w]
  BY <1>5, <1>6, <1>8, WalletAssumption, SumsUpdate
<1>10. Sum(f) \in Nat /\ emb + Sum(f) = Funds
  BY <1>1, <1>2, WorthType DEF Conserved
<1>11. wal[w] \in Purses
  BY <1>1
<1>12. emb' + Sum(h) = Funds
  <2>1. /\ wal[w].idle \in Nat /\ wal[w].main \in Nat /\ wal[w].xyz \in Nat
        /\ r.idle \in Nat /\ r.main \in Nat /\ r.xyz \in Nat
    BY <1>11 DEF Purses
  <2> QED BY <1>1, <1>7, <1>9, <1>10, <2>1
<1> QED BY <1>1, <1>4, <1>12 DEF Conserved

\* The platform keeps every dollar.
LEMMA PlatformConserves == ASSUME Conserved, Platform PROVE Conserved'
<1>0. emb \in Nat /\ wal \in [Wallet -> Purses] /\ listed \subseteq Wallet
  BY DEF Conserved
<1> SUFFICES ASSUME NEW w \in Wallet,
                    \/ Fund(w) \/ Drain(w) \/ Toggle(w)
                    \/ \E d \in Dex : Enter(w, d) \/ Exit(w, d)
             PROVE  Conserved'
  BY DEF Platform
<1> DEFINE p == wal[w]
<1>1. p \in Purses /\ p.idle \in Nat /\ p.main \in Nat /\ p.xyz \in Nat
  BY <1>0 DEF Purses
<1>2. CASE Fund(w)
  <2> DEFINE r == [p EXCEPT !.idle = @ + 1]
  <2>1. r \in Purses /\ r.idle = p.idle + 1 /\ r.main = p.main /\ r.xyz = p.xyz
    BY <1>1 DEF Purses
  <2>2. wal' = [wal EXCEPT ![w] = r] /\ emb' = emb - 1 /\ emb > 0 /\ listed' \subseteq Wallet
    BY <1>0, <1>2 DEF Fund
  <2> HIDE DEF r
  <2>3. /\ emb' \in Nat
        /\ emb' + r.idle + r.main + r.xyz = emb + wal[w].idle + wal[w].main + wal[w].xyz
    BY <1>0, <1>1, <2>1, <2>2
  <2> HIDE DEF p
  <2> QED BY <2>1, <2>2, <2>3, MovedLemma
<1>3. CASE Drain(w)
  <2> DEFINE r == [idle |-> 0, main |-> 0, xyz |-> 0]
  <2>1. r \in Purses /\ r.idle = 0 /\ r.main = 0 /\ r.xyz = 0
    BY DEF Purses
  <2>2. wal' = [wal EXCEPT ![w] = r] /\ emb' = emb + p.idle + p.main + p.xyz /\ listed' \subseteq Wallet
    BY <1>0, <1>3 DEF Drain
  <2> HIDE DEF r
  <2>3. /\ emb' \in Nat
        /\ emb' + r.idle + r.main + r.xyz = emb + wal[w].idle + wal[w].main + wal[w].xyz
    BY <1>0, <1>1, <2>1, <2>2
  <2> HIDE DEF p
  <2> QED BY <2>1, <2>2, <2>3, MovedLemma
<1>4. CASE Toggle(w)
  <2>1. listed' \subseteq Wallet /\ UNCHANGED <<emb, wal>>
    BY <1>0, <1>4 DEF Toggle, SymDiff
  <2>2. Worth' = Worth
    BY <2>1 DEF Worth
  <2> QED BY <2>1, <2>2 DEF Conserved
<1>5. ASSUME NEW d \in Dex, Enter(w, d) PROVE Conserved'
  <2> DEFINE m == IF d = "main" THEN p.main + 1 ELSE p.main
             x == IF d = "xyz" THEN p.xyz + 1 ELSE p.xyz
             r == [idle |-> p.idle - 1, main |-> m, xyz |-> x]
  <2>1. d = "main" \/ d = "xyz"
    BY DEF Dex
  <2>2. p.idle > 0 /\ wal' = [wal EXCEPT ![w].idle = @ - 1, ![w][d] = @ + 1] /\ UNCHANGED <<emb, listed>>
    BY <1>5 DEF Enter
  <2>3. p = [idle |-> p.idle, main |-> p.main, xyz |-> p.xyz]
    BY <1>1 DEF Purses
  <2>4. p.idle - 1 \in Nat /\ m \in Nat /\ x \in Nat /\ m + x = p.main + p.xyz + 1
    BY <1>1, <2>1, <2>2
  <2>5. wal' = [wal EXCEPT ![w] = r]
    <3>1. CASE d = "main"
      BY <1>0, <2>2, <2>3, <3>1 DEF Purses
    <3>2. CASE d = "xyz"
      BY <1>0, <2>2, <2>3, <3>2 DEF Purses
    <3> QED BY <2>1, <3>1, <3>2
  <2> HIDE DEF m, x
  <2>6. r \in Purses /\ r.idle = p.idle - 1 /\ r.main = m /\ r.xyz = x
    BY <2>4 DEF Purses
  <2> HIDE DEF r
  <2>7. emb' = emb /\ emb' \in Nat /\ listed' \subseteq Wallet
    BY <1>0, <2>2
  <2>8. emb' + r.idle + r.main + r.xyz = emb + p.idle + p.main + p.xyz
    <3>1. m + x \in Nat /\ r.idle + (m + x) = p.idle + (p.main + p.xyz)
      BY <1>1, <2>4, <2>6
    <3>2. /\ emb' + r.idle + r.main + r.xyz = emb' + (r.idle + (m + x))
          /\ emb + p.idle + p.main + p.xyz = emb + (p.idle + (p.main + p.xyz))
      BY <1>0, <1>1, <2>4, <2>6, <2>7
    <3> QED BY <2>7, <3>1, <3>2
  <2> QED BY <2>5, <2>6, <2>7, <2>8, MovedLemma
<1>6. ASSUME NEW d \in Dex, Exit(w, d) PROVE Conserved'
  <2> DEFINE m == IF d = "main" THEN p.main - 1 ELSE p.main
             x == IF d = "xyz" THEN p.xyz - 1 ELSE p.xyz
             r == [idle |-> p.idle + 1, main |-> m, xyz |-> x]
  <2>1. d = "main" \/ d = "xyz"
    BY DEF Dex
  <2>2. p[d] > 0 /\ wal' = [wal EXCEPT ![w].idle = @ + 1, ![w][d] = @ - 1] /\ UNCHANGED <<emb, listed>>
    BY <1>6 DEF Exit
  <2>3. p = [idle |-> p.idle, main |-> p.main, xyz |-> p.xyz]
    BY <1>1 DEF Purses
  <2>4. p.idle + 1 \in Nat /\ m \in Nat /\ x \in Nat /\ m + x = p.main + p.xyz - 1
    BY <1>1, <2>1, <2>2
  <2>5. wal' = [wal EXCEPT ![w] = r]
    <3>1. CASE d = "main"
      BY <1>0, <2>2, <2>3, <3>1 DEF Purses
    <3>2. CASE d = "xyz"
      BY <1>0, <2>2, <2>3, <3>2 DEF Purses
    <3> QED BY <2>1, <3>1, <3>2
  <2> HIDE DEF m, x
  <2>6. r \in Purses /\ r.idle = p.idle + 1 /\ r.main = m /\ r.xyz = x
    BY <2>4 DEF Purses
  <2> HIDE DEF r
  <2>7. emb' = emb /\ emb' \in Nat /\ listed' \subseteq Wallet
    BY <1>0, <2>2
  <2>8. emb' + r.idle + r.main + r.xyz = emb + p.idle + p.main + p.xyz
    <3>1. m + x \in Nat /\ r.idle + (m + x) = p.idle + (p.main + p.xyz)
      BY <1>1, <2>4, <2>6
    <3>2. /\ emb' + r.idle + r.main + r.xyz = emb' + (r.idle + (m + x))
          /\ emb + p.idle + p.main + p.xyz = emb + (p.idle + (p.main + p.xyz))
      BY <1>0, <1>1, <2>4, <2>6, <2>7
    <3> QED BY <2>7, <3>1, <3>2
  <2> QED BY <2>5, <2>6, <2>7, <2>8, MovedLemma
<1> QED BY <1>2, <1>3, <1>4, <1>5, <1>6

\* The idle money both views of a wallet have is counted once (_hydrate_money).
LEMMA HydrateView ==
    ASSUME NEW view, NEW i \in Nat, NEW m \in Nat, NEW x \in Nat,
           \A d \in Dex : view[d].withdrawable = i,
           view["main"].accountValue = i + m, view["xyz"].accountValue = i + x
    PROVE  Hydrate(view) = [idle_withdrawable |-> i, deployed |-> m + x, account_value |-> i + m + x]
<1>1. {view[d].withdrawable : d \in Dex} = {i}
  BY DEF Dex
<1>2. Max({i}) = i /\ \A n \in Nat : Max({0, n}) = n
  BY DEF Max
<1>3. view["main"].accountValue - i = m /\ view["xyz"].accountValue - i = x
  OBVIOUS
<1>4. Max({0, view["main"].accountValue - i}) = m /\ Max({0, view["xyz"].accountValue - i}) = x
  BY <1>2, <1>3
<1>5. Hydrate(view) =
        LET idle == Max({i})
        IN  [idle_withdrawable |-> idle,
             deployed |-> Max({0, view["main"].accountValue - idle})
                            + Max({0, view["xyz"].accountValue - idle}),
             account_value |-> idle + Max({0, view["main"].accountValue - idle})
                                 + Max({0, view["xyz"].accountValue - idle})]
  BY <1>1 DEF Hydrate
<1> QED BY <1>2, <1>4, <1>5

LEMMA HydrateLemma ==
    ASSUME Conserved, NEW w \in Wallet
    PROVE  Hydrate(Clearinghouse(w)) = [idle_withdrawable |-> wal[w].idle,
                                        deployed |-> wal[w].main + wal[w].xyz,
                                        account_value |-> wal[w].idle + wal[w].main + wal[w].xyz]
<1>1. wal[w].idle \in Nat /\ wal[w].main \in Nat /\ wal[w].xyz \in Nat
  BY DEF Conserved, Purses
<1>2. PICK view : view = Clearinghouse(w)
  OBVIOUS
<1>3. /\ \A d \in Dex : view[d].withdrawable = wal[w].idle
      /\ view["main"].accountValue = wal[w].idle + wal[w].main
      /\ view["xyz"].accountValue = wal[w].idle + wal[w].xyz
  BY <1>2 DEF Clearinghouse, Dex
<1> QED BY <1>1, <1>2, <1>3, HydrateView

LEMMA HydrateNothing ==
    Hydrate(NoAnswer) = [idle_withdrawable |-> 0, deployed |-> 0, account_value |-> 0]
<1>1. PICK view : view = NoAnswer
  OBVIOUS
<1>2. PICK z \in Nat : z = 0
  OBVIOUS
<1>3. /\ \A d \in Dex : view[d].withdrawable = z
      /\ view["main"].accountValue = z + z /\ view["xyz"].accountValue = z + z
  BY <1>1, <1>2 DEF NoAnswer, Dex
<1>4. Hydrate(view) = [idle_withdrawable |-> z, deployed |-> z + z, account_value |-> z + z + z]
  BY <1>3, HydrateView
<1> QED BY <1>1, <1>2, <1>4

LEMMA HydrateRow ==
    ASSUME Conserved, NEW w \in Wallet
    PROVE  Hydrate(Clearinghouse(w)) \in Row /\ Hydrate(NoAnswer) \in Row
<1>1. wal[w].idle \in Nat /\ wal[w].main \in Nat /\ wal[w].xyz \in Nat
  BY DEF Conserved, Purses
<1> QED BY <1>1, HydrateLemma, HydrateNothing DEF Row
-----------------------------------------------------------------------------

(***************************************************************************)
(* The process of a step, and its file.                                    *)
(***************************************************************************)

LEMMA BlankState == Blank \in States /\ NoRows \in Tables /\ DOMAIN NoRows = {}
<1>1. NoRows \in [{} -> Row \cup {None}] /\ DOMAIN NoRows = {}
  BY DEF NoRows
<1>2. {} \in SUBSET Wallet
  OBVIOUS
<1>3. NoRows \in Tables
  BY <1>1, <1>2 DEF Tables
<1> QED BY <1>1, <1>3 DEF Blank, States

LEMMA BlankSince ==
    ASSUME NEW n \in Nat
    PROVE  LET data == [Blank EXCEPT !.asof = n]
           IN  data \in States /\ data.asof = n /\ Unread(data)
<1>1. Blank.embedded = None /\ Blank.balance = None /\ Blank.full = NoRows
      /\ Blank.lost = FALSE /\ Blank.warned = FALSE
  BY DEF Blank
<1>2. PICK b \in States : b = Blank
  BY BlankState
<1>3. [b EXCEPT !.asof = n] \in States
  BY DEF States
<1>4. LET data == [b EXCEPT !.asof = n] IN data.asof = n /\ Unread(data)
  BY <1>1, <1>2 DEF States, Unread
<1> QED BY <1>2, <1>3, <1>4

LEMMA IdleRun == Idle \in Runs /\ Idle.at = "idle" /\ Idle.left = {}
BY BlankState DEF Idle, Runs, Steps

\* What is left of a session is its plan or what comes after.
LEMMA AgendaLemma ==
    ASSUME NEW t \in Agendas, t # <<>>
    PROVE  /\ Head(t) \in Steps /\ Tail(t) \in Agendas
           /\ Tail(t) # <<>> => Head(Tail(t)) \in {"strategies", "positions"}
           /\ Head(t) \in {"strategies", "positions"}
                => t \in {<<"strategies", "positions">>, <<"positions">>, <<"strategies">>}
           /\ Head(t) \in {"money", "all"}
                => t \in {<<"money", "strategies", "positions">>, <<"money">>, <<"all">>}
<1>1. /\ Tail(<<"money", "strategies", "positions">>) = <<"strategies", "positions">>
      /\ Tail(<<"strategies", "positions">>) = <<"positions">>
      /\ Tail(<<"positions">>) = <<>> /\ Tail(<<"money">>) = <<>>
      /\ Tail(<<"strategies">>) = <<>> /\ Tail(<<"all">>) = <<>>
  OBVIOUS
<1>2. /\ Head(<<"money", "strategies", "positions">>) = "money"
      /\ Head(<<"strategies", "positions">>) = "strategies"
      /\ Head(<<"positions">>) = "positions" /\ Head(<<"money">>) = "money"
      /\ Head(<<"strategies">>) = "strategies" /\ Head(<<"all">>) = "all"
  OBVIOUS
<1> QED BY <1>1, <1>2 DEF Agendas, Steps

\* What a step saves is a state; only those of its kind save one that is usable
\* whatever it was before (step_money, step_strategies, step_positions).
LEMMA SavedLemma ==
    ASSUME NEW step \in Steps, NEW loaded \in States, NEW data \in States
    PROVE  /\ SavedBy(step, loaded, data) \in States
           /\ step \in {"strategies", "positions"} =>
                /\ Usable(SavedBy(step, loaded, data))
                /\ \A field \in {"embedded", "balance", "full", "lost", "asof", "warned"} :
                     SavedBy(step, loaded, data)[field] = data[field]
           /\ step = "all" =>
                /\ "portfolio_totals" \notin SavedBy(step, loaded, data).has
                /\ SavedBy(step, loaded, data).asof = data.asof
           /\ step = "money" => SavedBy(step, loaded, data).asof = loaded.asof
<1>1. CASE step = "money"
  <2>1. SavedBy(step, loaded, data)
          = [data EXCEPT !.has = loaded.has \cup {"embedded_wallet", "portfolio_totals"},
                         !.full = loaded.full, !.lost = loaded.lost, !.asof = loaded.asof]
    BY <1>1 DEF SavedBy
  <2>2. /\ SavedBy(step, loaded, data) \in States
        /\ SavedBy(step, loaded, data).asof = loaded.asof
    BY <2>1 DEF States, Keys
  <2> QED BY <1>1, <2>2
<1>2. CASE step = "all"
  <2>1. SavedBy(step, loaded, data) = [data EXCEPT !.has = {"embedded_wallet", "strategies_full"}]
    BY <1>2 DEF SavedBy
  <2>2. /\ SavedBy(step, loaded, data) \in States
        /\ SavedBy(step, loaded, data).has = {"embedded_wallet", "strategies_full"}
        /\ SavedBy(step, loaded, data).asof = data.asof
    BY <2>1 DEF States, Keys
  <2> QED BY <1>2, <2>2
<1>3. CASE step \in {"strategies", "positions"}
  <2>1. SavedBy(step, loaded, data)
          = [data EXCEPT !.has = loaded.has \cup {"embedded_wallet", "portfolio_totals",
                                                  "strategies_full"}]
    BY <1>3 DEF SavedBy
  <2> QED BY <1>3, <2>1 DEF States, Keys, Usable
<1> QED BY <1>1, <1>2, <1>3 DEF Steps

\* What changes when the platform moves, and when a step's process does.
LEMMA TypeFrame ==
    ASSUME TypeInv, Conserved', file' = file, run' = run, todo' = todo, still' \in BOOLEAN,
           sessions' = sessions
    PROVE  TypeInv'
BY DEF TypeInv

LEMMA WorldFrame == ASSUME Conserved, UNCHANGED <<emb, wal, listed>> PROVE Conserved'
<1>1. Worth' = Worth
  BY DEF Worth
<1> QED BY <1>1 DEF Conserved

\* Adding the row of a wallet that was still to be read.
LEMMA AddRowLemma ==
    ASSUME TypeInv, NEW w \in run.left, NEW row \in Row \cup {None}, NEW warned \in BOOLEAN,
           AddRow(w, row, warned)
    PROVE  /\ run' \in Runs
           /\ run'.left \cap DOMAIN run'.data.full = {}
           /\ run'.at = run.at /\ run'.step = run.step /\ run'.loaded = run.loaded
           /\ run'.data.embedded = run.data.embedded /\ run'.data.balance = run.data.balance
           /\ run'.data.lost = (run.data.lost \/ row = None)
           /\ run'.data.warned = (run.data.warned \/ warned)
           /\ run'.data.asof = run.data.asof
           /\ DOMAIN run'.data.full = DOMAIN run.data.full \cup {w}
           /\ \A v \in DOMAIN run'.data.full :
                run'.data.full[v] = IF v = w THEN row ELSE run.data.full[v]
<1>1. run \in Runs /\ run.data \in States /\ run.left \in SUBSET Wallet
  BY DEF TypeInv, Runs
<1>2. PICK S \in SUBSET Wallet : run.data.full \in [S -> Row \cup {None}]
  BY <1>1 DEF States, Tables
<1> DEFINE full == [v \in S \cup {w} |-> IF v = w THEN row ELSE run.data.full[v]]
           data == [run.data EXCEPT !.full = full, !.lost = @ \/ row = None, !.warned = @ \/ warned]
<1>3. DOMAIN run.data.full = S
  BY <1>2
<1>4. run' = [run EXCEPT !.left = @ \ {w}, !.data = data]
  BY <1>1, <1>3 DEF AddRow, Runs, States
<1>5. full \in [S \cup {w} -> Row \cup {None}] /\ S \cup {w} \in SUBSET Wallet
  BY <1>1, <1>2
<1>6. full \in Tables
  <2> HIDE DEF full
  <2> QED BY <1>5 DEF Tables
<1>7. DOMAIN full = S \cup {w} /\ \A v \in S \cup {w} : full[v] = IF v = w THEN row ELSE run.data.full[v]
  OBVIOUS
<1> HIDE DEF full
<1>8. /\ data \in States /\ data.full = full
      /\ data.embedded = run.data.embedded /\ data.balance = run.data.balance
      /\ data.lost = (run.data.lost \/ row = None) /\ data.warned = (run.data.warned \/ warned)
      /\ data.asof = run.data.asof
  BY <1>1, <1>6 DEF States
<1> HIDE DEF data
<1>9. /\ run' \in Runs /\ run'.left = run.left \ {w} /\ run'.data = data
      /\ run'.at = run.at /\ run'.step = run.step /\ run'.loaded = run.loaded
  BY <1>1, <1>4, <1>8 DEF Runs
<1>10. run'.left \cap DOMAIN run'.data.full = {}
  BY <1>3, <1>7, <1>8, <1>9 DEF TypeInv
<1> QED BY <1>3, <1>7, <1>8, <1>9, <1>10

\* The outcomes of a wallet's read.
LEMMA HydrateOutcome ==
    ASSUME TypeInv, NEW w \in Wallet, HydrateWallet(w)
    PROVE  /\ run.at = "wallets" /\ w \in run.left
           /\ \E row \in Row \cup {None}, warned \in BOOLEAN :
                /\ AddRow(w, row, warned)
                /\ row = None => warned
                /\ ~ warned => row \in {Hydrate(Clearinghouse(w)), Hydrate(NoAnswer)}
<1>1. Hydrate(Clearinghouse(w)) \in Row /\ Hydrate(NoAnswer) \in Row
  BY HydrateRow DEF TypeInv
<1>2. Hydrate(Clearinghouse(w)) # None /\ Hydrate(NoAnswer) # None
  BY <1>1, WalletAssumption
<1>3. \/ AddRow(w, Hydrate(Clearinghouse(w)), FALSE)
      \/ AddRow(w, Hydrate(Clearinghouse(w)), TRUE)
      \/ AddRow(w, None, TRUE)
      \/ AddRow(w, Hydrate(NoAnswer), FALSE)
  BY DEF HydrateWallet
<1> QED BY <1>1, <1>2, <1>3 DEF HydrateWallet

\* A step begins with what its file has, or with nothing.
LEMMA BeginLemma ==
    ASSUME TypeInv, Begin
    PROVE  /\ run.at = "idle" /\ todo # <<>>
           /\ run' \in Runs /\ run'.step = Head(todo) /\ run'.left = {}
           /\ run'.loaded = IF Head(todo) = "all" THEN Blank ELSE file
           /\ \/ /\ Head(todo) \in {"strategies", "positions"} /\ Usable(file)
                 /\ run'.at = "save" /\ run'.data = file
              \/ /\ ~ (Head(todo) \in {"strategies", "positions"} /\ Usable(file))
                 /\ run'.at = "embedded" /\ Unread(run'.data) /\ run'.data.asof = sessions
<1> DEFINE step   == Head(todo)
           loaded == IF step = "all" THEN Blank ELSE file
           reuse  == step \in {"strategies", "positions"} /\ Usable(loaded)
           new    == [Blank EXCEPT !.asof = sessions]
<1>1. /\ run.at = "idle" /\ todo # <<>>
      /\ run' = [at |-> IF reuse THEN "save" ELSE "embedded", step |-> step, loaded |-> loaded,
                 data |-> IF reuse THEN loaded ELSE new, left |-> {}]
  BY DEF Begin, Carried
<1>2. step \in Steps /\ file \in States
  BY <1>1, AgendaLemma DEF TypeInv
<1>3. loaded \in States
  BY <1>2, BlankState
<1>10. new \in States /\ new.asof = sessions /\ Unread(new)
  BY BlankSince DEF TypeInv
<1> HIDE DEF new
<1>4. run' \in Runs
  BY <1>1, <1>2, <1>3, <1>10 DEF Runs
<1>5. reuse <=> step \in {"strategies", "positions"} /\ Usable(file)
  OBVIOUS
<1>6. reuse => loaded = file
  OBVIOUS
<1> HIDE DEF reuse, step, loaded
<1>7. run'.step = step /\ run'.left = {} /\ run'.loaded = loaded
      /\ run'.at = (IF reuse THEN "save" ELSE "embedded")
      /\ run'.data = (IF reuse THEN loaded ELSE new)
  BY <1>1
<1>8. CASE reuse
  BY <1>1, <1>4, <1>5, <1>6, <1>7, <1>8 DEF step, loaded
<1>9. CASE ~ reuse
  BY <1>1, <1>4, <1>5, <1>7, <1>9, <1>10 DEF step, loaded
<1> QED BY <1>8, <1>9

\* The outcomes of the embedded wallet's read.
LEMMA EmbeddedLemma ==
    ASSUME TypeInv, FetchEmbedded
    PROVE  /\ run' \in Runs /\ run'.at = "list" /\ run.at = "embedded"
           /\ run'.step = run.step /\ run'.loaded = run.loaded /\ run'.left = run.left
           /\ run'.data.full = NoRows /\ run'.data.lost = FALSE
           /\ run'.data.embedded = None => run'.data.warned
           /\ ~ run'.data.warned /\ run'.data.balance # None => run'.data.embedded = emb
           /\ run'.data.asof = run.data.asof
<1>1. run.at = "embedded" /\ run \in Runs /\ emb \in Nat
  BY DEF FetchEmbedded, TypeInv, Conserved
<1>2. emb # None /\ 0 # None /\ Funds \in {Funds, None}
  BY <1>1, WalletAssumption
<1>3. /\ run.data \in States
      /\ run.data.embedded = None /\ run.data.balance = None /\ run.data.full = NoRows
      /\ run.data.lost = FALSE /\ run.data.warned = FALSE
  BY <1>1 DEF TypeInv, Unread, Runs
<1>4. ASSUME NEW data \in States, run' = [run EXCEPT !.at = "list", !.data = data]
      PROVE  /\ run' \in Runs /\ run'.at = "list" /\ run'.data = data
             /\ run'.step = run.step /\ run'.loaded = run.loaded /\ run'.left = run.left
  BY <1>1, <1>4 DEF Runs
<1>5. PICK data \in States :
        /\ run' = [run EXCEPT !.at = "list", !.data = data]
        /\ data.full = NoRows /\ data.lost = FALSE
        /\ data.embedded = None => data.warned
        /\ ~ data.warned /\ data.balance # None => data.embedded = emb
        /\ data.asof = run.data.asof
  <2>1. CASE run' = [run EXCEPT !.at = "list", !.data.embedded = emb, !.data.balance = Funds]
    <3> DEFINE data == [run.data EXCEPT !.embedded = emb, !.balance = Funds]
    <3>1. run' = [run EXCEPT !.at = "list", !.data = data]
      BY <1>1, <1>3, <2>1 DEF Runs, States
    <3>2. /\ data \in States /\ data.embedded = emb /\ data.full = NoRows /\ data.lost = FALSE
          /\ data.asof = run.data.asof
      BY <1>1, <1>2, <1>3 DEF States
    <3> QED BY <1>2, <3>1, <3>2
  <2>2. CASE run' = [run EXCEPT !.at = "list", !.data.embedded = emb,
                                !.data.balance = Funds, !.data.warned = TRUE]
    <3> DEFINE data == [run.data EXCEPT !.embedded = emb, !.balance = Funds, !.warned = TRUE]
    <3>1. run' = [run EXCEPT !.at = "list", !.data = data]
      BY <1>1, <1>3, <2>2 DEF Runs, States
    <3>2. /\ data \in States /\ data.warned = TRUE /\ data.full = NoRows /\ data.lost = FALSE
          /\ data.asof = run.data.asof
      BY <1>1, <1>2, <1>3 DEF States
    <3> QED BY <3>1, <3>2
  <2>3. CASE run' = [run EXCEPT !.at = "list", !.data.warned = TRUE]
    <3> DEFINE data == [run.data EXCEPT !.warned = TRUE]
    <3>1. run' = [run EXCEPT !.at = "list", !.data = data]
      BY <1>1, <1>3, <2>3 DEF Runs, States
    <3>2. /\ data \in States /\ data.warned = TRUE /\ data.full = NoRows /\ data.lost = FALSE
          /\ data.asof = run.data.asof
      BY <1>3 DEF States
    <3> QED BY <3>1, <3>2
  <2>4. CASE run' = [run EXCEPT !.at = "list", !.data.embedded = 0]
    <3> DEFINE data == [run.data EXCEPT !.embedded = 0]
    <3>1. run' = [run EXCEPT !.at = "list", !.data = data]
      BY <1>1, <1>3, <2>4 DEF Runs, States
    <3>2. /\ data \in States /\ data.embedded = 0 /\ data.balance = None
          /\ data.full = NoRows /\ data.lost = FALSE
          /\ data.asof = run.data.asof
      BY <1>3 DEF States
    <3> QED BY <1>2, <3>1, <3>2
  <2> QED BY <2>1, <2>2, <2>3, <2>4 DEF FetchEmbedded
<1> QED BY <1>1, <1>4, <1>5
\* The outcomes of the list's read.
LEMMA ListLemma ==
    ASSUME TypeInv, ListStrategies
    PROVE  /\ run' \in Runs /\ run'.at = "wallets" /\ run.at = "list"
           /\ run'.step = run.step /\ run'.loaded = run.loaded
           /\ run'.data.full = run.data.full
           /\ run'.data.embedded = run.data.embedded /\ run'.data.balance = run.data.balance
           /\ run'.data.lost => run'.data.warned \/ run.data.lost
           /\ run.data.warned => run'.data.warned
           /\ run'.data.asof = run.data.asof
<1>1. run.at = "list" /\ run \in Runs /\ run.data \in States /\ listed \in SUBSET Wallet
  BY DEF ListStrategies, TypeInv, Conserved, Runs
<1>2. ASSUME NEW data \in States, NEW left \in SUBSET Wallet,
             run' = [run EXCEPT !.at = "wallets", !.left = left, !.data = data]
      PROVE  /\ run' \in Runs /\ run'.at = "wallets" /\ run'.data = data
             /\ run'.step = run.step /\ run'.loaded = run.loaded
  BY <1>1, <1>2 DEF Runs
<1>3. PICK data \in States, left \in SUBSET Wallet :
        /\ run' = [run EXCEPT !.at = "wallets", !.left = left, !.data = data]
        /\ data.full = run.data.full
        /\ data.embedded = run.data.embedded /\ data.balance = run.data.balance
        /\ data.lost => data.warned \/ run.data.lost
        /\ run.data.warned => data.warned
        /\ data.asof = run.data.asof
  <2>1. CASE run' = [run EXCEPT !.at = "wallets", !.left = listed]
    <3>1. run' = [run EXCEPT !.at = "wallets", !.left = listed, !.data = run.data]
      BY <1>1, <2>1 DEF Runs
    <3> QED BY <1>1, <3>1
  <2>2. CASE run' = [run EXCEPT !.at = "wallets", !.left = listed, !.data.warned = TRUE]
    <3> DEFINE data == [run.data EXCEPT !.warned = TRUE]
    <3>1. run' = [run EXCEPT !.at = "wallets", !.left = listed, !.data = data]
      BY <1>1, <2>2 DEF Runs, States
    <3>2. /\ data \in States /\ data.warned = TRUE /\ data.full = run.data.full
          /\ data.embedded = run.data.embedded /\ data.balance = run.data.balance
          /\ data.asof = run.data.asof
      BY <1>1 DEF States
    <3> QED BY <1>1, <3>1, <3>2
  <2>3. CASE run' = [run EXCEPT !.at = "wallets", !.data.warned = TRUE, !.data.lost = TRUE]
    <3> DEFINE data == [run.data EXCEPT !.warned = TRUE, !.lost = TRUE]
    <3>1. run' = [run EXCEPT !.at = "wallets", !.left = run.left, !.data = data]
      BY <1>1, <2>3 DEF Runs, States
    <3>2. /\ data \in States /\ data.warned = TRUE /\ data.full = run.data.full
          /\ data.embedded = run.data.embedded /\ data.balance = run.data.balance
          /\ data.asof = run.data.asof
      BY <1>1 DEF States
    <3>3. run.left \in SUBSET Wallet
      BY <1>1 DEF Runs
    <3> QED BY <3>1, <3>2, <3>3
  <2>4. CASE run' = [run EXCEPT !.at = "wallets"]
    <3>1. run' = [run EXCEPT !.at = "wallets", !.left = run.left, !.data = run.data]
      BY <1>1, <2>4 DEF Runs
    <3>2. run.left \in SUBSET Wallet
      BY <1>1 DEF Runs
    <3> QED BY <1>1, <3>1, <3>2
  <2> QED BY <2>1, <2>2, <2>3, <2>4 DEF ListStrategies
<1> QED BY <1>1, <1>2, <1>3

\* The platform touches no process and no file.
LEMMA PlatformMoves == Platform => Moves
BY DEF Platform, Fund, Drain, Toggle, Enter, Exit

\* A process keeps the types when what it holds and saves has them.
LEMMA ProcessFrame ==
    ASSUME TypeInv, UNCHANGED <<emb, wal, listed, still, sessions>>, file' \in States, run' \in Runs,
           todo' \in Agendas, run'.left \cap DOMAIN run'.data.full = {},
           run'.at = "embedded" => Unread(run'.data),
           run'.at = "list" => run'.data.full = NoRows,
           run'.at # "idle" => todo' # <<>> /\ run'.step = Head(todo')
    PROVE  TypeInv'
<1>1. Conserved'
  BY WorldFrame DEF TypeInv
<1> QED BY <1>1 DEF TypeInv, Unread

LEMMA TypeInit == Init => TypeInv
<1> SUFFICES ASSUME Init PROVE TypeInv
  OBVIOUS
<1>1. wal \in [Wallet -> Purses]
  BY BoundsAssumption DEF Init, Purses
<1>2. Sum([w \in Wallet |-> wal[w].idle + wal[w].main + wal[w].xyz]) = Sum(Worth)
  BY DEF Worth
<1>3. PICK s : s = Sum(Worth)
  OBVIOUS
<1>4. s \in Nat /\ emb = Funds - s /\ emb >= 0
  BY <1>1, <1>2, <1>3, WorthType DEF Init
<1>5. emb \in Nat /\ emb + s = Funds
  BY <1>4, BoundsAssumption
<1>6. Conserved
  BY <1>1, <1>3, <1>5 DEF Conserved, Init
<1>7. file \in States /\ run \in Runs /\ run.at = "idle" /\ run.left = {} /\ todo = <<>> /\ still = TRUE
      /\ sessions = 0
  BY BlankState, IdleRun DEF Init
<1> QED BY <1>6, <1>7 DEF TypeInv, Agendas

LEMMA TypeNext == ASSUME TypeInv, [Next]_vars PROVE TypeInv'
<1> USE DEF world, session
<1>0. /\ file \in States /\ run \in Runs /\ todo \in Agendas /\ still \in BOOLEAN
      /\ run.left \cap DOMAIN run.data.full = {}
      /\ run.loaded \in States /\ run.data \in States /\ run.step \in Steps
      /\ run.left \in SUBSET Wallet
      /\ run.at # "idle" => todo # <<>> /\ run.step = Head(todo)
      /\ sessions \in Nat
  BY DEF TypeInv, Runs
<1>a. Conserved
  BY DEF TypeInv
<1>1. CASE NewSession
  <2>1. Conserved'
    BY <1>1, <1>a, WorldFrame DEF NewSession
  <2>2. file' \in States /\ todo' \in Agendas /\ still' = TRUE /\ run' = run /\ run.at = "idle"
        /\ sessions' \in Nat
    BY <1>0, <1>1, BlankState DEF NewSession, Plans, Agendas
  <2> QED BY <1>0, <2>1, <2>2 DEF TypeInv, Unread
<1>2. CASE Platform
  <2>1. file' = file /\ run' = run /\ todo' = todo /\ still' = FALSE /\ sessions' = sessions
    BY <1>2, PlatformMoves DEF Moves
  <2>2. Conserved'
    BY <1>2, <1>a, PlatformConserves
  <2> QED BY <2>1, <2>2, TypeFrame
<1>3. CASE Begin
  <2>1. UNCHANGED <<emb, wal, listed, still, sessions, file, todo>>
    BY <1>3 DEF Begin
  <2> QED BY <1>0, <1>3, <2>1, BeginLemma, ProcessFrame
<1>4. CASE FetchEmbedded
  <2>1. UNCHANGED <<emb, wal, listed, still, sessions, file, todo>>
    BY <1>4 DEF FetchEmbedded
  <2>2. DOMAIN NoRows = {}
    BY BlankState
  <2> QED BY <1>0, <1>4, <2>1, <2>2, EmbeddedLemma, ProcessFrame
<1>5. CASE ListStrategies
  <2>1. UNCHANGED <<emb, wal, listed, still, sessions, file, todo>>
    BY <1>5 DEF ListStrategies
  <2>2. run.data.full = NoRows /\ DOMAIN NoRows = {}
    BY <1>5, BlankState DEF ListStrategies, TypeInv
  <2> QED BY <1>0, <1>5, <2>1, <2>2, ListLemma, ProcessFrame
<1>6. ASSUME NEW w \in Wallet, HydrateWallet(w) PROVE TypeInv'
  <2>1. UNCHANGED <<emb, wal, listed, still, sessions, file, todo>>
    BY <1>6 DEF HydrateWallet
  <2>2. /\ run' \in Runs /\ run'.left \cap DOMAIN run'.data.full = {}
        /\ run'.at = "wallets" /\ run.at = "wallets" /\ run'.step = run.step
    BY <1>6, HydrateOutcome, AddRowLemma
  <2> QED BY <1>0, <2>1, <2>2, ProcessFrame
<1>7. CASE Hydrated
  <2>1. UNCHANGED <<emb, wal, listed, still, sessions, file, todo>> /\ run' = [run EXCEPT !.at = "save"]
        /\ run.at = "wallets"
    BY <1>7 DEF Hydrated
  <2>2. /\ run' \in Runs /\ run'.at = "save" /\ run'.step = run.step
        /\ run'.data = run.data /\ run'.left = run.left
    BY <1>0, <2>1 DEF Runs
  <2> QED BY <1>0, <2>1, <2>2, ProcessFrame
<1>8. CASE Save
  <2>1. UNCHANGED <<emb, wal, listed, still, sessions, todo>> /\ run' = [run EXCEPT !.at = "print"]
        /\ run.at = "save" /\ (file' = file \/ file' = SavedBy(run.step, run.loaded, run.data))
    BY <1>8 DEF Save
  <2>2. /\ run' \in Runs /\ run'.at = "print" /\ run'.step = run.step
        /\ run'.data = run.data /\ run'.left = run.left
    BY <1>0, <2>1 DEF Runs
  <2>3. file' \in States
    BY <1>0, <2>1, SavedLemma
  <2> QED BY <1>0, <2>1, <2>2, <2>3, ProcessFrame
<1>9. CASE Tell
  <2>1. UNCHANGED <<emb, wal, listed, still, sessions, file>> /\ run' = Idle /\ todo' = Tail(todo)
        /\ run.at = "print"
    BY <1>9 DEF Tell
  <2>2. todo' \in Agendas
    BY <1>0, <2>1, AgendaLemma
  <2> QED BY <1>0, <2>1, <2>2, IdleRun, ProcessFrame
<1>10. CASE Kill \/ KillWhileSaving
  <2>1. UNCHANGED <<emb, wal, listed, still, sessions, file, todo>> /\ run' = Idle
    BY <1>10 DEF Kill, KillWhileSaving, Torn
  <2> QED BY <1>0, <2>1, IdleRun, ProcessFrame
<1>11. CASE UNCHANGED vars
  <2>1. UNCHANGED <<emb, wal, listed, file, run, todo, still, sessions>>
    BY <1>11 DEF vars
  <2>2. Conserved'
    BY <1>a, <2>1, WorldFrame
  <2> QED BY <1>0, <2>1, <2>2, TypeFrame
<1> QED BY <1>1, <1>2, <1>3, <1>4, <1>5, <1>6, <1>7, <1>8, <1>9, <1>10, <1>11 DEF Next

\* No session is ahead of the one that runs, and the money step of a session finds
\* no rows the session itself has read (SavedBy keeps what it finds).
AgeInv ==
    /\ file.asof <= sessions /\ run.loaded.asof <= sessions /\ run.data.asof <= sessions
    /\ todo # <<>> /\ Head(todo) = "money" => file.asof # sessions
    /\ run.at # "idle" /\ run.step = "money" => run.loaded.asof # sessions

LEMMA AgeInit == Init => AgeInv
BY DEF Init, AgeInv, Blank, Idle

LEMMA AgeNext == ASSUME TypeInv, AgeInv, [Next]_vars PROVE AgeInv'
<1> USE DEF world, session
<1>0. /\ run \in Runs /\ todo \in Agendas /\ file \in States
      /\ run.loaded \in States /\ run.data \in States /\ run.step \in Steps
      /\ run.at # "idle" => todo # <<>> /\ run.step = Head(todo)
      /\ sessions \in Nat
      /\ file.asof \in Nat /\ run.loaded.asof \in Nat /\ run.data.asof \in Nat
  BY DEF TypeInv, Runs, States
<1>b. Blank.asof = 0
  BY DEF Blank
<1>1. CASE NewSession
  <2>1. /\ sessions' = sessions + 1 /\ run' = run /\ run.at = "idle"
        /\ file'.asof \in {file.asof, 0}
    BY <1>1, <1>b DEF NewSession
  <2> QED BY <1>0, <2>1 DEF AgeInv
<1>2. CASE Platform
  BY <1>2, PlatformMoves DEF Moves, AgeInv
<1>3. CASE Begin
  <2>1. UNCHANGED <<file, todo, sessions>>
    BY <1>3 DEF Begin
  <2>2. run'.step = Head(todo) /\ run'.loaded.asof \in {0, file.asof}
    BY <1>3, <1>b, BeginLemma
  <2>3. run'.data.asof \in {sessions, file.asof}
    BY <1>3, BeginLemma
  <2>4. Head(todo) = "money" => run'.loaded = file
    BY <1>3, BeginLemma
  <2>5. todo # <<>>
    BY <1>3, BeginLemma
  <2> QED BY <1>0, <2>1, <2>2, <2>3, <2>4, <2>5 DEF AgeInv
<1>4. CASE FetchEmbedded \/ ListStrategies \/ (\E w \in Wallet : HydrateWallet(w)) \/ Hydrated
  <2>1. /\ run'.step = run.step /\ run'.loaded = run.loaded /\ run.at # "idle"
        /\ run'.data.asof = run.data.asof
    <3>1. CASE FetchEmbedded
      BY <3>1, EmbeddedLemma
    <3>2. CASE ListStrategies
      BY <3>2, ListLemma
    <3>3. ASSUME NEW w \in Wallet, HydrateWallet(w)
          PROVE  /\ run'.step = run.step /\ run'.loaded = run.loaded /\ run.at # "idle"
                 /\ run'.data.asof = run.data.asof
      BY <3>3, HydrateOutcome, AddRowLemma
    <3>4. CASE Hydrated
      BY <1>0, <3>4 DEF Hydrated, Runs
    <3> QED BY <1>4, <3>1, <3>2, <3>3, <3>4
  <2>2. UNCHANGED <<file, todo, sessions>>
    BY <1>4 DEF FetchEmbedded, ListStrategies, HydrateWallet, Hydrated
  <2> QED BY <2>1, <2>2 DEF AgeInv
<1>5. CASE Save
  <2>1. /\ run' = [run EXCEPT !.at = "print"] /\ UNCHANGED <<todo, sessions>> /\ run.at = "save"
        /\ \/ file' = SavedBy(run.step, run.loaded, run.data)
           \/ UNCHANGED file
    BY <1>5 DEF Save
  <2>2. run'.step = run.step /\ run'.loaded = run.loaded /\ run'.data = run.data
    BY <1>0, <2>1 DEF Runs
  <2>3. run.step = Head(todo) /\ todo # <<>>
    BY <1>0, <2>1
  <2>4. CASE UNCHANGED file
    BY <2>1, <2>2, <2>3, <2>4 DEF AgeInv
  <2>5. CASE file' = SavedBy(run.step, run.loaded, run.data)
    <3>1. file'.asof = IF run.step = "money" THEN run.loaded.asof ELSE run.data.asof
      BY <1>0, <2>5, SavedLemma DEF Steps
    <3> QED BY <1>0, <2>1, <2>2, <2>3, <3>1 DEF AgeInv
  <2> QED BY <2>1, <2>4, <2>5
<1>6. CASE Tell
  <2>1. UNCHANGED <<file, sessions>> /\ run' = Idle /\ run'.at = "idle" /\ todo' = Tail(todo)
        /\ todo # <<>>
    BY <1>0, <1>6, IdleRun DEF Tell
  <2>2. Tail(todo) # <<>> => Head(Tail(todo)) # "money"
    BY <1>0, <2>1, AgendaLemma
  <2>3. run'.loaded.asof = 0 /\ run'.data.asof = 0
    BY <1>b, <2>1 DEF Idle
  <2> QED BY <1>0, <2>1, <2>2, <2>3 DEF AgeInv
<1>7. CASE Kill \/ KillWhileSaving
  <2>1. UNCHANGED <<file, todo, sessions>> /\ run' = Idle /\ run'.at = "idle"
    BY <1>7, IdleRun DEF Kill, KillWhileSaving, Torn
  <2>2. run'.loaded.asof = 0 /\ run'.data.asof = 0
    BY <1>b, <2>1 DEF Idle
  <2> QED BY <1>0, <2>1, <2>2 DEF AgeInv
<1>8. CASE UNCHANGED vars
  BY <1>8 DEF vars, AgeInv
<1> QED BY <1>1, <1>2, <1>3, <1>4, <1>5, <1>6, <1>7, <1>8 DEF Next

\* No movement makes or loses a dollar, so every amount stays within the user's
\* funds, and no wallet is read twice in a step, for any wallets and funds.
THEOREM TypeTheorem == Spec => [](TypeOK /\ Conserved)
<1>1. TypeInv /\ AgeInv => TypeOK /\ Conserved
  <2> SUFFICES ASSUME TypeInv, AgeInv PROVE TypeOK
    BY DEF TypeInv
  <2>1. wal \in [Wallet -> Purses] /\ emb \in Nat /\ listed \subseteq Wallet
    BY DEF TypeInv, Conserved
  <2>2. PICK worth : worth = Worth /\ emb + Sum(worth) = Funds
    BY DEF TypeInv, Conserved
  <2>3. Sum(worth) \in Nat /\ \A w \in Wallet : worth[w] <= Sum(worth)
    BY <2>1, <2>2, WorthType
  <2>4. emb \in 0 .. Funds
    BY <2>1, <2>2, <2>3, BoundsAssumption
  <2>5. ASSUME NEW w \in Wallet
        PROVE  wal[w] \in [idle : 0 .. Funds, main : 0 .. Funds, xyz : 0 .. Funds]
    <3>1. /\ wal[w] \in Purses /\ wal[w].idle \in Nat /\ wal[w].main \in Nat /\ wal[w].xyz \in Nat
          /\ worth[w] = wal[w].idle + wal[w].main + wal[w].xyz
      BY <2>1, <2>2 DEF Worth, Purses
    <3>2. worth[w] <= Funds
      <4>1. worth[w] <= Sum(worth) /\ Sum(worth) <= Funds /\ worth[w] \in Nat
        BY <2>1, <2>2, <2>3, <3>1, BoundsAssumption
      <4> QED BY <2>3, <4>1, BoundsAssumption
    <3>3. wal[w].idle \in 0 .. Funds /\ wal[w].main \in 0 .. Funds /\ wal[w].xyz \in 0 .. Funds
      BY <3>1, <3>2, BoundsAssumption
    <3> QED BY <3>1, <3>3 DEF Purses
  <2>6. ASSUME NEW state \in States, state.asof <= sessions PROVE IsState(state)
    BY <2>6 DEF States, Tables, Keys, IsState, TypeInv
  <2>7. IsState(file) /\ IsState(run.loaded) /\ IsState(run.data)
    BY <2>6 DEF TypeInv, AgeInv, Runs
  <2>8. run.left \subseteq Wallet \ DOMAIN run.data.full
    BY DEF TypeInv, Runs
  <2> QED BY <2>1, <2>4, <2>5, <2>7, <2>8 DEF TypeInv, Runs, TypeOK
<1> QED BY <1>1, TypeInit, TypeNext, AgeInit, AgeNext, PTL DEF Spec
-----------------------------------------------------------------------------

(***************************************************************************)
(* The positions follow the strategies: once told, the rows are in a file  *)
(* that is usable, and every later step of the session starts from it.     *)
(***************************************************************************)
NarratedInv ==
    narrated # None =>
        /\ Usable(file) /\ file.full = narrated
        /\ todo # <<>> => Head(todo) \in {"strategies", "positions"}
        /\ run.at # "idle" => run.at \in {"save", "print"} /\ run.data.full = narrated

LEMMA NarratedNext == ASSUME TypeInv, NarratedInv, [Next]_vars PROVE NarratedInv'
<1> USE DEF world, session
<1>0. /\ run \in Runs /\ todo \in Agendas
      /\ run.loaded \in States /\ run.data \in States /\ run.step \in Steps
      /\ run.at # "idle" => todo # <<>> /\ run.step = Head(todo)
  BY DEF TypeInv, Runs
<1>1. CASE NewSession
  BY <1>1 DEF NewSession, NarratedInv
<1>2. CASE Platform
  BY <1>2, PlatformMoves DEF Moves, NarratedInv
<1>3. CASE Begin
  <2>1. UNCHANGED <<file, todo, narrated>>
    BY <1>3 DEF Begin
  <2> QED BY <1>3, <2>1, BeginLemma DEF NarratedInv
<1>4. CASE FetchEmbedded \/ ListStrategies \/ (\E w \in Wallet : HydrateWallet(w)) \/ Hydrated
  <2>1. run.at \in {"embedded", "list", "wallets"} /\ UNCHANGED <<file, todo, narrated>>
    BY <1>4 DEF FetchEmbedded, ListStrategies, HydrateWallet, Hydrated
  <2> QED BY <2>1 DEF NarratedInv
<1>5. CASE Save
  <2>1. /\ run' = [run EXCEPT !.at = "print"] /\ todo' = todo /\ run.at = "save"
        /\ \/ /\ file' = SavedBy(run.step, run.loaded, run.data)
              /\ narrated' = IF run.step = "strategies" THEN run.data.full ELSE narrated
           \/ UNCHANGED <<file, narrated>>
    BY <1>5 DEF Save
  <2>2. run'.at = "print" /\ run'.data = run.data
    BY <1>0, <2>1 DEF Runs
  <2>3. CASE UNCHANGED <<file, narrated>>
    BY <2>1, <2>2, <2>3 DEF NarratedInv
  <2>4. CASE /\ file' = SavedBy(run.step, run.loaded, run.data)
             /\ narrated' = IF run.step = "strategies" THEN run.data.full ELSE narrated
    <3>1. SUFFICES ASSUME narrated' # None PROVE NarratedInv'
      BY DEF NarratedInv
    <3>2. run.step = Head(todo) /\ todo # <<>>
      BY <1>0, <2>1
    <3>3. run.step \in {"strategies", "positions"} /\ narrated' = run.data.full
      BY <2>1, <2>4, <3>1, <3>2 DEF NarratedInv
    <3>4. Usable(file') /\ file'.full = run.data.full
      BY <1>0, <2>4, <3>3, SavedLemma
    <3>5. Usable(file)'
      BY <3>4 DEF Usable
    <3> QED BY <2>1, <2>2, <3>2, <3>3, <3>4, <3>5 DEF NarratedInv
  <2> QED BY <2>1, <2>3, <2>4
<1>6. CASE Tell
  <2>1. UNCHANGED <<file, narrated>> /\ run'.at = "idle" /\ todo' = Tail(todo) /\ todo # <<>>
    BY <1>0, <1>6, IdleRun DEF Tell
  <2> QED BY <1>0, <2>1, AgendaLemma DEF NarratedInv
<1>7. CASE Kill \/ KillWhileSaving
  <2>1. UNCHANGED <<file, todo, narrated>> /\ run'.at = "idle"
    BY <1>7, IdleRun DEF Kill, KillWhileSaving, Torn
  <2> QED BY <2>1 DEF NarratedInv
<1>8. CASE UNCHANGED vars
  BY <1>8 DEF vars, NarratedInv
<1> QED BY <1>1, <1>2, <1>3, <1>4, <1>5, <1>6, <1>7, <1>8 DEF Next

\* A slice is told by Tell alone.
LEMMA ToldByTell == ASSUME [Next]_vars, told' # told, told' # None PROVE Tell
<1> USE DEF world, session
<1>1. CASE UNCHANGED vars
  BY <1>1 DEF vars
<1>2. CASE Platform
  BY <1>2, PlatformMoves DEF Moves
<1>3. CASE Next /\ ~ Platform /\ ~ Tell
  BY <1>3 DEF Next, NewSession, Begin, FetchEmbedded, ListStrategies, HydrateWallet, Hydrated,
                Save, Kill, KillWhileSaving
<1> QED BY <1>1, <1>2, <1>3

\* What a slice is made of.
LEMMA ToldLemma ==
    ASSUME TypeInv, Tell
    PROVE  /\ run.at = "print" /\ run.data \in States
           /\ told'.step = run.step /\ told'.rows = run.data.full
           /\ told'.balance = run.data.balance
           /\ told'.totals = Totals(run.data.embedded, run.data.full, run.data.balance)
           /\ told'.lost => run.data.lost \/ run.data.embedded = None
           /\ told'.warned = run.data.warned /\ told'.asof = run.data.asof
BY DEF Tell, TypeInv, Runs

\* The positions a session analyses are those it narrated, for any wallets, any
\* moves of money and any number of sessions and mishaps (step_strategies,
\* step_positions, _save_state).
THEOREM PositionsTheorem == Spec => PositionsFollowStrategies
<1> DEFINE Follows == (told' # told /\ told' # None /\ told'.step = "positions" /\ narrated # None)
                        => told'.rows = narrated
<1>1. Init => TypeInv /\ NarratedInv
  BY TypeInit DEF Init, NarratedInv
<1>2. TypeInv /\ NarratedInv /\ [Next]_vars => (TypeInv /\ NarratedInv)'
  BY TypeNext, NarratedNext
<1>3. TypeInv /\ NarratedInv /\ [Next]_vars => [Follows]_vars
  <2> SUFFICES ASSUME TypeInv, NarratedInv, [Next]_vars, told' # told, told' # None, narrated # None
               PROVE  told'.rows = narrated
    OBVIOUS
  <2>1. Tell
    BY ToldByTell
  <2> QED BY <2>1, ToldLemma DEF NarratedInv
<1> QED BY <1>1, <1>2, <1>3, PTL DEF Spec, PositionsFollowStrategies

-----------------------------------------------------------------------------

(***************************************************************************)
(* A read that failed is not forgotten: the warning it left travels with   *)
(* the rows, through the file and into the later steps of the session that *)
(* made it.  Rows of an earlier session, which a money step saves again    *)
(* without their warnings, never count as the session's own (AgeInv).      *)
(***************************************************************************)
Warned(state) == state.lost \/ state.embedded = None => state.warned

WarnInv ==
    /\ Usable(file) /\ file.asof = sessions => Warned(file)
    /\ run.at \in Reading /\ run.data.asof = sessions => Warned(run.data)

\* What a save makes usable is as good as what was read.
LEMMA SaveFresh ==
    ASSUME TypeInv, AgeInv, run.at = "save", Usable(SavedBy(run.step, run.loaded, run.data)),
           SavedBy(run.step, run.loaded, run.data).asof = sessions
    PROVE  /\ run.step \in {"strategies", "positions"}
           /\ \A field \in {"embedded", "balance", "full", "lost", "asof", "warned"} :
                SavedBy(run.step, run.loaded, run.data)[field] = run.data[field]
<1>1. run.step \in Steps /\ run.loaded \in States /\ run.data \in States
  BY DEF TypeInv, Runs
<1>2. run.step \notin {"money", "all"}
  BY <1>1, SavedLemma DEF AgeInv, Usable
<1> QED BY <1>1, <1>2, SavedLemma DEF Steps

\* What a new session finds in the file is older than it.
LEMMA NewerLemma ==
    ASSUME TypeInv, AgeInv, NewSession
    PROVE  file'.asof # sessions' /\ run'.at = "idle"
<1>1. sessions \in Nat /\ file.asof \in Nat /\ file.asof <= sessions
  BY DEF TypeInv, AgeInv, States
<1>2. Blank.asof = 0
  BY DEF Blank
<1>3. sessions' = sessions + 1 /\ file'.asof \in {file.asof, 0} /\ run'.at = "idle"
  BY <1>2 DEF NewSession
<1> QED BY <1>1, <1>3

LEMMA WarnNext == ASSUME TypeInv, AgeInv, WarnInv, [Next]_vars PROVE WarnInv'
<1> USE DEF world, session
<1>0. /\ run \in Runs /\ file \in States /\ run.data \in States
  BY DEF TypeInv, Runs
<1>1. CASE NewSession
  <2>1. file'.asof # sessions' /\ run'.at = "idle"
    BY <1>1, NewerLemma
  <2> QED BY <2>1 DEF WarnInv, Reading
<1>2. CASE Platform
  BY <1>2, PlatformMoves DEF Moves, WarnInv
<1>3. CASE Begin
  <2>1. UNCHANGED <<file, sessions>>
    BY <1>3 DEF Begin
  <2> QED BY <1>3, <2>1, BeginLemma DEF WarnInv, Reading
<1>4. CASE FetchEmbedded
  <2>1. UNCHANGED <<file, sessions>>
    BY <1>4 DEF FetchEmbedded
  <2> QED BY <1>4, <2>1, EmbeddedLemma DEF WarnInv, Warned
<1>5. CASE ListStrategies
  <2>1. UNCHANGED <<file, sessions>>
    BY <1>5 DEF ListStrategies
  <2> QED BY <1>5, <2>1, ListLemma DEF WarnInv, Warned, Reading
<1>6. ASSUME NEW w \in Wallet, HydrateWallet(w) PROVE WarnInv'
  <2>1. UNCHANGED <<file, sessions>>
    BY <1>6 DEF HydrateWallet
  <2>2. /\ run.at = "wallets" /\ run'.data.embedded = run.data.embedded
        /\ run'.data.lost => run'.data.warned \/ run.data.lost
        /\ run.data.warned => run'.data.warned
        /\ run'.data.asof = run.data.asof
    <3>1. PICK row \in Row \cup {None}, warned \in BOOLEAN :
            AddRow(w, row, warned) /\ (row = None => warned)
      BY <1>6, HydrateOutcome
    <3>2. run.at = "wallets" /\ w \in run.left
      BY <1>6, HydrateOutcome
    <3>3. /\ run'.data.embedded = run.data.embedded
          /\ run'.data.lost = (run.data.lost \/ row = None)
          /\ run'.data.warned = (run.data.warned \/ warned)
          /\ run'.data.asof = run.data.asof
      BY <3>1, <3>2, AddRowLemma
    <3> QED BY <3>1, <3>2, <3>3
  <2> QED BY <2>1, <2>2 DEF WarnInv, Warned, Reading
<1>7. CASE Hydrated
  <2>1. UNCHANGED <<file, sessions>> /\ run.at = "wallets" /\ run'.data = run.data
    BY <1>0, <1>7 DEF Hydrated, Runs
  <2> QED BY <2>1 DEF WarnInv, Warned, Reading
<1>8. CASE Save
  <2>1. /\ run' = [run EXCEPT !.at = "print"] /\ run.at = "save"
        /\ \/ file' = SavedBy(run.step, run.loaded, run.data)
           \/ UNCHANGED file
        /\ UNCHANGED sessions
    BY <1>8 DEF Save
  <2>2. run'.data = run.data /\ (run.data.asof = sessions => Warned(run.data))
    BY <1>0, <2>1 DEF Runs, WarnInv, Reading
  <2>3. ASSUME file' = SavedBy(run.step, run.loaded, run.data), Usable(file'),
               file'.asof = sessions
        PROVE  Warned(file')
    <3>1. \A field \in {"embedded", "balance", "full", "lost", "asof", "warned"} :
            file'[field] = run.data[field]
      BY <2>1, <2>3, SaveFresh
    <3>2. /\ file'.lost = run.data.lost /\ file'.embedded = run.data.embedded
          /\ file'.warned = run.data.warned /\ run.data.asof = sessions
      BY <2>3, <3>1
    <3> QED BY <2>2, <3>2 DEF Warned
  <2> QED BY <2>1, <2>2, <2>3 DEF WarnInv, Warned, Usable
<1>9. CASE Tell \/ Kill \/ KillWhileSaving
  <2>1. UNCHANGED <<file, sessions>> /\ run'.at = "idle"
    BY <1>9, IdleRun DEF Tell, Kill, KillWhileSaving, Torn
  <2> QED BY <2>1 DEF WarnInv, Reading
<1>10. CASE UNCHANGED vars
  BY <1>10 DEF vars, WarnInv
<1> QED BY <1>1, <1>2, <1>3, <1>4, <1>5, <1>6, <1>7, <1>8, <1>9, <1>10 DEF Next

\* A slice that rests on a read of its session that failed says so, for any wallets
\* and any number of sessions and mishaps, whatever earlier sessions left in the
\* state file (fetch_embedded, fetch_strategy_money and the steps' warnings).
THEOREM PartialIsWarnedTheorem == Spec => PartialIsWarned
<1> DEFINE Says == (told' # told /\ told' # None /\ told'.asof = sessions /\ told'.lost)
                     => told'.warned
<1>1. Init => TypeInv /\ AgeInv /\ WarnInv
  BY TypeInit, AgeInit DEF Init, WarnInv, Blank, Idle, Usable, Reading
<1>2. TypeInv /\ AgeInv /\ WarnInv /\ [Next]_vars => (TypeInv /\ AgeInv /\ WarnInv)'
  BY TypeNext, AgeNext, WarnNext
<1>3. TypeInv /\ AgeInv /\ WarnInv /\ [Next]_vars => [Says]_vars
  <2> SUFFICES ASSUME TypeInv, WarnInv, [Next]_vars, told' # told, told' # None,
                      told'.asof = sessions, told'.lost
               PROVE  told'.warned
    OBVIOUS
  <2>1. Tell
    BY ToldByTell
  <2>2. run.at = "print" /\ (run.data.lost \/ run.data.embedded = None) /\ told'.warned = run.data.warned
        /\ run.data.asof = sessions
    BY <2>1, ToldLemma
  <2> QED BY <2>2 DEF WarnInv, Warned, Reading
<1> QED BY <1>1, <1>2, <1>3, PTL DEF Spec, PartialIsWarned
-----------------------------------------------------------------------------

(***************************************************************************)
(* The report is true: while no money moves, what was read without a       *)
(* warning is either what the platform has or an answer that was empty,    *)
(* and a dollar missing from the grand total is missed by `reconciles`.    *)
(***************************************************************************)
Truthful(state) ==
    /\ state.balance # None => state.embedded = emb
    /\ \A w \in DOMAIN state.full :
         state.full[w] \in {Hydrate(Clearinghouse(w)), Hydrate(NoAnswer)}

TruthInv ==
    still =>
        /\ Usable(file) /\ file.asof = sessions /\ ~ file.warned => Truthful(file)
        /\ run.at \in Reading /\ run.data.asof = sessions /\ ~ run.data.warned
             => Truthful(run.data)

\* The truth stays where it is while the platform does.
LEMMA TruthFrame ==
    ASSUME UNCHANGED <<emb, wal>>, NEW old, NEW new, Truthful(old),
           new.balance = old.balance, new.embedded = old.embedded, new.full = old.full
    PROVE  Truthful(new)'
<1>1. \A w : Clearinghouse(w)' = Clearinghouse(w)
  BY DEF Clearinghouse
<1>2. \A w : Hydrate(Clearinghouse(w))' = Hydrate(Clearinghouse(w))
  BY <1>1 DEF Hydrate
<1> QED BY <1>2 DEF Truthful

\* A file left alone stays true.
LEMMA FileTruth ==
    ASSUME TruthInv, still, UNCHANGED <<file, emb, wal, sessions>>, Usable(file)',
           file'.asof = sessions, ~ file'.warned
    PROVE  Truthful(file)'
<1>1. Usable(file) /\ ~ file.warned
  BY DEF Usable
<1>2. Truthful(file)
  BY <1>1 DEF TruthInv
<1>3. PICK f : f = file
  OBVIOUS
<1>4. Truthful(f)'
  BY <1>2, <1>3, TruthFrame
<1> QED BY <1>3, <1>4 DEF Truthful

\* What a step holds stays true while it reads no rows.
LEMMA DataTruth ==
    ASSUME TruthInv, still, UNCHANGED <<emb, wal>>, run.at \in Reading,
           run.data.asof = sessions, ~ run.data.warned,
           run'.data.balance = run.data.balance, run'.data.embedded = run.data.embedded,
           run'.data.full = run.data.full
    PROVE  Truthful(run.data)'
<1>1. Truthful(run.data)
  BY DEF TruthInv
<1>2. PICK d : d = run.data
  OBVIOUS
<1>3. PICK n : n = run'.data
  OBVIOUS
<1>4. Truthful(n)'
  BY <1>1, <1>2, <1>3, TruthFrame
<1> QED BY <1>3, <1>4 DEF Truthful

LEMMA TruthNext == ASSUME TypeInv, AgeInv, TruthInv, [Next]_vars PROVE TruthInv'
<1> USE DEF world, session
<1>0. run \in Runs /\ file \in States /\ run.data \in States
  BY DEF TypeInv, Runs
<1>1. CASE NewSession
  <2>1. file'.asof # sessions' /\ run'.at = "idle"
    BY <1>1, NewerLemma
  <2> QED BY <2>1 DEF TruthInv, Reading
<1>2. CASE Platform
  BY <1>2, PlatformMoves DEF Moves, TruthInv
<1>3. CASE Begin
  <2>1. UNCHANGED <<file, still, emb, wal, sessions>>
    BY <1>3 DEF Begin
  <2> SUFFICES ASSUME still
               PROVE  /\ Usable(file)' /\ file'.asof = sessions /\ ~ file'.warned
                           => Truthful(file)'
                      /\ run'.at \in Reading /\ run'.data.asof = sessions /\ ~ run'.data.warned
                           => Truthful(run.data)'
    BY <2>1 DEF TruthInv
  <2>2. Usable(file)' /\ file'.asof = sessions /\ ~ file'.warned => Truthful(file)'
    BY <2>1, FileTruth
  <2>3. run'.at \in Reading => Usable(file) /\ run'.data = file
    BY <1>3, BeginLemma DEF Reading
  <2> QED BY <2>1, <2>2, <2>3 DEF Truthful, Usable
<1>4. CASE FetchEmbedded
  <2>1. UNCHANGED <<file, still, emb, wal, sessions>>
    BY <1>4 DEF FetchEmbedded
  <2>2. /\ DOMAIN run'.data.full = {}
        /\ ~ run'.data.warned /\ run'.data.balance # None => run'.data.embedded = emb
    BY <1>4, EmbeddedLemma, BlankState
  <2>3. ~ run'.data.warned => Truthful(run.data)'
    BY <2>1, <2>2 DEF Truthful
  <2> QED BY <2>1, <2>3, FileTruth DEF TruthInv
<1>5. CASE ListStrategies
  <2>1. UNCHANGED <<file, still, emb, wal, sessions>>
    BY <1>5 DEF ListStrategies
  <2>2. /\ run.at \in Reading /\ run.data.warned => run'.data.warned
        /\ run'.data.balance = run.data.balance /\ run'.data.embedded = run.data.embedded
        /\ run'.data.full = run.data.full /\ run'.data.asof = run.data.asof
    BY <1>5, ListLemma DEF Reading
  <2>3. still /\ run.data.asof = sessions /\ ~ run'.data.warned => Truthful(run.data)'
    BY <1>5, <2>1, <2>2, ListLemma, DataTruth DEF Reading
  <2>4. still /\ Usable(file)' /\ file'.asof = sessions /\ ~ file'.warned => Truthful(file)'
    BY <2>1, FileTruth
  <2> QED BY <2>1, <2>2, <2>3, <2>4 DEF TruthInv
<1>6. ASSUME NEW w \in Wallet, HydrateWallet(w) PROVE TruthInv'
  <2>1. UNCHANGED <<file, still, emb, wal, sessions>>
    BY <1>6 DEF HydrateWallet
  <2>2. PICK row \in Row \cup {None}, warned \in BOOLEAN :
          AddRow(w, row, warned)
          /\ (~ warned => row \in {Hydrate(Clearinghouse(w)), Hydrate(NoAnswer)})
    BY <1>6, HydrateOutcome
  <2>3. run.at = "wallets" /\ w \in run.left
    BY <1>6, HydrateOutcome
  <2>4. /\ run'.data.embedded = run.data.embedded /\ run'.data.balance = run.data.balance
        /\ run'.data.warned = (run.data.warned \/ warned)
        /\ run'.data.asof = run.data.asof
        /\ DOMAIN run'.data.full = DOMAIN run.data.full \cup {w}
        /\ \A v \in DOMAIN run'.data.full :
             run'.data.full[v] = IF v = w THEN row ELSE run.data.full[v]
    BY <2>2, <2>3, AddRowLemma
  <2>5. ASSUME still, run.data.asof = sessions, ~ run'.data.warned PROVE Truthful(run.data)'
    <3>1. Truthful(run.data) /\ ~ warned
      BY <2>3, <2>4, <2>5 DEF TruthInv, Reading
    <3>2. PICK d : d = run'.data
      OBVIOUS
    <3>3. Truthful(d)
      BY <2>2, <2>4, <3>1, <3>2 DEF Truthful
    <3>4. Truthful(d)'
      BY <2>1, <3>3, TruthFrame
    <3> QED BY <3>2, <3>4 DEF Truthful
  <2>6. still /\ Usable(file)' /\ file'.asof = sessions /\ ~ file'.warned => Truthful(file)'
    BY <2>1, FileTruth
  <2>7. run'.data.asof = run.data.asof
    BY <2>4
  <2> QED BY <2>1, <2>5, <2>6, <2>7 DEF TruthInv
<1>7. CASE Hydrated
  <2>1. UNCHANGED <<file, still, emb, wal, sessions>> /\ run.at \in Reading /\ run'.data = run.data
    BY <1>0, <1>7 DEF Hydrated, Runs, Reading
  <2> QED BY <2>1, FileTruth, DataTruth DEF TruthInv
<1>8. CASE Save
  <2>1. /\ run' = [run EXCEPT !.at = "print"] /\ run.at = "save" /\ UNCHANGED <<still, emb, wal, sessions>>
        /\ \/ file' = SavedBy(run.step, run.loaded, run.data)
           \/ UNCHANGED file
        /\ UNCHANGED sessions
    BY <1>8 DEF Save
  <2>2. run'.data = run.data /\ run.at \in Reading
    BY <1>0, <2>1 DEF Runs, Reading
  <2>3. still /\ run.data.asof = sessions /\ ~ run.data.warned => Truthful(run.data)'
    BY <2>1, <2>2, DataTruth
  <2>4. ASSUME file' = SavedBy(run.step, run.loaded, run.data), Usable(file)', still, ~ file'.warned,
               file'.asof = sessions
        PROVE  Truthful(file)'
    <3>1. Usable(file')
      BY <2>4 DEF Usable
    <3>2. \A field \in {"embedded", "balance", "full", "lost", "asof", "warned"} :
            file'[field] = run.data[field]
      BY <2>1, <2>4, <3>1, SaveFresh
    <3>3. /\ file'.balance = run.data.balance /\ file'.embedded = run.data.embedded
          /\ file'.full = run.data.full /\ file'.warned = run.data.warned
          /\ run.data.asof = sessions
      BY <2>4, <3>2
    <3>4. Truthful(run.data)
      BY <2>2, <2>4, <3>3 DEF TruthInv
    <3>5. PICK f : f = file'
      OBVIOUS
    <3>6. PICK d : d = run.data
      OBVIOUS
    <3>7. Truthful(f)'
      BY <2>1, <3>3, <3>4, <3>5, <3>6, TruthFrame
    <3> QED BY <3>5, <3>7 DEF Truthful
  <2>5. still /\ Usable(file)' /\ file'.asof = sessions /\ ~ file'.warned => Truthful(file)'
    BY <2>1, <2>4, FileTruth
  <2> QED BY <2>1, <2>2, <2>3, <2>5 DEF TruthInv
<1>9. CASE Tell \/ Kill \/ KillWhileSaving
  <2>1. UNCHANGED <<file, still, emb, wal, sessions>> /\ run'.at = "idle"
    BY <1>9, IdleRun DEF Tell, Kill, KillWhileSaving, Torn
  <2> QED BY <2>1, FileTruth DEF TruthInv, Reading
<1>10. CASE UNCHANGED vars
  <2>1. UNCHANGED <<file, still, emb, wal, run, sessions>>
    BY <1>10 DEF vars
  <2> QED BY <2>1, FileTruth, DataTruth DEF TruthInv
<1> QED BY <1>1, <1>2, <1>3, <1>4, <1>5, <1>6, <1>7, <1>8, <1>9, <1>10 DEF Next

\* What is truthful and adds up to the user's funds is the truth, bucket by bucket.
LEMMA AddsUp ==
    ASSUME Conserved, NEW state \in States, Truthful(state),
           state.balance # None,
           Totals(state.embedded, state.full, state.balance).reconciles
    PROVE  LET totals == Totals(state.embedded, state.full, state.balance)
           IN  <<totals.idle_in_embedded, totals.idle_in_strategies,
                 totals.deployed_in_positions>> = TrueTotals
<1> DEFINE rows == state.full
           T    == DOMAIN rows
           a(field) == [w \in T |-> IF rows[w] = None THEN 0 ELSE rows[w][field]]
<1>0. /\ emb \in Nat /\ wal \in [Wallet -> Purses] /\ T \in SUBSET Wallet
      /\ state.balance = Funds /\ state.embedded = emb /\ emb # None
  <2>1. T \in SUBSET Wallet /\ state.balance = Funds
    BY DEF States, Tables
  <2> QED BY <2>1, WalletAssumption DEF Conserved, Truthful
<1>1. ASSUME NEW w \in Wallet
      PROVE  /\ wal[w].idle \in Nat /\ wal[w].main \in Nat /\ wal[w].xyz \in Nat
             /\ wal[w].main + wal[w].xyz \in Nat
             /\ Worth[w] = wal[w].idle + wal[w].main + wal[w].xyz
  BY <1>0 DEF Purses, Worth
<1>2. ASSUME NEW w \in T
      PROVE  /\ rows[w] # None /\ rows[w] \in Row
             /\ \/ /\ rows[w].idle_withdrawable = wal[w].idle
                   /\ rows[w].deployed = wal[w].main + wal[w].xyz
                   /\ rows[w].account_value = Worth[w]
                \/ /\ rows[w].idle_withdrawable = 0 /\ rows[w].deployed = 0
                   /\ rows[w].account_value = 0
  <2>1. w \in Wallet
    BY <1>0
  <2>2. rows[w] = Hydrate(Clearinghouse(w)) \/ rows[w] = Hydrate(NoAnswer)
    BY DEF Truthful
  <2>3. rows[w] \in Row
    BY <2>1, <2>2, HydrateRow
  <2> QED BY <1>1, <2>1, <2>2, <2>3, HydrateLemma, HydrateNothing, WalletAssumption
<1> HIDE DEF T
<1>3. PICK v : v = [w \in Wallet |-> IF w \in T THEN rows[w].account_value ELSE 0]
  OBVIOUS
<1>4. PICK worth : worth = Worth /\ emb + Sum(worth) = Funds
  BY DEF Conserved
<1>5. v \in [Wallet -> Nat] /\ worth \in [Wallet -> Nat] /\ \A w \in Wallet : v[w] <= worth[w]
  <2>1. \A w \in Wallet : v[w] \in Nat /\ worth[w] \in Nat /\ v[w] <= worth[w]
    BY <1>1, <1>2, <1>3, <1>4
  <2>2. DOMAIN v = Wallet /\ DOMAIN worth = Wallet
    BY <1>3, <1>4 DEF Worth
  <2> QED BY <1>3, <1>4, <2>1, <2>2 DEF Worth
<1>6. SumOf(rows, "account_value") = Sum(v)
  <2> DEFINE av == a("account_value")
  <2>1. SumOf(rows, "account_value") = Sum(av)
    BY DEF SumOf, T
  <2>2. av \in [T -> Int] /\ \A w \in T : av[w] = v[w]
    BY <1>0, <1>2, <1>3 DEF Row
  <2>3. \A w \in Wallet \ T : v[w] = 0
    BY <1>3
  <2>4. v \in [Wallet -> Int]
    BY <1>5
  <2> HIDE DEF av
  <2> QED BY <1>0, <2>1, <2>2, <2>3, <2>4, Extended
<1>7. Funds = emb + Sum(v)
  <2>1. Totals(state.embedded, rows, state.balance).reconciles
          <=> (state.balance = None \/ state.balance = emb + SumOf(rows, "account_value"))
    BY <1>0 DEF Totals
  <2> QED BY <1>0, <1>6, <2>1
<1>8. \A w \in Wallet : v[w] = worth[w]
  <2>1. Sum(v) = PartSums(v)[Wallet] /\ Sum(worth) = PartSums(worth)[Wallet]
    BY <1>5, SumIsSums
  <2>2. PartSums(v)[Wallet] \in Nat /\ PartSums(worth)[Wallet] \in Nat
    BY <1>5, WalletAssumption, SumsNat
  <2>3. PartSums(v)[Wallet] = PartSums(worth)[Wallet]
    <3>1. PICK p \in Nat : p = PartSums(v)[Wallet]
      BY <2>2
    <3>2. PICK q \in Nat : q = PartSums(worth)[Wallet]
      BY <2>2
    <3>3. PICK e \in Nat : e = emb
      BY <1>0
    <3>4. e + p = e + q
      BY <1>4, <1>7, <2>1, <3>1, <3>2, <3>3
    <3>5. p = q
      BY <3>4
    <3> QED BY <3>1, <3>2, <3>5
  <2> QED BY <1>5, <2>3, WalletAssumption, SumsEqual
<1>9. ASSUME NEW w \in Wallet
      PROVE  /\ w \in T => /\ rows[w].idle_withdrawable = wal[w].idle
                           /\ rows[w].deployed = wal[w].main + wal[w].xyz
             /\ w \notin T => wal[w].idle = 0 /\ wal[w].main + wal[w].xyz = 0
  <2>1. v[w] = Worth[w]
    BY <1>4, <1>8
  <2>0. v[w] = 0 => wal[w].idle = 0 /\ wal[w].main = 0 /\ wal[w].xyz = 0
    <3>1. PICK i \in Nat : i = wal[w].idle
      BY <1>1
    <3>2. PICK m \in Nat : m = wal[w].main
      BY <1>1
    <3>3. PICK x \in Nat : x = wal[w].xyz
      BY <1>1
    <3>4. v[w] = i + m + x
      BY <1>1, <2>1, <3>1, <3>2, <3>3
    <3>5. i + m + x = 0 => i = 0 /\ m = 0 /\ x = 0
      OBVIOUS
    <3> QED BY <3>1, <3>2, <3>3, <3>4, <3>5
  <2>2. CASE w \in T
    <3>1. v[w] = rows[w].account_value
      BY <1>3, <2>2
    <3>2. CASE rows[w].account_value = 0
      <4>1. wal[w].idle = 0 /\ wal[w].main = 0 /\ wal[w].xyz = 0
        BY <2>0, <3>1, <3>2
      <4> QED BY <1>2, <2>2, <4>1
    <3>3. CASE rows[w].account_value # 0
      BY <1>2, <2>2, <3>3
    <3> QED BY <3>2, <3>3
  <2>3. CASE w \notin T
    <3>1. v[w] = 0
      BY <1>3, <2>3
    <3> QED BY <2>0, <2>3, <3>1
  <2> QED BY <2>2, <2>3
<1>10. SumOf(rows, "idle_withdrawable") = Sum([w \in Wallet |-> wal[w].idle])
  <2> DEFINE av == a("idle_withdrawable")
             g  == [w \in Wallet |-> wal[w].idle]
  <2>1. SumOf(rows, "idle_withdrawable") = Sum(av)
    BY DEF SumOf, T
  <2>2. g \in [Wallet -> Int]
    BY <1>1
  <2>3. av \in [T -> Int] /\ \A w \in T : av[w] = g[w]
    BY <1>0, <1>1, <1>2, <1>9
  <2>4. \A w \in Wallet \ T : g[w] = 0
    BY <1>9
  <2> HIDE DEF av, g
  <2>5. Sum(av) = Sum(g)
    BY <1>0, <2>2, <2>3, <2>4, Extended
  <2> QED BY <2>1, <2>5 DEF g
<1>11. SumOf(rows, "deployed") = Sum([w \in Wallet |-> wal[w].main + wal[w].xyz])
  <2> DEFINE av == a("deployed")
             g  == [w \in Wallet |-> wal[w].main + wal[w].xyz]
  <2>1. SumOf(rows, "deployed") = Sum(av)
    BY DEF SumOf, T
  <2>2. g \in [Wallet -> Int]
    BY <1>1
  <2>3. av \in [T -> Int] /\ \A w \in T : av[w] = g[w]
    BY <1>0, <1>1, <1>2, <1>9
  <2>4. \A w \in Wallet \ T : g[w] = 0
    BY <1>9
  <2> HIDE DEF av, g
  <2>5. Sum(av) = Sum(g)
    BY <1>0, <2>2, <2>3, <2>4, Extended
  <2> QED BY <2>1, <2>5 DEF g
<1>12. /\ Totals(state.embedded, rows, state.balance).idle_in_embedded = emb
       /\ Totals(state.embedded, rows, state.balance).idle_in_strategies = SumOf(rows, "idle_withdrawable")
       /\ Totals(state.embedded, rows, state.balance).deployed_in_positions = SumOf(rows, "deployed")
  BY <1>0 DEF Totals
<1> QED BY <1>10, <1>11, <1>12 DEF TrueTotals

\* A slice without a warning, from rows its session read itself, whose grand total
\* reconciles has every dollar in its right bucket, for any wallets and funds, any
\* number of sessions, moves and mishaps, and whatever earlier sessions left in the
\* state file (_hydrate_money, _money_totals and the steps).
THEOREM ReportTheorem == Spec => ReportIsTrue
<1> DEFINE Told == ( /\ told' # told
                     /\ told' # None
                     /\ told'.step # "strategies"
                     /\ told'.asof = sessions
                     /\ ~ told'.warned
                     /\ told'.balance # None
                     /\ told'.totals.reconciles
                     /\ still )
                   => <<told'.totals.idle_in_embedded, told'.totals.idle_in_strategies,
                        told'.totals.deployed_in_positions>> = TrueTotals
<1>1. Init => TypeInv /\ AgeInv /\ TruthInv
  BY TypeInit, AgeInit DEF Init, TruthInv, Blank, Idle, Usable, Reading
<1>2. TypeInv /\ AgeInv /\ TruthInv /\ [Next]_vars => (TypeInv /\ AgeInv /\ TruthInv)'
  BY TypeNext, AgeNext, TruthNext
<1>3. TypeInv /\ AgeInv /\ TruthInv /\ [Next]_vars => [Told]_vars
  <2> SUFFICES ASSUME TypeInv, TruthInv, [Next]_vars, told' # told, told' # None,
                      told'.asof = sessions, ~ told'.warned, told'.balance # None, told'.totals.reconciles, still
               PROVE  <<told'.totals.idle_in_embedded, told'.totals.idle_in_strategies,
                        told'.totals.deployed_in_positions>> = TrueTotals
    OBVIOUS
  <2>1. Tell
    BY ToldByTell
  <2>2. /\ run.at = "print" /\ run.data \in States
        /\ told'.balance = run.data.balance
        /\ told'.totals = Totals(run.data.embedded, run.data.full, run.data.balance)
        /\ told'.warned = run.data.warned /\ run.data.asof = sessions
    BY <2>1, ToldLemma
  <2>3. Truthful(run.data)
    BY <2>2 DEF TruthInv, Reading
  <2> QED BY <2>2, <2>3, AddsUp DEF TypeInv
<1> QED BY <1>1, <1>2, <1>3, PTL DEF Spec, ReportIsTrue
=============================================================================
