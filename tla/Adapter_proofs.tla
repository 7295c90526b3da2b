--------------------------- MODULE Adapter_proofs ---------------------------
(***************************************************************************)
(* The invariant behind Adapter's properties, for any accounts, bounds and *)
(* configuration: the cached account is one selection has named since the  *)
(* last build, it is the one whose positions were read and the one a call  *)
(* in flight has resolved, and a call in flight has passed the breaker.    *)
(***************************************************************************)
EXTENDS Adapter, TLAPS

\* The cache and what has been decided from it.
CacheInv ==
    /\ Select(owned, collateral) \subseteq picks
    /\ account # None => account \in picks
    /\ looked # None => account = looked
    /\ call.account # None /\ call.at # "reread" => account = call.account
    /\ call.at = "reread" => looked = None

\* The call in flight.
CallInv ==
    /\ call.at # "idle" => call.tool # None
    /\ call.tool = "cancel_all" => call.account # None /\ ~verified
    /\ call.at = "reread" => call.tool = "cancel_all"
    /\ call.tool \in Tools \ {"cancel_all"} => ~halted

\* The pin.
PinInv == pinned # None => account \in {None, pinned} /\ call.account \in {None, pinned}

IInv == TypeOK /\ CacheInv /\ CallInv /\ PinInv

\* accounts.py names accounts of the wallet, and only the pinned one if there
\* is one.
LEMMA SelectLemma ==
    ASSUME NEW own, NEW amount
    PROVE  /\ Select(own, amount) \subseteq own
           /\ pinned # None => Select(own, amount) \subseteq {pinned}
  BY DEF Select

\* account() answers with the cached account, or one that selection names.
LEMMA CurrentLemma ==
    ASSUME IInv, NEW a \in Current
    PROVE  /\ a \in owned /\ a \in Accounts /\ a # None /\ a \in picks
           /\ account # None => a = account
           /\ pinned # None => a = pinned
           /\ looked # None => a = looked
           /\ call.account # None /\ call.at # "reread" => a = call.account
<1>1. CASE account # None
  BY <1>1, AccountsAssumption DEF Current, IInv, TypeOK, Calls, CacheInv, PinInv
<1>2. CASE account = None
  BY <1>2, SelectLemma, AccountsAssumption DEF Current, IInv, TypeOK, Calls, CacheInv, PinInv
<1> QED BY <1>1, <1>2

LEMMA InitInv == Init => IInv
<1> SUFFICES ASSUME Init PROVE IInv
  OBVIOUS
<1>1. Select(owned, collateral) \subseteq owned
  BY SelectLemma
<1>2. TypeOK
  BY <1>1 DEF Init, TypeOK, Calls, Idle
<1> QED BY <1>2, NoneAssumption DEF Init, IInv, CacheInv, CallInv, PinInv, Idle, Tools, Provision, Previewed

\* Whatever is selected from now on is noted.
LEMMA NotesLemma ==
    ASSUME IInv, Notes, owned \subseteq owned', owned' \subseteq Accounts, UNCHANGED <<config, account>>
    PROVE  /\ picks' \subseteq owned'
           /\ Select(owned, collateral)' \subseteq picks'
           /\ picks \subseteq picks'
<1>1. Select(owned, collateral)' = Select(owned', collateral')
  BY DEF Select, config
<1>2. Select(owned', collateral') \subseteq owned'
  BY SelectLemma
<1> QED BY <1>1, <1>2 DEF Notes, IInv, TypeOK, Calls

\* The steps of the venue and of the host: the call and the cache stay.
LEMMA VenueInv ==
    ASSUME IInv, VenueStep
    PROVE  IInv'
<1>1. ASSUME NEW a \in Accounts, Moves(a) PROVE IInv'
  <2>1. /\ Notes
        /\ UNCHANGED <<owned, orders, config, sponsor, account, halted, verified, call, built, looked>>
    BY <1>1 DEF Moves
  <2>2. collateral' \in [Accounts -> 0..MaxCollateral]
    BY <1>1 DEF Moves, IInv, TypeOK, Calls
  <2>3. /\ picks' \subseteq owned' /\ picks \subseteq picks'
        /\ Select(owned, collateral)' \subseteq picks'
    BY <2>1, NotesLemma DEF IInv, TypeOK, Calls
  <2> QED BY <2>1, <2>2, <2>3 DEF IInv, TypeOK, Calls, CacheInv, CallInv, PinInv, config
<1>2. ASSUME NEW a \in Accounts, Rests(a) \/ Goes(a) PROVE IInv'
  <2>1. /\ orders' \subseteq owned
        /\ UNCHANGED <<owned, collateral, config, sponsor, account, halted, verified, call, built, looked, picks>>
    BY <1>2 DEF Rests, Goes, IInv, TypeOK, Calls
  <2>2. Select(owned, collateral)' = Select(owned, collateral)
    BY <2>1 DEF Select, config
  <2> QED BY <2>1, <2>2 DEF IInv, TypeOK, Calls, CacheInv, CallInv, PinInv, config
<1>3. ASSUME NEW tx \in built, Submit(tx) PROVE IInv'
  <2>1. /\ Notes /\ built' = built \ {tx}
        /\ UNCHANGED <<config, sponsor, account, halted, verified, call, looked>>
    BY <1>3 DEF Submit
  <2> DEFINE Typed == /\ owned \subseteq owned' /\ owned' \subseteq Accounts /\ orders' \subseteq owned'
                      /\ collateral' \in [Accounts -> 0..MaxCollateral]
  <2>2. ASSUME tx.tool \in Provision PROVE Typed
    <3>1. PICK a \in Accounts \ owned, c \in {0, 1} :
              /\ owned' = owned \cup {a}
              /\ \/ c = 0 \/ tx.tool = "create_custom_strategy"
              /\ collateral' = [collateral EXCEPT ![a] = c]
              /\ UNCHANGED orders
      BY <1>3, <2>2 DEF Submit
    <3>2. /\ owned \subseteq owned' /\ owned' \subseteq Accounts /\ orders' \subseteq owned'
          /\ collateral' \in [Accounts -> 0..MaxCollateral]
      BY <3>1, BoundsAssumption DEF IInv, TypeOK, Calls
    <3> QED BY <3>2
  <2>3. ASSUME tx.tool \notin Provision PROVE Typed
    <3>1. PICK d \in Delta(tx.tool) :
              /\ collateral[tx.account] + d \in 0..MaxCollateral
              /\ collateral' = [collateral EXCEPT ![tx.account] = @ + d]
              /\ orders' = IF tx.tool = "pause" THEN orders \ {tx.account} ELSE orders
              /\ UNCHANGED owned
      BY <1>3, <2>3 DEF Submit
    <3>2. collateral' \in [Accounts -> 0..MaxCollateral]
      BY <3>1 DEF IInv, TypeOK, Calls
    <3>3. orders' \subseteq owned
      BY <3>1 DEF IInv, TypeOK, Calls
    <3> QED BY <3>1, <3>2, <3>3 DEF IInv, TypeOK, Calls
  <2>4. Typed
    BY <2>2, <2>3
  <2>5. /\ picks' \subseteq owned' /\ picks \subseteq picks'
        /\ Select(owned, collateral)' \subseteq picks'
    BY <2>1, <2>4, NotesLemma
  <2>6. TypeOK'
    BY <2>1, <2>4, <2>5 DEF IInv, TypeOK, Calls, config
  <2>7. CacheInv' /\ CallInv' /\ PinInv'
    BY <2>1, <2>5 DEF IInv, CacheInv, CallInv, PinInv, config
  <2> QED BY <2>6, <2>7 DEF IInv
<1>4. ASSUME NEW tx \in built, Drop(tx) PROVE IInv'
  <2>1. /\ built' = built \ {tx}
        /\ UNCHANGED <<venue, config, sponsor, account, halted, verified, call, looked, picks>>
    BY <1>4 DEF Drop
  <2>2. Select(owned, collateral)' = Select(owned, collateral)
    BY <2>1 DEF Select, config, venue
  <2> QED BY <2>1, <2>2 DEF IInv, TypeOK, Calls, CacheInv, CallInv, PinInv, config, venue
<1> QED BY <1>1, <1>2, <1>3, <1>4 DEF VenueStep

\* The selection depends on the wallet's accounts and on the pin only.
LEMMA SelectSame ==
    ASSUME UNCHANGED <<owned, collateral, pinned>>
    PROVE  Select(owned, collateral)' = Select(owned, collateral)
  BY DEF Select

\* The strategy loop between two calls.
LEMMA LoopInv ==
    ASSUME IInv, LoopStep
    PROVE  IInv'
<1>1. CASE Look
  <2>1. PICK a \in Current : account' = a /\ looked' \in {looked, a}
    BY <1>1 DEF Look
  <2>2. /\ call = Idle
        /\ UNCHANGED <<venue, config, sponsor, halted, verified, call, built, picks>>
    BY <1>1 DEF Look, Looping
  <2>3. Select(owned, collateral)' = Select(owned, collateral)
    BY <2>2, SelectSame DEF venue, config
  <2>4. /\ a \in owned /\ a \in picks /\ (pinned # None => a = pinned)
        /\ (looked # None => a = looked)
    BY CurrentLemma
  <2> QED BY <2>1, <2>2, <2>3, <2>4 DEF IInv, TypeOK, Calls, CacheInv, CallInv, PinInv, Idle, venue, config
<1>2. CASE Observe
  <2>1. /\ call = Idle /\ halted' = TRUE
        /\ UNCHANGED <<venue, config, sponsor, account, verified, call, built, looked, picks>>
    BY <1>2 DEF Observe, Looping
  <2>2. Select(owned, collateral)' = Select(owned, collateral)
    BY <2>1, SelectSame DEF venue, config
  <2>3. TypeOK'
    BY <2>1, <2>2 DEF IInv, TypeOK, Calls, venue, config
  <2> QED BY <2>1, <2>2, <2>3, NoneAssumption DEF IInv, CacheInv, CallInv, PinInv, Idle, venue, config
<1>3. CASE ResetBreaker
  <2>1. /\ halted' = FALSE
        /\ UNCHANGED <<venue, config, sponsor, account, verified, call, built, looked, picks>>
    BY <1>3 DEF ResetBreaker
  <2>2. Select(owned, collateral)' = Select(owned, collateral)
    BY <2>1, SelectSame DEF venue, config
  <2>3. TypeOK'
    BY <2>1, <2>2 DEF IInv, TypeOK, Calls, venue, config
  <2> QED BY <2>1, <2>2, <2>3 DEF IInv, CacheInv, CallInv, PinInv, venue, config
<1>4. CASE Rearm
  <2>1. /\ verified' = FALSE
        /\ UNCHANGED <<venue, config, sponsor, account, halted, call, built, looked, picks>>
    BY <1>4 DEF Rearm
  <2>2. Select(owned, collateral)' = Select(owned, collateral)
    BY <2>1, SelectSame DEF venue, config
  <2>3. TypeOK'
    BY <2>1, <2>2 DEF IInv, TypeOK, Calls, venue, config
  <2> QED BY <2>1, <2>2, <2>3 DEF IInv, CacheInv, CallInv, PinInv, venue, config
<1> QED BY <1>1, <1>2, <1>3, <1>4 DEF LoopStep

\* A call, request by request, and the kill switch's.
LEMMA CallStepInv ==
    ASSUME IInv, CallStep
    PROVE  IInv'
<1>1. ASSUME NEW t \in Tools, Begin(t) PROVE IInv'
  <2>1. /\ t \in Tools \ {"cancel_all"} /\ ~halted
        /\ call' = [Idle EXCEPT !.tool = t, !.at = "gas"]
        /\ UNCHANGED <<venue, config, sponsor, account, halted, verified, built, looked, picks>>
    BY <1>1 DEF Begin, Allows
  <2>2. call' = [tool |-> t, at |-> "gas", account |-> None]
    BY <2>1 DEF Idle
  <2>3. Select(owned, collateral)' = Select(owned, collateral)
    BY <2>1, SelectSame DEF venue, config
  <2>4. TypeOK'
    BY <2>1, <2>2 DEF IInv, TypeOK, Calls, venue, config
  <2>5. call'.tool = t /\ call'.at = "gas" /\ call'.account = None
    BY <2>2
  <2>6. CallInv'
    BY <2>1, <2>5, NoneAssumption DEF CallInv
  <2>7. CacheInv' /\ PinInv'
    BY <2>1, <2>3, <2>5 DEF IInv, CacheInv, PinInv, venue, config
  <2> QED BY <2>4, <2>6, <2>7 DEF IInv
<1>2. CASE Gas
  <2>1. /\ call.at = "gas" /\ sponsor' \in BOOLEAN
        /\ call' = [call EXCEPT !.at = AfterGas(call.tool)]
        /\ UNCHANGED <<venue, config, account, halted, verified, built, looked, picks>>
    BY <1>2 DEF Gas, At, IInv, TypeOK, Calls
  <2>2. AfterGas(call.tool) \in {"build", "account"}
    BY DEF AfterGas
  <2>3. /\ call'.tool = call.tool /\ call'.account = call.account
        /\ call'.at \in {"build", "account"}
        /\ call' \in Calls
    BY <2>1, <2>2 DEF IInv, TypeOK, Calls
  <2>4. Select(owned, collateral)' = Select(owned, collateral)
    BY <2>1, SelectSame DEF venue, config
  <2>5. TypeOK'
    BY <2>1, <2>3, <2>4 DEF IInv, TypeOK, Calls, venue, config
  <2> QED BY <2>1, <2>3, <2>4, <2>5 DEF IInv, CacheInv, CallInv, PinInv, venue, config
<1>3. CASE Resolve
  <2>1. PICK a \in Current :
            /\ account' = a
            /\ call' = [call EXCEPT !.account = a,
                                    !.at = IF call.tool \in Previewed THEN "preview" ELSE "build"]
    BY <1>3 DEF Resolve
  <2>2. /\ call.at = "account"
        /\ UNCHANGED <<venue, config, sponsor, halted, verified, built, looked, picks>>
    BY <1>3 DEF Resolve
  <2>3. /\ a \in owned /\ a \in picks /\ a # None /\ (pinned # None => a = pinned)
        /\ (looked # None => a = looked)
    BY CurrentLemma
  <2>4. /\ call'.tool = call.tool /\ call'.account = a /\ call'.at \in {"preview", "build"}
        /\ call' \in Calls
    BY <2>1, <2>3 DEF IInv, TypeOK, Calls
  <2>5. Select(owned, collateral)' = Select(owned, collateral)
    BY <2>2, SelectSame DEF venue, config
  <2>6. TypeOK'
    BY <2>1, <2>2, <2>3, <2>4 DEF IInv, TypeOK, Calls, venue, config
  <2> QED BY <2>1, <2>2, <2>3, <2>4, <2>5, <2>6 DEF IInv, CacheInv, CallInv, PinInv, venue, config
<1>4. CASE Preview
  <2>1. /\ call.at = "preview" /\ call' = [call EXCEPT !.at = "build"]
        /\ UNCHANGED <<venue, config, sponsor, account, halted, verified, built, looked, picks>>
    BY <1>4 DEF Preview, At
  <2>2. /\ call'.tool = call.tool /\ call'.account = call.account /\ call'.at = "build"
        /\ call' \in Calls
    BY <2>1 DEF IInv, TypeOK, Calls
  <2>3. Select(owned, collateral)' = Select(owned, collateral)
    BY <2>1, SelectSame DEF venue, config
  <2>4. TypeOK'
    BY <2>1, <2>2 DEF IInv, TypeOK, Calls, venue, config
  <2> QED BY <2>1, <2>2, <2>3, <2>4 DEF IInv, CacheInv, CallInv, PinInv, venue, config
<1>5. CASE Build
  <2>1. /\ call.at = "build" /\ account' = None /\ looked' = None
        /\ picks' = Select(owned, collateral)
        /\ UNCHANGED <<venue, config, sponsor, halted, verified>>
    BY <1>5 DEF Build, Invalidate
  <2>2. /\ Select(owned, collateral)' = Select(owned, collateral)
        /\ Select(owned, collateral) \subseteq owned
    BY <2>1, SelectSame, SelectLemma DEF venue, config
  <2>3. CASE call.tool = "cancel_all"
    <3>1. /\ call' = [call EXCEPT !.at = "reread"]
          /\ UNCHANGED built
      BY <1>5, <2>3 DEF Build, At
    <3>2. /\ call'.tool = call.tool /\ call'.account = call.account /\ call'.at = "reread"
          /\ call' \in Calls
      BY <3>1 DEF IInv, TypeOK, Calls
    <3>3. TypeOK'
      BY <2>1, <2>2, <2>3, <3>1, <3>2 DEF IInv, TypeOK, CallInv, Calls, venue, config
    <3> QED BY <2>1, <2>2, <2>3, <3>2, <3>3 DEF IInv, CacheInv, CallInv, PinInv, venue, config
  <2>4. CASE call.tool # "cancel_all"
    <3>1. /\ call' = Idle
          /\ built' = built \cup {[tool |-> call.tool, account |-> call.account]}
      BY <1>5, <2>4 DEF Build
    <3>2. [tool |-> call.tool, account |-> call.account] \in Tx
      BY <2>1, <2>4 DEF IInv, TypeOK, CallInv, Calls, Tx
    <3>3. TypeOK'
      BY <2>1, <2>2, <3>1, <3>2 DEF IInv, TypeOK, Calls, Idle, venue, config
    <3> QED BY <2>1, <2>2, <3>1, <3>3, NoneAssumption
            DEF IInv, CacheInv, CallInv, PinInv, Idle, Tools, Provision, Previewed, venue, config
  <2> QED BY <2>3, <2>4
<1>6. CASE Raise
  <2>1. /\ call' = Idle
        /\ UNCHANGED <<venue, config, sponsor, account, halted, verified, built, looked, picks>>
    BY <1>6 DEF Raise
  <2>2. Select(owned, collateral)' = Select(owned, collateral)
    BY <2>1, SelectSame DEF venue, config
  <2>3. TypeOK'
    BY <2>1, <2>2 DEF IInv, TypeOK, Calls, Idle, venue, config
  <2> QED BY <2>1, <2>2, <2>3, NoneAssumption
          DEF IInv, CacheInv, CallInv, PinInv, Idle, Tools, Provision, Previewed, venue, config
<1>7. CASE CancelAll
  <2>1. PICK a \in Current :
            /\ account' = a
            /\ IF a \notin orders
               THEN verified' = TRUE /\ UNCHANGED call
               ELSE /\ call' = IF config_armed
                               THEN [tool |-> "cancel_all", at |-> "gas", account |-> a]
                               ELSE Idle
                    /\ UNCHANGED verified
    BY <1>7 DEF CancelAll
  <2>2. /\ call = Idle /\ verified = FALSE
        /\ UNCHANGED <<venue, config, sponsor, halted, built, looked, picks>>
    BY <1>7 DEF CancelAll, Looping, IInv, TypeOK
  <2>3. /\ a \in owned /\ a \in picks /\ a # None /\ (pinned # None => a = pinned)
        /\ (looked # None => a = looked)
    BY CurrentLemma
  <2>4. Select(owned, collateral)' = Select(owned, collateral)
    BY <2>2, SelectSame DEF venue, config
  <2>5. \/ call' = Idle /\ verified' \in BOOLEAN
        \/ call' = [tool |-> "cancel_all", at |-> "gas", account |-> a] /\ verified' = FALSE
    BY <2>1, <2>2
  <2>6. TypeOK'
    BY <2>1, <2>2, <2>3, <2>5
       DEF IInv, TypeOK, Calls, Idle, Tools, Provision, Previewed, venue, config
  <2> QED BY <2>1, <2>2, <2>3, <2>4, <2>5, <2>6, NoneAssumption
          DEF IInv, CacheInv, CallInv, PinInv, Idle, Tools, Provision, Previewed, venue, config
<1>8. CASE Reread
  <2>1. PICK a \in Current : account' = a /\ verified' = (a \notin orders)
    BY <1>8 DEF Reread
  <2>2. /\ call.at = "reread" /\ call' = Idle
        /\ UNCHANGED <<venue, config, sponsor, halted, built, looked, picks>>
    BY <1>8 DEF Reread
  <2>3. /\ a \in owned /\ a \in picks /\ (pinned # None => a = pinned)
        /\ (looked # None => a = looked)
    BY CurrentLemma
  <2>4. Select(owned, collateral)' = Select(owned, collateral)
    BY <2>2, SelectSame DEF venue, config
  <2>5. TypeOK'
    BY <2>1, <2>2, <2>3 DEF IInv, TypeOK, Calls, Idle, venue, config
  <2> QED BY <2>1, <2>2, <2>3, <2>4, <2>5, NoneAssumption
          DEF IInv, CacheInv, CallInv, PinInv, Idle, Tools, Provision, Previewed, venue, config
<1> QED BY <1>1, <1>2, <1>3, <1>4, <1>5, <1>6, <1>7, <1>8 DEF CallStep

LEMMA StutterInv ==
    ASSUME IInv, UNCHANGED vars
    PROVE  IInv'
<1>1. Select(owned, collateral)' = Select(owned, collateral)
  BY SelectSame DEF vars
<1> QED BY <1>1 DEF IInv, TypeOK, Calls, CacheInv, CallInv, PinInv, vars

LEMMA StepInv == IInv /\ [Next]_vars => IInv'
  BY CallStepInv, LoopInv, VenueInv, StutterInv DEF Next

\* The invariant holds of every behaviour, whatever the constants.
LEMMA Invariant == Spec => []IInv
  BY InitInv, StepInv, PTL DEF Spec

\* The types of the adapter's variables (adapter.py AdapterState, call_tool).
THEOREM TypeCorrect == Spec => []TypeOK
  BY Invariant, PTL DEF IInv

\* The account acted through is one that selection has named since the last
\* build (AdapterState.invalidate), for any accounts and collateral.
THEOREM CacheYoung == Spec => []CacheYoungerThanBuild
<1>1. IInv => CacheYoungerThanBuild
  BY DEF IInv, CacheInv, CacheYoungerThanBuild
<1> QED BY <1>1, Invariant, PTL

\* Only Build hands something to the host, and for the account of the call.
LEMMA OnlyBuild ==
    ASSUME IInv, [Next]_vars, NEW tx \in built' \ built
    PROVE  call.at = "build" /\ tx.account = call.account /\ ~halted
<1>1. SUFFICES ASSUME Next PROVE call.at = "build" /\ tx.account = call.account /\ ~halted
  BY DEF vars
<1>2. CASE VenueStep
  BY <1>2 DEF VenueStep, Moves, Rests, Goes, Submit, Drop
<1>3. CASE LoopStep
  BY <1>3 DEF LoopStep, Look, Observe, ResetBreaker, Rearm
<1>4. CASE CallStep
  <2>1. CASE Build
    <3>1. /\ call.at = "build" /\ call.tool # "cancel_all"
          /\ tx = [tool |-> call.tool, account |-> call.account]
      BY <2>1 DEF Build
    <3>2. call.tool \in Tools \ {"cancel_all"}
      BY <3>1 DEF IInv, TypeOK, Calls, CallInv
    <3> QED BY <3>1, <3>2 DEF IInv, CallInv
  <2>2. CASE ~Build
    BY <1>4, <2>2 DEF CallStep, Begin, Gas, Resolve, Preview, Raise, CancelAll, Reread
  <2> QED BY <2>1, <2>2
<1> QED BY <1>1, <1>2, <1>3, <1>4 DEF Next

\* What is decided from the positions of an account is built for that account
\* (adapter.py account, and the handlers that build).
THEOREM ActsThere == Spec => ActsWhereItLooked
<1>1. IInv /\ [Next]_vars =>
        [\A tx \in built' \ built :
            tx.account # None /\ looked # None => tx.account = looked]_vars
  BY OnlyBuild DEF IInv, CacheInv
<1> QED BY <1>1, Invariant, PTL DEF Spec, ActsWhereItLooked

\* A halted runtime hands nothing to the host (call_tool's breaker check).
THEOREM HaltTheorem == Spec => HaltHolds
<1>1. IInv /\ [Next]_vars => [halted => built' \subseteq built]_vars
  BY OnlyBuild
<1> QED BY <1>1, Invariant, PTL DEF Spec, HaltHolds

\* With a pinned account, a cancellation is verified on the account it was
\* built for (_cancel_all_and_verify).
THEOREM PinnedTheorem == Spec => PinnedVerified
<1>1. ASSUME IInv, Next, call.at = "reread", verified', pinned # None
      PROVE  call.account \notin orders
  <2>1. /\ call.account = pinned /\ ~verified /\ call # Idle
    BY <1>1 DEF IInv, CallInv, PinInv, TypeOK, Calls, Idle
  <2>2. CASE VenueStep
    BY <1>1, <2>1, <2>2 DEF VenueStep, Moves, Rests, Goes, Submit, Drop
  <2>3. CASE LoopStep
    BY <2>1, <2>3 DEF LoopStep, Looping, Look, Observe, ResetBreaker, Rearm
  <2>4. CASE CallStep
    <3>1. CASE Reread
      <4>1. PICK a \in Current : verified' = (a \notin orders)
        BY <3>1 DEF Reread
      <4>2. a = pinned
        BY <1>1, CurrentLemma
      <4> QED BY <1>1, <2>1, <4>1, <4>2
    <3>2. CASE ~Reread
      BY <1>1, <2>1, <2>4, <3>2
         DEF CallStep, Looping, Begin, Gas, Resolve, Preview, Build, Raise, CancelAll
    <3> QED BY <3>1, <3>2
  <2> QED BY <1>1, <2>2, <2>3, <2>4 DEF Next
<1>2. IInv /\ [Next]_vars =>
        [call.at = "reread" /\ verified' /\ pinned # None => call.account \notin orders]_vars
  BY <1>1
<1> QED BY <1>2, Invariant, PTL DEF Spec, PinnedVerified
=============================================================================
