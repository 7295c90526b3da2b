----------------------------- MODULE KillSwitch -----------------------------
(***************************************************************************)
(* aftermath_runtime/safety.py KillSwitch and ShutdownHandler, wired to    *)
(* adapter.py _cancel_all_and_verify, in the one thread of a trading       *)
(* process.  A trigger is a sequence of requests; orders fill, land and    *)
(* markets come and go between any two of them, and SIGINT or SIGTERM      *)
(* starts a trigger inside the one that is running, which then never       *)
(* continues: the handler ends the process.                                *)
(***************************************************************************)
CONSTANT Markets    \* the markets the venue may ever list

VARIABLES
    listed,         \* venue: the markets it lists
    resting,        \* venue: the markets with a resting order of the account
    inflight,       \* venue: the markets with a signed order on its way
    config_armed,   \* RuntimeConfig.armed, fixed when the process starts
    cached,         \* AdapterState.catalog is not None
    catalog,        \* AdapterState.catalog
    sponsored,      \* ensure_gas_ready has resolved the sponsor
    halted,         \* CircuitBreaker.halted_reason is set
    silent,         \* silence_seconds() is beyond max_silence_seconds
    armed, fired, verified,     \* KillSwitch
    phase,          \* how far the running trigger is
    left,           \* the markets whose pending orders are still to be read
    found,          \* some pending order was read
    landed,         \* history: orders that landed since this reading began
    handling,       \* the trigger was called by ShutdownHandler.handle
    exit            \* how the process ended

venue   == <<listed, resting, inflight>>
adapter == <<config_armed, cached, catalog, sponsored, halted>>
switch  == <<silent, armed, fired, verified>>
trigger == <<phase, left, found, landed, handling, exit>>
vars    == <<listed, resting, inflight, config_armed, cached, catalog, sponsored,
             halted, silent, armed, fired, verified, phase, left, found, landed,
             handling, exit>>

Phase == {"none", "catalog", "read", "gas", "cancel", "reread"}

\* The variables' types; and a verified switch is one that fired and is spent.
TypeOK ==
    /\ listed \subseteq Markets
    /\ resting \subseteq Markets
    /\ inflight \subseteq Markets
    /\ catalog \subseteq Markets
    /\ config_armed \in BOOLEAN /\ cached \in BOOLEAN
    /\ sponsored \in BOOLEAN /\ halted \in BOOLEAN /\ silent \in BOOLEAN
    /\ armed \in BOOLEAN /\ fired \in BOOLEAN /\ verified \in BOOLEAN
    /\ found \in BOOLEAN /\ handling \in BOOLEAN
    /\ phase \in Phase
    /\ left \subseteq Markets
    /\ landed \subseteq Markets
    /\ exit \in {"running", "zero", "one"}
    /\ verified => fired /\ ~armed

\* The process may start with orders of an earlier one resting.
Init ==
    /\ listed \in SUBSET Markets
    /\ resting \in SUBSET listed
    /\ inflight = {}
    /\ config_armed \in BOOLEAN
    /\ cached = FALSE /\ catalog = {}
    /\ sponsored \in BOOLEAN
    /\ halted = FALSE
    /\ silent = FALSE
    /\ armed = TRUE /\ fired = FALSE /\ verified = FALSE
    /\ phase = "none" /\ left = {} /\ found = FALSE /\ landed = {}
    /\ handling = FALSE /\ exit = "running"

(***************************************************************************)
(* The venue.                                                              *)
(***************************************************************************)
Gone(m) ==
    /\ m \in resting
    /\ resting' = resting \ {m}
    /\ UNCHANGED <<listed, inflight, adapter, switch, trigger>>

Lands(m) ==
    /\ m \in inflight
    /\ inflight' = inflight \ {m}
    /\ resting' = resting \cup {m}
    /\ landed' = landed \cup {m}
    /\ UNCHANGED <<listed, adapter, switch, phase, left, found, handling, exit>>

Relists ==
    /\ listed' \in SUBSET Markets
    /\ UNCHANGED <<resting, inflight, adapter, switch, trigger>>

(***************************************************************************)
(* The strategy loop, between triggers.                                    *)
(***************************************************************************)
Looping == exit = "running" /\ phase = "none"

\* The market universe the adapter works with: cached once it has been read.
Universe == IF cached THEN catalog ELSE listed

Caches(markets) == cached' = TRUE /\ catalog' = markets

\* market_list_instruments is the only call that reads it again.
RefreshMarkets ==
    /\ Looping
    /\ Caches(listed)
    /\ UNCHANGED <<venue, config_armed, sponsored, halted, switch, trigger>>

\* Any other tool that resolves a market.
UseCatalog ==
    /\ Looping
    /\ Caches(Universe)
    /\ UNCHANGED <<venue, config_armed, sponsored, halted, switch, trigger>>

\* call_tool of a building tool: refused unless armed and not halted, and
\* without gas.  The host signs and submits what was built, unless the build
\* failed.
Place(m) ==
    /\ Looping
    /\ config_armed
    /\ ~halted
    /\ sponsored' = TRUE
    /\ Caches(Universe)
    /\ m \in Universe
    /\ inflight' \in {inflight, inflight \cup {m}}
    /\ UNCHANGED <<listed, resting, config_armed, halted, switch, trigger>>

\* observe: a heartbeat, and a hard limit may have been breached; a halt stays.
Observe ==
    /\ Looping
    /\ silent' = FALSE
    /\ halted' \in {halted, TRUE}
    /\ UNCHANGED <<venue, config_armed, cached, catalog, sponsored, armed, fired, verified,
                   trigger>>

ResetBreaker ==
    /\ Looping
    /\ halted
    /\ halted' = FALSE
    /\ UNCHANGED <<venue, config_armed, cached, catalog, sponsored, switch, trigger>>

\* The clock: the last heartbeat is too long ago.
FallsSilent ==
    /\ exit = "running"
    /\ ~silent
    /\ silent' = TRUE
    /\ UNCHANGED <<venue, adapter, armed, fired, verified, trigger>>

Disarm ==
    /\ Looping
    /\ armed
    /\ armed' = FALSE
    /\ UNCHANGED <<venue, adapter, silent, fired, verified, trigger>>

\* Mutant: the outcome of the last firing stays.
RemembersOutcome == fired' = FALSE /\ verified' = verified

ForgetsOutcome == fired' = FALSE /\ verified' = FALSE

Rearm ==
    /\ Looping
    /\ armed' = TRUE
    /\ ForgetsOutcome
    /\ silent' = FALSE
    /\ UNCHANGED <<venue, adapter, trigger>>

(***************************************************************************)
(* A trigger.                                                              *)
(***************************************************************************)
\* all_pending_orders: one request per market of the catalog.
StartReading(where) ==
    /\ phase' = where
    /\ Caches(Universe)
    /\ left' = Universe
    /\ found' = FALSE
    /\ landed' = {}

\* Mutant: the switch counts as used once it has been pulled.
DisarmedByStart == armed' = FALSE

ArmedWhileTrying == armed' = armed

StartTrigger(by_signal) ==
    /\ armed
    /\ fired' = TRUE
    /\ ArmedWhileTrying
    /\ phase' = "catalog"
    /\ left' = {} /\ found' = FALSE /\ landed' = {}
    /\ handling' = by_signal
    /\ UNCHANGED <<venue, adapter, silent, verified, exit>>

\* The account is resolved and the catalog read, unless it is cached.
ReadCatalog ==
    /\ phase = "catalog"
    /\ StartReading("read")
    /\ UNCHANGED <<venue, config_armed, sponsored, halted, switch, handling, exit>>

\* check: armed and silent for too long.
Check ==
    /\ Looping
    /\ silent
    /\ StartTrigger(FALSE)

\* trigger(reason) called by the host.
Pull ==
    /\ Looping
    /\ StartTrigger(FALSE)

Idle ==
    /\ phase' = "none"
    /\ left' = {}
    /\ found' = FALSE
    /\ landed' = {}
    /\ handling' = FALSE

\* The trigger returns, or raises; the handler turns that into an exit code.
Returns(code) ==
    /\ Idle
    /\ exit' = IF handling THEN code ELSE exit

\* ShutdownHandler.handle, at any moment, also inside a trigger or itself: a
\* switch that is not armed does nothing and the process exits with 0.
Signal ==
    /\ exit = "running"
    /\ \/ StartTrigger(TRUE)
       \/ /\ ~armed
          /\ Idle
          /\ exit' = "zero"
          /\ UNCHANGED <<venue, adapter, switch>>

\* No survivors.  A shutdown that took too long still exits with 1.
Verified ==
    /\ verified' = TRUE
    /\ armed' = FALSE
    /\ \/ Returns("zero")
       \/ handling /\ Returns("one")
    /\ UNCHANGED <<venue, adapter, silent, fired>>

\* Survivors, or what counts as such: CircuitBreakerTripped.
Survived ==
    /\ verified' = FALSE
    /\ Returns("one")
    /\ UNCHANGED <<venue, adapter, silent, armed, fired>>

\* Any other exception passes through trigger.
Raised ==
    /\ Returns("one")
    /\ UNCHANGED <<venue, adapter, switch>>

\* Mutant: the rows of a market replace the ones read before.
ReadsLast(m) == m \in resting

Reads(m) == found \/ m \in resting

Read(m) ==
    /\ phase \in {"read", "reread"}
    /\ m \in left
    /\ found' = Reads(m)
    /\ left' = left \ {m}
    /\ UNCHANGED <<venue, adapter, switch, phase, landed, handling, exit>>

\* Unknown exposure counts as exposure the first time; the re-read has no
\* handler of its own.
ReadFails ==
    \/ phase \in {"catalog", "read"} /\ Survived
    \/ phase = "reread" /\ Raised

\* Nothing rests, or nothing can be cancelled, or on to the cancellation.
Decide ==
    /\ phase = "read"
    /\ left = {}
    /\ \/ ~found /\ Verified
       \/ found /\ ~config_armed /\ Survived
       \/ /\ found
          /\ config_armed
          /\ phase' = "gas"
          /\ UNCHANGED <<venue, adapter, switch, left, found, landed, handling, exit>>

ResolveGas ==
    /\ phase = "gas"
    /\ \/ /\ phase' = "cancel"
          /\ sponsored' = TRUE
          /\ UNCHANGED <<venue, config_armed, cached, catalog, halted, switch, left, found,
                         landed, handling, exit>>
       \/ ~sponsored /\ Raised

\* The cancellation is previewed, built and inspected; nothing here signs or
\* submits it, so no order goes.  Any of the three may refuse.
Cancel ==
    /\ phase = "cancel"
    /\ \/ /\ StartReading("reread")
          /\ UNCHANGED <<venue, config_armed, sponsored, halted, switch, handling, exit>>
       \/ Raised

Conclude ==
    /\ phase = "reread"
    /\ left = {}
    /\ IF found THEN Survived ELSE Verified

TriggerStep ==
    \/ \E m \in Markets : Read(m)
    \/ ReadCatalog \/ ReadFails \/ Decide \/ ResolveGas \/ Cancel \/ Conclude

LoopStep ==
    \/ RefreshMarkets \/ UseCatalog \/ Observe \/ ResetBreaker
    \/ Disarm \/ Rearm \/ Check \/ Pull
    \/ \E m \in Markets : Place(m)

VenueStep == Relists \/ \E m \in Markets : Gone(m) \/ Lands(m)

Next == TriggerStep \/ LoopStep \/ VenueStep \/ FallsSilent \/ Signal

Spec == Init /\ [][Next]_vars

(***************************************************************************)
(* Properties.                                                             *)
(***************************************************************************)

\* The switch reports a verified cancellation only when no order rests in any
\* market it knows, but for orders that landed while it was looking, whatever
\* filled, failed or was signalled meanwhile (KillSwitch: "VERIFIED, not
\* assumed").
VerifiedMeansFlat ==
    [][~verified /\ verified' => resting \cap catalog \subseteq landed]_vars

\* A trigger that ends without proof, by survivors, by an exception or by the
\* signal that replaces it, leaves the switch armed (trigger: "a later attempt
\* must still be able to fire").
FailedStaysArmed ==
    [][phase # "none" /\ ~verified' => armed']_vars

\* Once the cancellation has gone through, the orders a trigger still finds are
\* those that landed since (KillSwitch: "every open order is cancelled").
CancelTakes ==
    phase = "reread" /\ left = {} /\ found => landed # {}
=============================================================================
