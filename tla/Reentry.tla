------------------------------ MODULE Reentry ------------------------------
(***************************************************************************)
(* How three of the strategies keep from entering again too soon: kestrel, *)
(* hyena and scorpion (strategies/<name>/main/scanners/scan.py).  Each     *)
(* reads what it remembers from the last record of its scan state          *)
(* (aftermath_runtime/harness.py, ScanState) and appends one record on its *)
(* way out, a different one on each way out; what that record lacks is     *)
(* forgotten.                                                              *)
(*                                                                         *)
(* Ticks do not overlap and are a unit of time apart.  A tick that raises, *)
(* or that returns before it has appended anything, changes nothing and is *)
(* a passing of time.  The scores are any numbers, so any set of assets    *)
(* may be candidates.                                                      *)
(***************************************************************************)
EXTENDS Integers, FiniteSets, Functions

CONSTANTS
    Scanners,       \* those of the three to be run
    Perps,          \* assets of the main exchange
    Xyz,            \* assets with the prefix xyz:
    Ttl,            \* recentSignalTtlSeconds
    Cooldown,       \* scorpion: postCloseCooldownSeconds
    MaxPositions,   \* kestrel: maxPositions
    MaxEmit,        \* hyena: maxEmit
    LastTime        \* bound: the end of time

VARIABLES
    scanner,        \* the strategy
    now,            \* time.time()
    positions,      \* platform: the assets of the open positions
    signaled,       \* last record: "signaled" (kestrel: "recent"), asset -> time
    shared,         \* whether the next tick writes to that very map
    lastClosed,     \* last record, scorpion: "lastClosed", asset -> time
    prevHeld,       \* last record, scorpion: "prevHeld"
    emitted,        \* the signals returned, and when
    sightings,      \* scorpion: the positions it has remembered, and when
    wiped           \* when a record without the map was committed

Coins == Perps \cup Xyz
ledger == <<signaled, shared, lastClosed, prevHeld>>
vars   == <<scanner, now, positions, ledger, emitted, sightings, wiped>>

NoMap == [a \in {} |-> 0]

\* Mutant: what is in the map already stays as it was.
StampedOnce(map, assets) ==
    [a \in DOMAIN map \cup assets |-> IF a \in DOMAIN map THEN map[a] ELSE now]

\* map[a] = now, for each of the assets
Stamped(map, assets) ==
    [a \in DOMAIN map \cup assets |-> IF a \in assets THEN now ELSE map[a]]

Within(map, a, span) == a \in DOMAIN map /\ now - map[a] < span

\* _prune, _prune_signaled (which keeps the boundary too): four times as long as
\* the map is consulted for.
Pruned(map, span) == Restrict(map, {a \in DOMAIN map : Within(map, a, 4 * span)})

\* The account is read, or the read fails and looks like an empty account.
Reads == {positions, {}}

\* A tick: one of the strategy's, at the time it reads.
Tick(name) == scanner = name /\ now < LastTime /\ now' = now + 1

Emit(out) == emitted' = emitted \cup {[asset |-> a, at |-> now] : a \in out}

\* The record has no map to read next time.
Wipe == /\ signaled' = NoMap /\ shared' = FALSE
        /\ wiped' = wiped \cup {now}

(***************************************************************************)
(* Kestrel: at most one signal a tick, none with the book full.            *)
(***************************************************************************)

KestrelPerched ==
    /\ Tick("kestrel")
    /\ \E held \in Reads : Cardinality(held) >= MaxPositions
    /\ Wipe
    /\ UNCHANGED <<scanner, positions, lastClosed, prevHeld, emitted, sightings>>

\* What it may pick: not held, not signalled lately.
KestrelPicks == {a \in Coins : /\ ~ Within(signaled, a, Ttl)
                                /\ \E held \in Reads : /\ a \notin held
                                                       /\ Cardinality(held) < MaxPositions}

KestrelEmits(a) ==
    /\ Tick("kestrel")
    /\ a \in KestrelPicks
    /\ signaled' = Stamped(signaled, {a})
    /\ shared' = TRUE
    /\ Emit({a})
    /\ UNCHANGED <<scanner, positions, lastClosed, prevHeld, sightings, wiped>>

KestrelWaits ==
    /\ Tick("kestrel")
    /\ \E held \in Reads : Cardinality(held) < MaxPositions
    /\ shared' = TRUE
    /\ UNCHANGED <<scanner, positions, signaled, lastClosed, prevHeld, emitted, sightings, wiped>>

\* Cut off with the map written and nothing returned.  last() copies the
\* record and not the map in it, so the rollback leaves the map written.
KestrelCutOff(a) ==
    /\ Tick("kestrel")
    /\ shared
    /\ a \in KestrelPicks
    /\ signaled' = Stamped(signaled, {a})
    /\ UNCHANGED <<scanner, positions, shared, lastClosed, prevHeld, emitted, sightings, wiped>>

(***************************************************************************)
(* Hyena: what is not an emission goes through _persist, which puts a      *)
(* truth value where the map was.                                          *)
(***************************************************************************)

\* No account, a market short already, or no candidate.
HyenaWaits ==
    /\ Tick("hyena")
    /\ Wipe
    /\ UNCHANGED <<scanner, positions, lastClosed, prevHeld, emitted, sightings>>

HyenaEmits(out) ==
    /\ Tick("hyena")
    /\ out # {} /\ Cardinality(out) =< MaxEmit
    /\ out \subseteq {a \in Coins : a \notin positions /\ ~ Within(signaled, a, Ttl)}
    /\ signaled' = Stamped(Pruned(signaled, Ttl), out)
    /\ Emit(out)
    /\ UNCHANGED <<scanner, positions, shared, lastClosed, prevHeld, sightings, wiped>>

(***************************************************************************)
(* Scorpion: all the candidates that are neither held, nor closed lately,  *)
(* nor signalled lately.                                                   *)
(***************************************************************************)

ScorpionNoCandidates ==
    /\ Tick("scorpion")
    /\ Wipe
    /\ lastClosed' = NoMap
    /\ prevHeld' = {}
    /\ UNCHANGED <<scanner, positions, emitted, sightings>>

\* Mutant: the difference the wrong way round.
Opened(held) == held \ prevHeld

\* _detect_closes
Closed(held) == prevHeld \ held

\* Closes are entered under the name of the position and looked up under the
\* bare name of the asset: those of xyz: are never found.
CoolingDown(closes, a) == a \in Perps /\ Within(closes, a, Cooldown)

ScorpionScan(held, candidates) ==
    LET closes == Pruned(Stamped(lastClosed, Closed(held)), Cooldown)
        out    == {a \in candidates \ held : /\ ~ CoolingDown(closes, a)
                                             /\ ~ Within(signaled, a, Ttl)}
    IN  /\ Tick("scorpion")
        /\ candidates # {}
        /\ signaled' = Stamped(Pruned(signaled, Ttl), out)
        /\ lastClosed' = closes
        /\ prevHeld' = held
        /\ Emit(out)
        /\ sightings' = sightings \cup {[asset |-> a, at |-> now] : a \in held}
        /\ UNCHANGED <<scanner, positions, shared, wiped>>

(***************************************************************************)
(* Time and the platform.                                                  *)
(***************************************************************************)

Pass ==
    /\ now < LastTime
    /\ now' = now + 1
    /\ UNCHANGED <<scanner, positions, ledger, emitted, sightings, wiped>>

\* A signal is acted on, at once or later; a position closes at any time.
Enter(a) ==
    /\ a \notin positions /\ \E s \in emitted : s.asset = a
    /\ positions' = positions \cup {a}
    /\ UNCHANGED <<scanner, now, ledger, emitted, sightings, wiped>>

Exit(a) ==
    /\ a \in positions
    /\ positions' = positions \ {a}
    /\ UNCHANGED <<scanner, now, ledger, emitted, sightings, wiped>>

Init ==
    /\ scanner \in Scanners
    /\ now = 0
    /\ positions = {}
    /\ signaled = NoMap /\ shared = FALSE
    /\ lastClosed = NoMap /\ prevHeld = {}
    /\ emitted = {} /\ sightings = {} /\ wiped = {}

Next ==
    \/ KestrelPerched
    \/ KestrelWaits
    \/ \E a \in Coins : KestrelEmits(a) \/ KestrelCutOff(a)
    \/ HyenaWaits
    \/ \E out \in SUBSET Coins : HyenaEmits(out)
    \/ ScorpionNoCandidates
    \/ \E held \in Reads, candidates \in SUBSET Coins : ScorpionScan(held, candidates)
    \/ Pass
    \/ \E a \in Coins : Enter(a) \/ Exit(a)

Spec == Init /\ [][Next]_vars

(***************************************************************************)
(* Properties.                                                             *)
(***************************************************************************)

WipedBetween(s, t) == \E w \in wiped : s < w /\ w < t

Respaced(s, t) == s.asset = t.asset /\ s.at < t.at /\ t.at - s.at < Ttl

\* "a per-asset signal-dedup map (ctx.state) mirrors the v2 180m re-emit
\* cooldown" (kestrel/main/scanners/scan.py): two signals for one asset are a
\* cooldown apart.
SignalsSpaced == \A s, t \in emitted : ~ Respaced(s, t)

\* They are, in all three strategies, unless a tick between them left a record
\* without the map; a failed read of the account never shortens the time.
SpacedUnlessWiped == \A s, t \in emitted : Respaced(s, t) => WipedBetween(s.at, t.at)

\* Scorpion signals an ordinary perp again only after its cooldown, counted from
\* the last tick that remembered the position, whatever the reads since then
\* showed, unless a tick without candidates came between.
CooldownAfterClose ==
    \A s \in sightings, t \in emitted :
        (s.asset = t.asset /\ s.asset \in Perps /\ s.at < t.at /\ t.at - s.at =< Cooldown)
            => WipedBetween(s.at, t.at)
=============================================================================
