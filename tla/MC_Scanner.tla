----------------------------- MODULE MC_Scanner -----------------------------
(***************************************************************************)
(* The scanners that remember, in one run: rooster, step by step (Scanner),*)
(* and three others, tick by tick (Reentry).  They share no state; a       *)
(* behaviour is one of rooster or one of the others, and the rest stays as *)
(* it was at first.                                                        *)
(***************************************************************************)
EXTENDS Scanner, TLC

CONSTANTS Scanners, Perps, Xyz, Ttl, Cooldown, MaxPositions, MaxEmit, LastTime

\* The times the strategies are configured with are in whole units.
ASSUME ReentryAssumption == Ttl \in Int /\ Cooldown \in Int

VARIABLES scanner, now, positions, signaled, shared, lastClosed, prevHeld,
          emitted, sightings, wiped

R == INSTANCE Reentry

reentryVars == <<scanner, now, positions, signaled, shared, lastClosed, prevHeld,
                 emitted, sightings, wiped>>

\* Which of the others rests while rooster runs makes no difference.
Rests == CHOOSE s \in Scanners : TRUE

MCInit == Init /\ R!Init /\ (scanner = Rests \/ held = {})

MCNext ==
    \/ Next /\ R!Init /\ scanner = Rests /\ UNCHANGED reentryVars
    \/ R!Next /\ Init /\ held = {} /\ UNCHANGED vars

MCSpec == MCInit /\ [][MCNext]_<<vars, reentryVars>>

\* Reentry: signals for one asset are apart, unless the record between lacked the map.
SpacedUnlessWiped == R!SpacedUnlessWiped

\* Reentry: scorpion leaves a closed perp alone for its cooldown.
CooldownAfterClose == R!CooldownAfterClose

Symmetry == Permutations(Assets)
=============================================================================
