-------------------------- MODULE KillSwitch_proofs --------------------------
(***************************************************************************)
(* What KillSwitch promises, for every set of markets.                     *)
(***************************************************************************)
EXTENDS KillSwitch, TLAPS

\* A reading that has found nothing saw every market it is done with empty, but
\* for what landed since it began.
ReadSoFar ==
    phase \in {"read", "reread"} =>
        /\ left \subseteq catalog
        /\ ~found => resting \cap (catalog \ left) \subseteq landed

\* Only a switch that is armed and has proved nothing yet is at work.
ArmedWhileTriggered == phase # "none" => armed /\ fired /\ ~verified

IInv == TypeOK /\ ReadSoFar /\ ArmedWhileTriggered

\* The invariant holds when the process starts.
LEMMA InitInv == Init => IInv
<1> SUFFICES ASSUME Init PROVE IInv
  OBVIOUS
<1>1. TypeOK
  BY DEF Init, TypeOK, Phase
<1>2. ReadSoFar /\ ArmedWhileTriggered
  BY DEF Init, ReadSoFar, ArmedWhileTriggered
<1>3. QED
  BY <1>1, <1>2 DEF IInv

\* What fills, lands or is listed at the venue keeps the invariant: an order
\* that lands while a reading is on is counted as landed.
LEMMA VenueKeeps == IInv /\ VenueStep => IInv'
<1> SUFFICES ASSUME IInv, VenueStep PROVE IInv'
  OBVIOUS
<1> USE DEF IInv, TypeOK, Phase, ReadSoFar, ArmedWhileTriggered, adapter, switch,
            trigger
<1>1. CASE Relists
  BY <1>1 DEF Relists
<1>2. ASSUME NEW m \in Markets, Gone(m) PROVE IInv'
  BY <1>2 DEF Gone
<1>3. ASSUME NEW m \in Markets, Lands(m) PROVE IInv'
  BY <1>3 DEF Lands
<1>4. QED
  BY <1>1, <1>2, <1>3 DEF VenueStep

\* Pulling the switch keeps the invariant.
LEMMA StartKeeps ==
    ASSUME IInv, NEW by_signal \in BOOLEAN, StartTrigger(by_signal)
    PROVE  IInv'
<1> USE DEF StartTrigger, ArmedWhileTrying, venue, adapter
<1>1. ~verified
  BY DEF IInv, TypeOK
<1>2. TypeOK'
  BY <1>1 DEF IInv, TypeOK, Phase
<1>3. ReadSoFar'
  BY DEF ReadSoFar
<1>4. ArmedWhileTriggered'
  BY <1>1 DEF ArmedWhileTriggered
<1>5. QED
  BY <1>2, <1>3, <1>4 DEF IInv

\* What the strategy loop does between triggers keeps the invariant.
LEMMA LoopKeeps == IInv /\ LoopStep => IInv'
<1> SUFFICES ASSUME IInv, LoopStep PROVE IInv'
  OBVIOUS
<1> USE DEF IInv, TypeOK, Phase, ReadSoFar, ArmedWhileTriggered, venue, adapter,
            switch, trigger, Looping
<1>1. CASE RefreshMarkets
  BY <1>1 DEF RefreshMarkets, Caches
<1>2. CASE UseCatalog
  <2>1. Universe \subseteq Markets
    BY DEF Universe
  <2>2. QED
    BY <1>2, <2>1 DEF UseCatalog, Caches
<1>3. CASE Observe
  BY <1>3 DEF Observe
<1>4. CASE ResetBreaker
  BY <1>4 DEF ResetBreaker
<1>5. CASE Disarm
  BY <1>5 DEF Disarm
<1>6. CASE Rearm
  BY <1>6 DEF Rearm, ForgetsOutcome
<1>7. CASE Check \/ Pull
  BY <1>7, StartKeeps DEF Check, Pull
<1>8. ASSUME NEW m \in Markets, Place(m) PROVE IInv'
  BY <1>8 DEF Place, Caches, Universe
<1>9. QED
  BY <1>1, <1>2, <1>3, <1>4, <1>5, <1>6, <1>7, <1>8 DEF LoopStep

\* The three ways a trigger ends keep the invariant.
LEMMA EndKeeps ==
    ASSUME IInv, phase # "none",
           Verified \/ Survived \/ Raised
    PROVE  IInv'
<1> USE DEF IInv, TypeOK, Phase, ReadSoFar, ArmedWhileTriggered, venue, adapter,
            switch, Idle, Returns
<1>1. CASE Verified
  BY <1>1 DEF Verified
<1>2. CASE Survived
  BY <1>2 DEF Survived
<1>3. CASE Raised
  BY <1>3 DEF Raised
<1>4. QED
  BY <1>1, <1>2, <1>3

\* Every request of a trigger keeps the invariant.
LEMMA TriggerKeeps == IInv /\ TriggerStep => IInv'
<1> SUFFICES ASSUME IInv, TriggerStep PROVE IInv'
  OBVIOUS
<1>1. CASE ReadCatalog
  <2>1. Universe \subseteq Markets
    BY DEF IInv, TypeOK, Universe
  <2>2. QED
    BY <1>1, <2>1 DEF ReadCatalog, StartReading, Caches, IInv, TypeOK, Phase, ReadSoFar,
                      ArmedWhileTriggered, venue, switch
<1>2. ASSUME NEW m \in Markets, Read(m) PROVE IInv'
  BY <1>2 DEF Read, Reads, IInv, TypeOK, Phase, ReadSoFar, ArmedWhileTriggered, venue,
              adapter, switch
<1>3. CASE ReadFails
  BY <1>3, EndKeeps DEF ReadFails
<1>4. CASE Decide
  <2>1. CASE Verified \/ Survived
    BY <1>4, <2>1, EndKeeps DEF Decide
  <2>2. CASE phase' = "gas" /\ UNCHANGED <<venue, adapter, switch, left, found, landed,
                                         handling, exit>>
    BY <1>4, <2>2 DEF Decide, IInv, TypeOK, Phase, ReadSoFar, ArmedWhileTriggered, venue,
                      adapter, switch
  <2>3. QED
    BY <1>4, <2>1, <2>2 DEF Decide
<1>5. CASE ResolveGas
  <2>1. CASE Raised
    BY <1>5, <2>1, EndKeeps DEF ResolveGas
  <2>2. CASE phase' = "cancel" /\ sponsored' = TRUE
             /\ UNCHANGED <<venue, config_armed, cached, catalog, halted, switch, left,
                            found, landed, handling, exit>>
    BY <1>5, <2>2 DEF ResolveGas, IInv, TypeOK, Phase, ReadSoFar, ArmedWhileTriggered,
                      venue, switch
  <2>3. QED
    BY <1>5, <2>1, <2>2 DEF ResolveGas
<1>6. CASE Cancel
  <2>1. CASE Raised
    BY <1>6, <2>1, EndKeeps DEF Cancel
  <2>2. CASE StartReading("reread")
             /\ UNCHANGED <<venue, config_armed, sponsored, halted, switch, handling,
                            exit>>
    <3>1. Universe \subseteq Markets
      BY DEF IInv, TypeOK, Universe
    <3>2. QED
      BY <1>6, <2>2, <3>1 DEF Cancel, StartReading, Caches, IInv, TypeOK, Phase, ReadSoFar,
                              ArmedWhileTriggered, venue, switch
  <2>3. QED
    BY <1>6, <2>1, <2>2 DEF Cancel
<1>7. CASE Conclude
  BY <1>7, EndKeeps DEF Conclude
<1>8. QED
  BY <1>1, <1>2, <1>3, <1>4, <1>5, <1>6, <1>7 DEF TriggerStep

\* Every step keeps the invariant.
LEMMA StepInv == IInv /\ [Next]_vars => IInv'
<1> SUFFICES ASSUME IInv, [Next]_vars PROVE IInv'
  OBVIOUS
<1> USE DEF IInv, TypeOK, Phase, ReadSoFar, ArmedWhileTriggered
<1>1. CASE FallsSilent
  BY <1>1 DEF FallsSilent, venue, adapter, trigger
<1>2. CASE Signal
  <2>1. CASE StartTrigger(TRUE)
    BY <2>1, StartKeeps
  <2>2. CASE Idle /\ exit' = "zero" /\ UNCHANGED <<venue, adapter, switch>>
    BY <2>2 DEF Idle, venue, adapter, switch
  <2>3. QED
    BY <1>2, <2>1, <2>2 DEF Signal
<1>3. CASE UNCHANGED vars
  BY <1>3 DEF vars
<1>4. QED
  BY <1>1, <1>2, <1>3, VenueKeeps, LoopKeeps, TriggerKeeps DEF Next

\* Every reachable state has its types, and a verified switch fired and is spent
\* (KillSwitch.trigger and rearm).
THEOREM TypeCorrect == Spec => []TypeOK
<1>1. IInv => TypeOK
  BY DEF IInv
<1>2. QED
  BY <1>1, InitInv, StepInv, PTL DEF Spec

\* A step that makes the switch verified ends a reading that saw no order.
LEMMA VerifyingStep ==
    ASSUME IInv, [Next]_vars, ~verified, verified'
    PROVE  phase \in {"read", "reread"} /\ left = {} /\ ~found
<1>1. CASE VenueStep \/ FallsSilent \/ UNCHANGED vars
  BY <1>1 DEF VenueStep, Relists, Gone, Lands, FallsSilent, switch, vars
<1>2. CASE LoopStep
  BY <1>2 DEF LoopStep, RefreshMarkets, UseCatalog, Observe, ResetBreaker, Disarm, Rearm,
              ForgetsOutcome, Check, Pull, StartTrigger, Place, switch
<1>3. CASE Signal
  BY <1>3 DEF Signal, StartTrigger, switch
<1>4. CASE TriggerStep
  <2>1. CASE ReadCatalog \/ ReadFails \/ ResolveGas \/ Cancel
    BY <2>1 DEF ReadCatalog, ReadFails, ResolveGas, Cancel, Survived, Raised, switch
  <2>2. ASSUME NEW m \in Markets, Read(m) PROVE FALSE
    BY <2>2 DEF Read, switch
  <2>3. CASE Decide \/ Conclude
    BY <2>3 DEF Decide, Conclude, Survived, switch
  <2>4. QED
    BY <1>4, <2>1, <2>2, <2>3 DEF TriggerStep
<1>5. QED
  BY <1>1, <1>2, <1>3, <1>4 DEF Next

\* A verified cancellation leaves no order in a market the switch knows, but for
\* what landed while it was looking (_cancel_all_and_verify).
THEOREM VerifiedFlat == Spec => VerifiedMeansFlat
<1>1. IInv /\ [Next]_vars
        => [~verified /\ verified' => resting \cap catalog \subseteq landed]_vars
  BY VerifyingStep DEF IInv, ReadSoFar
<1>2. QED
  BY <1>1, InitInv, StepInv, PTL DEF Spec, VerifiedMeansFlat

\* A trigger that ends without proof leaves the switch armed (trigger).
THEOREM FailedArmed == Spec => FailedStaysArmed
<1>1. ASSUME IInv, [Next]_vars, phase # "none", ~verified'
      PROVE  armed'
  <2>1. armed
    BY <1>1 DEF IInv, ArmedWhileTriggered
  <2>2. CASE VenueStep \/ FallsSilent \/ UNCHANGED vars
    BY <2>1, <2>2 DEF VenueStep, Relists, Gone, Lands, FallsSilent, switch, vars
  <2>3. CASE LoopStep
    BY <1>1, <2>3 DEF LoopStep, RefreshMarkets, UseCatalog, Observe, ResetBreaker,
                      Disarm, Rearm, Check, Pull, Place, Looping
  <2>4. CASE Signal
    BY <2>1, <2>4 DEF Signal, StartTrigger, ArmedWhileTrying
  <2>5. CASE TriggerStep
    <3>1. CASE ReadCatalog \/ ReadFails \/ ResolveGas \/ Cancel
      BY <2>1, <3>1 DEF ReadCatalog, ReadFails, ResolveGas, Cancel, Survived, Raised, switch
    <3>2. ASSUME NEW m \in Markets, Read(m) PROVE armed'
      BY <2>1, <3>2 DEF Read, switch
    <3>3. CASE Decide \/ Conclude
      BY <1>1, <2>1, <3>3 DEF Decide, Conclude, Verified, Survived, switch
    <3>4. QED
      BY <2>5, <3>1, <3>2, <3>3 DEF TriggerStep
  <2>6. QED
    BY <1>1, <2>2, <2>3, <2>4, <2>5 DEF Next
<1>2. IInv /\ [Next]_vars => [phase # "none" /\ ~verified' => armed']_vars
  BY <1>1
<1>3. QED
  BY <1>2, InitInv, StepInv, PTL DEF Spec, FailedStaysArmed
=============================================================================
