------------------------ MODULE SnapshotStream_proofs ------------------------
(***************************************************************************)
(* The stream's inductive invariant and its refinement of Replica, for     *)
(* every set of keys and values and every bound on versions.               *)
(***************************************************************************)
EXTENDS SnapshotStream, TLAPS

\* Applying the delta that leads to version n to the table of version n-1
\* yields the table of version n (apply_delta's loop over updates).
LEMMA MergeDelta ==
    ASSUME history \in [0 .. MaxVersion -> Tables],
           NEW n \in 1 .. MaxVersion
    PROVE  Merge(history[n - 1], DeltaTo(n)) = history[n]
<1>1. /\ n \in 0 .. MaxVersion
      /\ n - 1 \in 0 .. MaxVersion
  BY MaxVersionAssumption
<1>2. /\ history[n] \in Tables
      /\ history[n - 1] \in Tables
  BY <1>1
<1>3. ASSUME NEW k \in Keys
      PROVE  Merge(history[n - 1], DeltaTo(n))[k] = history[n][k]
  <2>1. history[n][k] # Untouched
    BY <1>2, MarkersAssumption DEF Tables
  <2>2. CASE history[n][k] = history[n - 1][k]
    BY <2>2 DEF Merge, DeltaTo
  <2>3. CASE history[n][k] # history[n - 1][k]
    BY <2>1, <2>3 DEF Merge, DeltaTo
  <2>4. QED
    BY <2>2, <2>3
<1>4. Merge(history[n - 1], DeltaTo(n))
        = [k \in Keys |-> Merge(history[n - 1], DeltaTo(n))[k]]
  BY DEF Merge
<1>5. history[n] = [k \in Keys |-> history[n][k]]
  BY <1>2 DEF Tables
<1>6. QED
  BY <1>3, <1>4, <1>5

\* The invariant holds initially.
LEMMA InitInv == Init => IInv
<1> SUFFICES ASSUME Init PROVE IInv
  OBVIOUS
<1>1. Blank \in Tables
  BY DEF Blank, Tables
<1>2. TypeOK
  <2>1. history \in [0 .. MaxVersion -> Tables]
    BY <1>1, Zenon DEF Init
  <2>2. version \in 0 .. MaxVersion
    BY MaxVersionAssumption DEF Init
  <2>3. QED
    BY <1>1, <2>1, <2>2 DEF Init, TypeOK
<1>3. SyncedRowsAreAVersion /\ RowsWerePublished
  BY DEF Init, SyncedRowsAreAVersion, RowsWerePublished
<1>4. HistoryWasPublished
  BY MaxVersionAssumption DEF Init, HistoryWasPublished
<1>5. QED
  BY <1>2, <1>3, <1>4 DEF IInv

\* Every step keeps the invariant.
LEMMA StepInv == IInv /\ [Next]_vars => IInv'
<1> SUFFICES ASSUME IInv, [Next]_vars PROVE IInv'
  OBVIOUS
<1> USE MaxVersionAssumption DEF IInv
<1>1. CASE Publish
  <2>1. PICK t \in Tables :
          /\ history' = [history EXCEPT ![version + 1] = t]
          /\ published' = published \cup {t}
    BY <1>1 DEF Publish
  <2>2. /\ version \in 0 .. MaxVersion
        /\ version' = version + 1
        /\ version' \in 0 .. MaxVersion
        /\ UNCHANGED <<sequence, synced, rows>>
    BY <1>1 DEF Publish, TypeOK, local
  <2>3. \A n \in 0 .. version : history'[n] = history[n]
    BY <2>1, <2>2 DEF TypeOK
  <2>4. history'[version'] = t
    BY <2>1, <2>2 DEF TypeOK
  <2>5. TypeOK'
    BY <2>1, <2>2 DEF TypeOK
  <2>6. SyncedRowsAreAVersion' /\ RowsWerePublished'
    BY <2>1, <2>2, <2>3 DEF SyncedRowsAreAVersion, RowsWerePublished
  <2>7. HistoryWasPublished'
    BY <2>1, <2>2, <2>3, <2>4 DEF HistoryWasPublished
  <2>8. QED
    BY <2>5, <2>6, <2>7
<1>2. CASE ServerRestart
  <2>1. PICK t \in Tables :
          /\ history' = [n \in 0 .. MaxVersion |-> IF n = 0 THEN t ELSE Blank]
          /\ published' = published \cup {t}
    BY <1>2 DEF ServerRestart
  <2>2. /\ version' = 0
        /\ synced' = FALSE
        /\ UNCHANGED <<sequence, rows>>
    BY <1>2 DEF ServerRestart, DropSync
  <2>3. Blank \in Tables
    BY DEF Blank, Tables
  <2>4. history' \in [0 .. MaxVersion -> Tables]
    <3>1. \A n \in 0 .. MaxVersion : (IF n = 0 THEN t ELSE Blank) \in Tables
      BY <2>3
    <3>2. QED
      BY <2>1, <3>1, Zenon
  <2>5. TypeOK'
    <3>1. published' \in SUBSET Tables
      BY <2>1 DEF TypeOK
    <3>2. version' \in 0 .. MaxVersion
      BY <2>2
    <3>3. synced' \in BOOLEAN /\ rows' \in Tables
      BY <2>2 DEF TypeOK
    <3>4. sequence' \in Nat \cup {NoSequence}
      BY <2>2 DEF TypeOK
    <3>5. QED
      BY <2>4, <3>1, <3>2, <3>3, <3>4 DEF TypeOK
  <2>6. QED
    BY <2>1, <2>2, <2>5
       DEF SyncedRowsAreAVersion, RowsWerePublished, HistoryWasPublished
<1>3. CASE DropSync /\ UNCHANGED server
  BY <1>3 DEF DropSync, server, TypeOK, SyncedRowsAreAVersion,
              RowsWerePublished, HistoryWasPublished
<1>4. ASSUME NEW n \in 0 .. version, ReplaceSnapshot(n)
      PROVE  IInv'
  BY <1>4 DEF ReplaceSnapshot, SnapshotRows, server, TypeOK,
              SyncedRowsAreAVersion, RowsWerePublished, HistoryWasPublished
<1>5. ASSUME NEW n \in 1 .. version, ApplyDelta(n)
      PROVE  IInv'
  <2>1. /\ synced
        /\ sequence \in 0 .. version
        /\ n = sequence + 1
    BY <1>5 DEF ApplyDelta, CanApply, IsNext, SyncedRowsAreAVersion
  <2>2. /\ n \in 1 .. MaxVersion
        /\ sequence = n - 1
    BY <2>1 DEF TypeOK
  <2>3. rows' = history[n]
    BY <1>5, <2>1, <2>2, MergeDelta
       DEF ApplyDelta, SyncedRowsAreAVersion, TypeOK
  <2>4. QED
    BY <1>5, <2>1, <2>2, <2>3
       DEF ApplyDelta, server, TypeOK, SyncedRowsAreAVersion,
           RowsWerePublished, HistoryWasPublished
<1>6. CASE UNCHANGED vars
  BY <1>6 DEF vars, TypeOK, SyncedRowsAreAVersion, RowsWerePublished,
              HistoryWasPublished
<1>7. QED
  BY <1>1, <1>2, <1>3, <1>4, <1>5, <1>6 DEF Next, Disconnected, DeltaGap

\* The fields of SnapshotStreamState keep their types (stream.py).
THEOREM TypeCorrect == Spec => []TypeOK
<1>1. Spec => []IInv
  BY InitInv, StepInv, PTL DEF Spec
<1>2. IInv => TypeOK
  BY DEF IInv
<1>3. QED
  BY <1>1, <1>2, PTL

\* In every reachable state a synced stream holds exactly one published
\* version of the server's table.
THEOREM SyncedRowsTheorem == Spec => []SyncedRowsAreAVersion
<1>1. Spec => []IInv
  BY InitInv, StepInv, PTL DEF Spec
<1>2. IInv => SyncedRowsAreAVersion
  BY DEF IInv
<1>3. QED
  BY <1>1, <1>2, PTL

\* In every reachable state, synced or not, the rows are one whole table
\* that some run of the server published.
THEOREM RowsWerePublishedTheorem == Spec => []RowsWerePublished
<1>1. Spec => []IInv
  BY InitInv, StepInv, PTL DEF Spec
<1>2. IInv => RowsWerePublished
  BY DEF IInv
<1>3. QED
  BY <1>1, <1>2, PTL

\* Every step of the stream is a step of Replica on the view, or a stutter.
LEMMA StepRefines ==
    IInv /\ [Next]_vars => [R!Next]_<<history, version, 
                 IF synced THEN [seq |-> sequence, rows |-> rows] ELSE Lost>>
<1> DEFINE V == IF synced THEN [seq |-> sequence, rows |-> rows] ELSE Lost
<1> SUFFICES ASSUME IInv, [Next]_vars
             PROVE  [R!Next]_<<history, version, V>>
  OBVIOUS
<1>t. /\ Tables = R!Tables
      /\ Blank = R!Blank
  BY DEF Tables, R!Tables, Blank, R!Blank
<1>1. CASE Publish
  BY <1>1, <1>t DEF Publish, R!Next, R!Publish, local, Lost
<1>2. CASE ServerRestart
  BY <1>2, <1>t DEF ServerRestart, DropSync, R!Next, R!Restart, Lost
<1>3. CASE DropSync /\ UNCHANGED server
  BY <1>3 DEF DropSync, R!Next, R!Lose, server, Lost
<1>4. ASSUME NEW n \in 0 .. version, ReplaceSnapshot(n)
      PROVE  R!Next
  BY <1>4 DEF ReplaceSnapshot, SnapshotRows, R!Next, R!Resync, R!ViewOf, server, Lost
<1>5. ASSUME NEW n \in 1 .. version, ApplyDelta(n)
      PROVE  R!Next
  <2>1. /\ synced
        /\ sequence \in 0 .. version
        /\ n = sequence + 1
    BY <1>5 DEF IInv, ApplyDelta, CanApply, IsNext, SyncedRowsAreAVersion
  <2>2. /\ synced'
        /\ sequence' = n
        /\ UNCHANGED <<history, version>>
    BY <1>5, <2>1 DEF ApplyDelta, server
  <2>3. rows' = history[n]
    BY <1>5, <2>2, StepInv DEF IInv, SyncedRowsAreAVersion, Next
  <2>4. V # Lost
    BY <2>1 DEF Lost
  <2>5. V.seq < version
    BY <1>5, <2>1 DEF IInv, TypeOK
  <2>6. V' = R!ViewOf(V.seq + 1)
    BY <2>1, <2>2, <2>3 DEF R!ViewOf
  <2>7. QED
    BY <2>2, <2>4, <2>5, <2>6 DEF R!Next, R!Advance
<1>6. CASE UNCHANGED vars
  BY <1>6 DEF vars, Lost, Blank
<1>7. QED
  BY <1>1, <1>2, <1>3, <1>4, <1>5, <1>6 DEF Next, Disconnected, DeltaGap

\* The stream implements the abstract consumer: apply_delta only ever
\* advances the view by one version, replace_snapshot re-establishes it,
\* and any gap or disconnect loses it rather than corrupting it.
THEOREM ImplementsReplicaTheorem == Spec => ImplementsReplica
<1>1. Init => R!Init
  BY DEF Init, R!Init, Lost, Blank, R!Blank
<1>2. QED
  BY <1>1, InitInv, StepInv, StepRefines, PTL
     DEF Spec, ImplementsReplica, R!Spec
=============================================================================
