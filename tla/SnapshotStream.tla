--------------------------- MODULE SnapshotStream ---------------------------
(***************************************************************************)
(* aftermath_runtime/stream.py: SnapshotStreamState, the local copy of a   *)
(* remote table kept by one snapshot followed by numbered deltas.          *)
(*                                                                         *)
(* The server and the network are the environment.  The feed may lose,     *)
(* duplicate, delay and reorder messages of the server's current run, so   *)
(* any published snapshot or delta may arrive at any time.  The server may *)
(* restart and number its tables from 0 again; the restart breaks the      *)
(* connection, so disconnected() runs before any message of the new run.   *)
(***************************************************************************)
EXTENDS Integers

CONSTANTS
    Keys,           \* row keys
    Values,         \* row contents
    NoRow,          \* a key without a row (None in a delta)
    Untouched,      \* a key a delta does not mention
    NoSequence,     \* sequence before the first snapshot (None)
    MaxVersion      \* bound: versions one run of the server publishes

ASSUME MaxVersionAssumption == MaxVersion \in Nat
ASSUME MarkersAssumption ==
    /\ NoRow \notin Values
    /\ Untouched \notin Values \cup {NoRow}
    /\ NoSequence \notin Int

VARIABLES
    history,    \* server: history[n] is the table published as version n
    version,    \* server: the latest published version of this run
    published,  \* server: every table published in any run
    sequence,   \* SnapshotStreamState.sequence
    synced,     \* SnapshotStreamState.synced
    rows        \* SnapshotStreamState.rows

server == <<history, version, published>>
local  == <<sequence, synced, rows>>
vars   == <<history, version, published, sequence, synced, rows>>

Tables == [Keys -> Values \cup {NoRow}]
Blank  == [k \in Keys |-> NoRow]

TypeOK ==
    /\ history \in [0 .. MaxVersion -> Tables]
    /\ version \in 0 .. MaxVersion
    /\ published \in SUBSET Tables
    /\ sequence \in Nat \cup {NoSequence}
    /\ synced \in BOOLEAN
    /\ rows \in Tables

\* The delta from version n-1 to version n names the rows that differ.
DeltaTo(n) ==
    [k \in Keys |-> IF history[n][k] = history[n - 1][k]
                    THEN Untouched ELSE history[n][k]]

(***************************************************************************)
(* The consumer: one action per outcome of each method.                    *)
(***************************************************************************)

\* Mutant: the delta replaces the table instead of updating it.
MergeReplaces(table, updates) == updates

Merge(table, updates) ==
    [k \in Keys |-> IF updates[k] = Untouched THEN table[k] ELSE updates[k]]

\* Mutant: the snapshot updates the old rows, so removed rows survive.
SnapshotRowsMerged(n) ==
    [k \in Keys |-> IF history[n][k] = NoRow THEN rows[k] ELSE history[n][k]]

SnapshotRows(n) == history[n]

\* Mutant: any newer delta counts as the next one.
IsNextNewer(n) == n > sequence

IsNext(n) == n = sequence + 1

\* Mutant: deltas are accepted without a fresh snapshot.
CanApplyAnytime == sequence # NoSequence

CanApply == synced /\ sequence # NoSequence

\* The effect of disconnected(): the rows stay, the synced flag goes.
DropSync == synced' = FALSE /\ UNCHANGED <<sequence, rows>>

Disconnected == DropSync /\ UNCHANGED server

\* Any published snapshot is accepted, however old.
ReplaceSnapshot(n) ==
    /\ sequence' = n
    /\ rows' = SnapshotRows(n)
    /\ synced' = TRUE
    /\ UNCHANGED server

\* A delta while unsynced raises and changes nothing: it has no action.
ApplyDelta(n) ==
    /\ CanApply
    /\ IsNext(n)
    /\ rows' = Merge(rows, DeltaTo(n))
    /\ sequence' = n
    /\ UNCHANGED <<synced, server>>

DeltaGap(n) ==
    /\ CanApply
    /\ ~IsNext(n)
    /\ DropSync
    /\ UNCHANGED server

(***************************************************************************)
(* The server.                                                             *)
(***************************************************************************)
Publish ==
    /\ version < MaxVersion
    /\ version' = version + 1
    /\ \E t \in Tables :
         /\ history' = [history EXCEPT ![version + 1] = t]
         /\ published' = published \cup {t}
    /\ UNCHANGED local

\* A restart breaks the connection: disconnected() runs before any message
\* of the new run.
ServerRestart ==
    /\ version' = 0
    /\ \E t \in Tables :
         /\ history' = [n \in 0 .. MaxVersion |-> IF n = 0 THEN t ELSE Blank]
         /\ published' = published \cup {t}
    /\ DropSync

Init ==
    /\ history = [n \in 0 .. MaxVersion |-> Blank]
    /\ version = 0
    /\ published = {Blank}
    /\ sequence = NoSequence
    /\ synced = FALSE
    /\ rows = Blank

Next ==
    \/ Publish
    \/ ServerRestart
    \/ Disconnected
    \/ \E n \in 0 .. version : ReplaceSnapshot(n)
    \/ \E n \in 1 .. version : ApplyDelta(n)
    \/ \E n \in 1 .. version : DeltaGap(n)

Spec == Init /\ [][Next]_vars

(***************************************************************************)
(* Properties.                                                             *)
(***************************************************************************)

\* While synced, the local rows are exactly the table the server published
\* under the local sequence number, whatever was lost, repeated, reordered,
\* and however often the server restarted (replace_snapshot, apply_delta).
SyncedRowsAreAVersion ==
    synced => /\ sequence \in 0 .. version
              /\ rows = history[sequence]

\* Even unsynced, the rows a reader still sees were once published as a
\* whole: a disconnect, a gap or a restart never leaves a mixture of two
\* tables behind (apply_delta rejects deltas until a fresh snapshot).
RowsWerePublished == rows \in published

HistoryWasPublished == \A n \in 0 .. version : history[n] \in published

\* The inductive invariant behind both.
IInv == TypeOK /\ SyncedRowsAreAVersion /\ RowsWerePublished /\ HistoryWasPublished

\* Refinement: seen through its synced flag the stream is a Replica, whose
\* view jumps to a published version, advances by exactly one, or is lost.
Lost == [seq |-> -1, rows |-> Blank]

R == INSTANCE Replica WITH
       view <- IF synced THEN [seq |-> sequence, rows |-> rows] ELSE Lost

ImplementsReplica == R!Spec
=============================================================================
