------------------------------ MODULE Replica ------------------------------
(***************************************************************************)
(* What a snapshot/delta consumer promises: at every moment its view is    *)
(* either Lost or exactly one published version of the server's table, and *)
(* a view moves only by resynchronising on a published version, by         *)
(* advancing to the next one, or by being lost.                            *)
(***************************************************************************)
EXTENDS Integers

CONSTANTS Keys, Values, NoRow, MaxVersion, Lost

VARIABLES
    history,    \* history[n] is the table the server published as version n
    version,    \* the latest version the server published
    view        \* what the consumer may rely on: [seq, rows] or Lost

Tables    == [Keys -> Values \cup {NoRow}]
Histories == [0 .. MaxVersion -> Tables]
Blank     == [k \in Keys |-> NoRow]

ViewOf(n) == [seq |-> n, rows |-> history[n]]

Init ==
    /\ history = [n \in 0 .. MaxVersion |-> Blank]
    /\ version = 0
    /\ view = Lost

Publish ==
    /\ version < MaxVersion
    /\ version' = version + 1
    /\ \E t \in Tables : history' = [history EXCEPT ![version + 1] = t]
    /\ UNCHANGED view

\* A restarted server numbers its tables from 0 again; the view is lost.
Restart ==
    /\ view' = Lost
    /\ version' = 0
    /\ \E t \in Tables :
         history' = [n \in 0 .. MaxVersion |-> IF n = 0 THEN t ELSE Blank]

Resync ==
    /\ \E n \in 0 .. version : view' = ViewOf(n)
    /\ UNCHANGED <<history, version>>

Advance ==
    /\ view # Lost
    /\ view.seq < version
    /\ view' = ViewOf(view.seq + 1)
    /\ UNCHANGED <<history, version>>

Lose ==
    /\ view' = Lost
    /\ UNCHANGED <<history, version>>

Next == Publish \/ Restart \/ Resync \/ Advance \/ Lose

Spec == Init /\ [][Next]_<<history, version, view>>
=============================================================================
