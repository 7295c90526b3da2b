----------------------------- MODULE AuditQuery -----------------------------
(***************************************************************************)
(* aftermath_runtime/adapter.py _tool_audit_query: the order history,      *)
(* newest first, page by page, from a cursor on and for so many pages.     *)
(* Events arrive while it reads, and are forgotten by the venue; no two    *)
(* have one time.  A venue that echoes the cursor is one of them.          *)
(***************************************************************************)
EXTENDS Integers, Sequences, SequencesExt

CONSTANTS
    Limit,          \* events of a page
    MaxPages,       \* bound: the pages asked for
    MaxEvents,      \* bound: events of the account
    None

VARIABLES
    newest, oldest, \* venue: the times oldest..newest have an event
    echoes,         \* venue: it answers with the cursor it is given
    pages,          \* pages still to be read; 0 at rest
    start,          \* the newest event before the cursor at the first request
    cursor,         \* the cursor of the next request
    rows,           \* the events read
    seen,           \* the cursors answered with
    at

audit == <<pages, start, cursor, rows, seen, at>>

Before(c) == IF c = None THEN newest ELSE c - 1

\* The page before a cursor: its events, newest first.
PageOf(c) ==
    LET last == Before(c) + 1 - Limit
        low  == IF last > oldest THEN last ELSE oldest
    IN  [i \in 1 .. (Before(c) + 1 - low) |-> Before(c) + 1 - i]

\* The cursor the page is answered with: None when it was the last.
Answered(c) ==
    IF echoes THEN c
    ELSE IF PageOf(c) # <<>> /\ Last(PageOf(c)) > oldest THEN Last(PageOf(c)) ELSE None

Query ==
    /\ at = "idle"
    /\ pages' \in 1 .. MaxPages
    /\ cursor' \in {None} \cup 1 .. newest + 1
    /\ rows' = <<>>
    /\ seen' = {}
    /\ at' = "read"
    /\ UNCHANGED <<newest, oldest, echoes, start>>

Stops(answer) == answer = None \/ answer \in seen

\* Mutant: the next page is asked for with the cursor of this one.
NextCursorKept(answer) == cursor

NextCursor(answer) == answer

\* One request; the answer's rows, then its cursor.
Read ==
    /\ at = "read"
    /\ start' = IF seen = {} THEN Before(cursor) ELSE start
    /\ rows' = rows \o PageOf(cursor)
    /\ LET answer == Answered(cursor)
       IN  /\ cursor' = NextCursor(answer)
           /\ pages' = pages - 1
           /\ IF Stops(answer) THEN at' = "idle" /\ UNCHANGED seen
              ELSE /\ seen' = seen \cup {answer}
                   /\ at' = IF pages = 1 THEN "idle" ELSE "read"
    /\ UNCHANGED <<newest, oldest, echoes>>

Arrives ==
    /\ newest < MaxEvents
    /\ newest' = newest + 1
    /\ UNCHANGED <<oldest, echoes, audit>>

Forgets ==
    /\ oldest =< newest
    /\ oldest' = oldest + 1
    /\ UNCHANGED <<newest, echoes, audit>>

Init ==
    /\ newest = 0 /\ oldest = 1
    /\ echoes \in BOOLEAN
    /\ pages = 0 /\ start = 0 /\ cursor = None
    /\ rows = <<>> /\ seen = {}
    /\ at = "idle"

Next == Query \/ Read \/ Arrives \/ Forgets

(***************************************************************************)
(* Properties.                                                             *)
(***************************************************************************)

\* The rows are the events before the cursor, newest first, each once and none
\* left out, whatever arrives or is forgotten between two pages; and the cursor
\* handed back goes on after the last of them, or is None at the end.
NoGapNoRepeat ==
    ~echoes =>
        /\ \A i \in DOMAIN rows : rows[i] = start + 1 - i
        /\ at = "idle" /\ rows # <<>> /\ cursor # None => cursor = Last(rows)
=============================================================================
