----------------------------- MODULE ExitMatch -----------------------------
(***************************************************************************)
(* senpi-improve-trades/scripts/review.py _index_exit_events and           *)
(* _match_exit_event: which event of a runtime's log says how a trade      *)
(* ended.  position.closed carries the order id, dsl.closed does not; an   *)
(* event may be gone from the log, and is stamped somewhat after the       *)
(* close.  One asset: events of another are never looked at.               *)
(***************************************************************************)
EXTENDS Integers, Sequences

CONSTANTS
    Trades,         \* trades of one asset
    MaxTime,        \* bound: the last time at which one closes
    Window,         \* EXIT_MATCH_WINDOW_MS
    MaxLag,         \* bound: how late an event may be stamped
    None

VARIABLES
    closed,         \* when each trade closed, or None
    events          \* the log, in the order it is read

Event == [trade : Trades, id : BOOLEAN, ts : 0..(MaxTime + MaxLag)]

(***************************************************************************)
(* The matching.                                                           *)
(***************************************************************************)
Distance(e, t) == IF e.ts > closed[t] THEN e.ts - closed[t] ELSE closed[t] - e.ts

\* The event with the order id of a trade; an order id is one trade's.
ById(t) == {i \in DOMAIN events : events[i].id /\ events[i].trade = t}

Near(t) == {i \in DOMAIN events : Distance(events[i], t) <= Window}

\* Mutant: the first event of the window rather than the nearest.
FirstNear(t) == {i \in Near(t) : \A j \in Near(t) : i <= j}

\* Of the events in the window, the nearest, the first of several.
Nearest(t) ==
    {i \in Near(t) : \A j \in Near(t) :
        \/ Distance(events[i], t) < Distance(events[j], t)
        \/ Distance(events[i], t) = Distance(events[j], t) /\ i <= j}

\* Mutant: the order id is not looked at.
MatchByTime(t) == Nearest(t)

Match(t) == IF ById(t) # {} THEN ById(t) ELSE Nearest(t)

(***************************************************************************)
(* The runtime.                                                            *)
(***************************************************************************)
Closes(t) ==
    /\ closed[t] = None
    /\ \E time \in 0..MaxTime : closed' = [closed EXCEPT ![t] = time]
    /\ UNCHANGED events

\* Each of the two events of a close at most once, anywhere in the log.
Logs(t) ==
    /\ closed[t] # None
    /\ \E lag \in 0..MaxLag, id \in BOOLEAN, at \in 0..Len(events) :
        /\ \A i \in DOMAIN events : events[i].trade = t => events[i].id # id
        /\ events' = SubSeq(events, 1, at)
                     \o <<[trade |-> t, id |-> id, ts |-> closed[t] + lag]>>
                     \o SubSeq(events, at + 1, Len(events))
    /\ UNCHANGED closed

Init ==
    /\ closed = [t \in Trades |-> None]
    /\ events = <<>>

Next == \E t \in Trades : Closes(t) \/ Logs(t)

(***************************************************************************)
(* Properties.                                                             *)
(***************************************************************************)
Own(t) == {i \in DOMAIN events : events[i].trade = t}

\* No other trade of the asset closed close enough to be taken for this one.
Alone(t) ==
    \A u \in Trades \ {t} :
        closed[u] # None => \/ closed[u] - closed[t] > Window + MaxLag
                            \/ closed[t] - closed[u] > Window + MaxLag

\* A trade in the log is given an event of its own by its order id; without
\* one, it is if it is alone (_match_exit_event: "EXACT order id ... else same
\* ASSET + close_time within" the window).  No trade that is alone is given another's event.
RightEvent ==
    \A t \in Trades : closed[t] # None =>
        /\ ById(t) # {} => Match(t) # {} /\ Match(t) \subseteq ById(t)
        /\ Alone(t) => /\ Match(t) \subseteq Own(t)
                       /\ MaxLag <= Window /\ Own(t) # {} => Match(t) # {}

\* Closer trades are told apart as long as both are logged without delay.
NearestIsOwn ==
    \A t \in Trades :
        /\ closed[t] # None
        /\ \A i \in DOMAIN events : events[i].ts = closed[events[i].trade]
        /\ \A u \in Trades \ {t} : closed[u] # closed[t]
        /\ Own(t) # {}
        => Match(t) \subseteq Own(t)
=============================================================================
