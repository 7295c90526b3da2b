------------------------------ MODULE Scanner ------------------------------
(***************************************************************************)
(* The rooster scanner (strategies/rooster/main/scanners/scan.py) on the   *)
(* scanner harness (aftermath_runtime/harness.py: ScanState, run_scan).    *)
(* Its signal is the clock: in the window before a configured session open *)
(* it may emit one signal per asset, and a ledger in the transactional     *)
(* scan state keeps the next ticks from emitting it again.                 *)
(*                                                                         *)
(* A tick reads the clock once, then the account, then the candles; the    *)
(* clock and the positions go on meanwhile.  A tick may raise, run out of  *)
(* its time or be killed at any point; no two ticks overlap.  The score of *)
(* an asset is any number, so any set of assets may be candidates.         *)
(***************************************************************************)
EXTENDS Integers, Sequences, FiniteSetsExt

CONSTANTS
    Assets,         \* inputs["assets"]
    Opens,          \* inputs["sessionOpensUtc"], as minutes of the day
    DayLength,      \* minutes of a day (1440)
    Span,           \* max(1, inputs["preOpenMinutes"])
    MaxSlots,       \* inputs["maxSlots"]
    MaxCount,       \* state_history_max_count
    LastDay         \* bound: days the clock runs

ASSUME ClockAssumption ==
    /\ DayLength \in Nat \ {0}
    /\ Span \in 1 .. DayLength
    /\ Opens \subseteq 0 .. DayLength - 1
    /\ LastDay \in Nat

ASSUME HistoryAssumption == MaxCount \in Nat \ {0} /\ MaxSlots \in Nat

VARIABLES
    day, minute,    \* the clock: epoch days and the minute of the day, UTC
    held,           \* platform: assets with an open position
    records,        \* ScanState._records: each one the `fired` map of a tick
    staged,         \* ScanState._staged
    tick,           \* the running tick
    sent,           \* signals delivered for sessions that are yet to open
    spent           \* <<session, asset>> whose signal was committed, likewise

clock == <<day, minute>>
vars  == <<day, minute, held, records, staged, tick, sent, spent>>

(***************************************************************************)
(* The clock.                                                              *)
(***************************************************************************)

\* Minutes from m to the open o: (o - m) % 1440.
MinutesTo(o, m) == IF o >= m THEN o - m ELSE o - m + DayLength

\* The opens whose pre-open window the minute m is in.
Near(m) == {o \in Opens : MinutesTo(o, m) \in 1 .. Span}

\* session_phase: the nearest of them.
SessionOpen(m) == {o \in Near(m) : \A p \in Near(m) : MinutesTo(o, m) =< MinutesTo(p, m)}

\* The session of a window: its open, and the day it opens on.
Session(d, m, o) == [open |-> o, day |-> IF o > m THEN d ELSE d + 1]

\* No window crosses midnight.
WindowsInsideDay == \A o \in Opens : o = 0 \/ o >= Span

\* Mutant: the day is left out of the key.
SessionKeyOfOpen(d, o, a) == [day |-> 0, open |-> o, asset |-> a]

\* The key of the ledger takes the day of the tick.
SessionKey(d, o, a) == [day |-> d, open |-> o, asset |-> a]

\* An entry of the ledger is dropped when it is two days old.
Recent(entry, d, m) == \/ d < entry.day + 2
                       \/ d = entry.day + 2 /\ m < entry.minute

(***************************************************************************)
(* ScanState.                                                              *)
(***************************************************************************)

LastRecord == IF records = <<>> THEN {} ELSE records[Len(records)]

\* Mutant: the history is not bounded.
TrimmedNever(rs) == rs

Trimmed(rs) == IF Len(rs) > MaxCount
               THEN SubSeq(rs, Len(rs) - MaxCount + 1, Len(rs)) ELSE rs

(***************************************************************************)
(* A tick.                                                                 *)
(***************************************************************************)

Resting == [at |-> "idle", day |-> 0, minute |-> 0, open |-> 0,
            fired |-> {}, held |-> {}, out |-> {}]

\* Past the clock gate: outside every window scan() returns at once.
StartTick ==
    /\ tick.at = "idle"
    /\ \E open \in SessionOpen(minute) :
        tick' = [at |-> "account", day |-> day, minute |-> minute, open |-> open,
                 fired |-> {e \in LastRecord : Recent(e.at, day, minute)},
                 held |-> {}, out |-> {}]
    /\ UNCHANGED <<clock, held, records, staged, sent, spent>>

\* The account is read; without an account value or a free slot the tick
\* ends with nothing appended.
ReadAccount ==
    /\ tick.at = "account"
    /\ tick' = [tick EXCEPT !.at = "score", !.held = held]
    /\ UNCHANGED <<clock, held, records, staged, sent, spent>>

GivesUp ==
    /\ \/ tick.at = "account"
       \/ tick.at = "score" /\ MaxSlots =< Cardinality(tick.held)
    /\ tick' = Resting
    /\ UNCHANGED <<clock, held, records, staged, sent, spent>>

\* Already positioned into this open.
Fired(a) == \E e \in tick.fired : e.key = SessionKey(tick.day, tick.open, a)

\* The candles of the others are read and scored; the best of them fill the
\* free slots, are entered in the ledger and returned.
Score(candidates, out) ==
    /\ tick.at = "score"
    /\ Cardinality(tick.held) < MaxSlots
    /\ candidates \subseteq {a \in Assets : a \notin tick.held /\ ~ Fired(a)}
    /\ out \subseteq candidates
    /\ Cardinality(out) = Min({Cardinality(candidates), MaxSlots - Cardinality(tick.held)})
    /\ LET new == {[key |-> SessionKey(tick.day, tick.open, a),
                    at  |-> [day |-> tick.day, minute |-> tick.minute]] : a \in out}
       IN  staged' = Append(staged, {e \in tick.fired : \A n \in new : n.key # e.key}
                                        \cup new)
    /\ tick' = [tick EXCEPT !.at = "commit", !.out = out]
    /\ UNCHANGED <<clock, held, records, sent, spent>>

TickSession == Session(tick.day, tick.minute, tick.open)

\* A session that has opened emits no more: its signals are forgotten here.
Ahead(pairs, d, m) == {p \in pairs : p.session.day > d \/ (p.session.day = d /\ p.session.open > m)}

\* run_scan commits, then returns the signals.
Commit ==
    /\ tick.at = "commit"
    /\ records' = Trimmed(records \o staged)
    /\ staged' = <<>>
    /\ spent' = spent \cup Ahead({[session |-> TickSession, asset |-> a] : a \in tick.out},
                                 day, minute)
    /\ tick' = [tick EXCEPT !.at = "return"]
    /\ UNCHANGED <<clock, held, sent>>

\* Mutant: the signals are handed over before the state is committed.
MayReturnEarly == tick.at \in {"commit", "return"}

MayReturn == tick.at = "return"

Return ==
    /\ MayReturn
    /\ sent' = sent \cup {[session |-> TickSession, asset |-> a,
                           at |-> <<tick.day, tick.minute>>] : a \in tick.out}
    /\ tick' = IF tick.at = "return" THEN Resting ELSE [tick EXCEPT !.at = "commit"]
    /\ UNCHANGED <<clock, held, records, staged, spent>>

\* scan() raises, its time is up, or the process dies: nothing staged stays.
Abort ==
    /\ tick.at # "idle"
    /\ staged' = <<>>
    /\ tick' = Resting
    /\ UNCHANGED <<clock, held, records, sent, spent>>

(***************************************************************************)
(* The clock and the platform.                                             *)
(***************************************************************************)

Pass ==
    /\ day < LastDay
    /\ IF minute = DayLength - 1 THEN day' = day + 1 /\ minute' = 0
                                 ELSE minute' = minute + 1 /\ day' = day
    /\ sent' = Ahead(sent, day', minute')
    /\ spent' = Ahead(spent, day', minute')
    /\ UNCHANGED <<held, records, staged, tick>>

\* A delivered signal is acted on or not; positions close at any time.
Enter(a) ==
    /\ \E s \in sent : s.asset = a
    /\ held' = held \cup {a}
    /\ UNCHANGED <<clock, records, staged, tick, sent, spent>>

Exit(a) ==
    /\ a \in held
    /\ held' = held \ {a}
    /\ UNCHANGED <<clock, records, staged, tick, sent, spent>>

Init ==
    /\ day = 0
    /\ minute = 0
    /\ held \in SUBSET Assets
    /\ records = <<>>
    /\ staged = <<>>
    /\ tick = Resting
    /\ sent = {}
    /\ spent = {}

Next ==
    \/ StartTick
    \/ ReadAccount
    \/ GivesUp
    \/ \E candidates \in SUBSET Assets : \E out \in SUBSET candidates : Score(candidates, out)
    \/ Commit
    \/ Return
    \/ Abort
    \/ Pass
    \/ \E a \in Assets : Enter(a) \/ Exit(a)

Spec == Init /\ [][Next]_vars

(***************************************************************************)
(* Properties.                                                             *)
(***************************************************************************)

Minutes == 0 .. DayLength - 1

Ledgers == SUBSET [key : [day : Nat, open : Opens, asset : Assets],
                   at  : [day : Nat, minute : Minutes]]

\* The types; a ledger has one entry per key, and the history its bound.
TypeOK ==
    /\ day \in Nat /\ minute \in Minutes
    /\ held \subseteq Assets
    /\ records \in Seq(Ledgers) /\ Len(records) =< MaxCount
    /\ staged \in Seq(Ledgers) /\ Len(staged) =< 1
    /\ \A i \in DOMAIN records : \A e, f \in records[i] : e.key = f.key => e = f
    /\ tick.at \in {"idle", "account", "score", "commit", "return"}
    /\ tick.held \subseteq Assets /\ tick.out \subseteq Assets

\* "Emits at most ONE signal per session open per asset" (runtime.yaml): no
\* two ticks deliver a signal for one asset into one session, whatever was
\* rejected or closed in between and wherever a tick was cut off.
OncePerSession ==
    \A s, t \in sent : (s.session = t.session /\ s.asset = t.asset) => s = t

\* And the ledger silences nothing else: a tick passes over an asset only if
\* a signal for it was committed in this very session.
NeverSilenced ==
    [][ tick.at = "score" /\ tick'.at = "commit"
          => \A a \in Assets : Fired(a)
               => \/ [session |-> TickSession, asset |-> a] \in spent
                  \/ Ahead({[session |-> TickSession]}, day, minute) = {} ]_vars
=============================================================================
