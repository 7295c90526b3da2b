--------------------------- MODULE Scanner_proofs ---------------------------
(***************************************************************************)
(* That the ledger does what it is for, for any assets, opens, history     *)
(* bound and interleaving of ticks with the clock, as long as no pre-open  *)
(* window crosses midnight.  The invariant follows the ledger round: from  *)
(* the last record into a tick, through the staged map, and back into the  *)
(* last record.                                                            *)
(***************************************************************************)
EXTENDS MC_Scanner, TLAPS

Keys    == [day : Nat, open : Opens, asset : Assets]
Entries == [key : Keys, at : [day : Nat, minute : Minutes]]
Signals == [session : [open : Opens, day : Nat], asset : Assets, at : Nat \X Minutes]
Ticks   == [at : {"idle", "account", "score", "commit", "return"}, day : Nat, minute : Minutes,
            open : Int, fired : SUBSET Entries, held : SUBSET Assets, out : SUBSET Assets]

\* A ledger has one entry per key.
Single(ledger) == \A e, f \in ledger : e.key = f.key => e = f

\* It has one for an asset and an open.
Entered(ledger, d, o, a) == \E e \in ledger : e.key = SessionKey(d, o, a)

\* An entry's session, if it is still to come, is one whose signal was committed.
IsAhead(session, d, m) == session.day > d \/ (session.day = d /\ session.open > m)

EntrySession(e) == Session(e.at.day, e.at.minute, e.key.open)

Accounted(e) ==
    /\ e.key.day = e.at.day
    /\ e.key.open \in Near(e.at.minute)
    /\ IsAhead(EntrySession(e), day, minute)
         => [session |-> EntrySession(e), asset |-> e.key.asset] \in spent

TypeInv ==
    /\ day \in Nat /\ minute \in Minutes
    /\ held \subseteq Assets
    /\ records \in Seq(SUBSET Entries) /\ Len(records) <= MaxCount
    /\ \A i \in 1 .. Len(records) : Single(records[i])
    /\ tick \in Ticks
    /\ Single(tick.fired)
    /\ sent \subseteq Signals

\* The staged map is there between append and commit, and only then.
StagedInv ==
    \/ tick.at # "commit" /\ staged = <<>>
    \/ /\ tick.at = "commit"
       /\ \E ledger \in SUBSET Entries :
            /\ staged = <<ledger>>
            /\ Single(ledger)
            /\ \A s \in sent : s.at[1] = tick.day
                    => Entered(ledger, tick.day, s.session.open, s.asset)
            /\ \A a \in tick.out : Entered(ledger, tick.day, tick.open, a)
            /\ \A e \in ledger :
                    \/ Accounted(e)
                    \/ /\ e.at = [day |-> tick.day, minute |-> tick.minute]
                       /\ \E a \in tick.out : e.key = SessionKey(tick.day, tick.open, a)

SentInv ==
    \A s \in sent :
        /\ s.at[1] <= day
        /\ s.session.open \in Near(s.at[2])
        /\ s.session = Session(s.at[1], s.at[2], s.session.open)
        /\ s.at[1] = day => Entered(LastRecord, day, s.session.open, s.asset)

TickInv ==
    tick.at # "idle" =>
        /\ tick.open \in Near(tick.minute)
        /\ tick.day <= day
        /\ \A s \in sent : s.at[1] <= tick.day
        /\ tick.at \in {"account", "score"} =>
             \A s \in sent : s.at[1] = tick.day
                => Entered(tick.fired, tick.day, s.session.open, s.asset)
        /\ tick.at \in {"commit", "return"} =>
             \A a \in tick.out, s \in sent : s.session = TickSession => s.asset # a
        /\ tick.at = "return" =>
             \A a \in tick.out : Entered(LastRecord, tick.day, tick.open, a)

LedgerInv == /\ \A e \in LastRecord : Accounted(e)
             /\ \A e \in tick.fired : Accounted(e)

IInv == TypeInv /\ StagedInv /\ SentInv /\ TickInv /\ LedgerInv /\ OncePerSession

-----------------------------------------------------------------------------

\* An open is behind the minute of its window only at midnight.
LEMMA WindowLemma ==
    ASSUME WindowsInsideDay, NEW m \in Minutes, NEW o \in Near(m)
    PROVE  o \in Opens /\ o \in Nat /\ (o > m <=> o # 0)
  BY ClockAssumption DEF WindowsInsideDay, Near, MinutesTo, Minutes

\* Windows of one session are on one day: the day of the key is a function of
\* the session (scan.py, the key of `fired`).
LEMMA KeyLemma ==
    ASSUME WindowsInsideDay, NEW d \in Nat, NEW e \in Nat, NEW m \in Minutes, NEW n \in Minutes,
           NEW o \in Near(m), NEW p \in Near(n)
    PROVE  Session(d, m, o) = Session(e, n, p) <=> d = e /\ o = p
<1>1. o \in Nat /\ (o > m <=> o # 0) /\ p \in Nat /\ (p > n <=> p # 0)
  BY WindowLemma
<1>2. /\ Session(d, m, o).open = o /\ Session(d, m, o).day = IF o > m THEN d ELSE d + 1
      /\ Session(e, n, p).open = p /\ Session(e, n, p).day = IF p > n THEN e ELSE e + 1
  BY DEF Session
<1>3. ASSUME d = e, o = p PROVE Session(d, m, o) = Session(e, n, p)
  <2>1. (o > m) <=> (p > n)
    BY <1>1, <1>3
  <2> QED BY <2>1, <1>3 DEF Session
<1>4. ASSUME Session(d, m, o) = Session(e, n, p) PROVE d = e /\ o = p
  <2>1. o = p /\ (IF o > m THEN d ELSE d + 1) = (IF p > n THEN e ELSE e + 1)
    BY <1>2, <1>4
  <2> QED BY <1>1, <2>1
<1> QED BY <1>3, <1>4

\* What is ahead after the clock has moved was ahead before.
LEMMA PassLemma ==
    ASSUME day \in Nat, minute \in Minutes, Pass,
           NEW session \in [open : Opens, day : Nat], IsAhead(session, day', minute')
    PROVE  IsAhead(session, day, minute)
<1>0. session.open \in Opens /\ session.day \in Nat
  OBVIOUS
<1>a. \A o \in Opens : o \in Nat
  BY ClockAssumption
<1>1. session.open \in Nat /\ session.day \in Nat
  BY <1>0, <1>a
<1>2. minute \in Nat /\ DayLength \in Nat
  BY ClockAssumption DEF Minutes
<1>3. CASE minute = DayLength - 1
  <2>1. day' = day + 1 /\ minute' = 0
    BY <1>3 DEF Pass
  <2> QED BY <1>1, <2>1 DEF IsAhead
<1>4. CASE minute # DayLength - 1
  <2>1. day' = day /\ minute' = minute + 1
    BY <1>4 DEF Pass
  <2> QED BY <1>1, <1>2, <2>1 DEF IsAhead
<1> QED BY <1>3, <1>4

\* A stretch of a sequence.
LEMMA StretchLemma ==
    ASSUME NEW T, NEW q \in Seq(T), NEW j \in 1 .. Len(q), NEW n \in j .. Len(q)
    PROVE  /\ SubSeq(q, j, n) \in Seq(T)
           /\ Len(SubSeq(q, j, n)) = n - j + 1
           /\ \A i \in 1 .. (n - j + 1) : SubSeq(q, j, n)[i] = q[j + i - 1]
<1>1. Len(q) \in Nat /\ j \in Nat /\ n \in Nat /\ 1 <= j /\ j <= n /\ n <= Len(q)
  OBVIOUS
<1>2. \A i \in 1 .. Len(q) : q[i] \in T
  OBVIOUS
<1>3. SubSeq(q, j, n) \in Seq(T)
  BY <1>1, <1>2
<1> QED BY <1>1, <1>3

\* A history after a commit: it ends with the record l, and keeps records of rs.
Extends(all, rs, l) ==
    /\ Len(all) \in 1 .. MaxCount
    /\ all[Len(all)] = l
    /\ \A i \in 1 .. Len(all) : all[i] = l \/ \E j \in 1 .. Len(rs) : all[i] = rs[j]

\* After a commit the last record is the staged one (ScanState.commit).
LEMMA TrimLemma ==
    ASSUME NEW S, NEW rs \in Seq(S), NEW l \in S, NEW all, all = rs \o <<l>>
    PROVE  Trimmed(all) \in Seq(S) /\ Extends(Trimmed(all), rs, l)
<1> USE DEF Extends
<1> DEFINE n == Len(rs) + 1
<1>0. MaxCount \in Nat \ {0} /\ Len(rs) \in Nat
  BY HistoryAssumption
<1>1. /\ all \in Seq(S) /\ Len(all) = n
      /\ \A i \in 1 .. n : all[i] = IF i = n THEN l ELSE rs[i]
  OBVIOUS
<1>2. CASE n <= MaxCount
  <2>1. Trimmed(all) = all
    BY <1>0, <1>1, <1>2 DEF Trimmed
  <2>2. /\ \A i \in 1 .. n : all[i] = IF i = n THEN l ELSE rs[i]
        /\ n \in 1 .. MaxCount /\ n \in 1 .. n
        /\ \A i \in 1 .. n : i # n => i \in 1 .. Len(rs)
    BY <1>0, <1>1, <1>2
  <2> HIDE DEF n
  <2> QED BY <1>1, <2>1, <2>2
<1>3. CASE n > MaxCount
  <2> DEFINE k == n - MaxCount
  <2>1. Trimmed(all) = SubSeq(all, k + 1, n)
    BY <1>0, <1>1, <1>3 DEF Trimmed
  <2>2. k \in Nat /\ k + 1 \in 1 .. n /\ n \in 1 .. n
    BY <1>0, <1>3
  <2> HIDE DEF k
  <2>3. /\ SubSeq(all, k + 1, n) \in Seq(S)
        /\ Len(SubSeq(all, k + 1, n)) = n - k
        /\ \A i \in 1 .. (n - k) : SubSeq(all, k + 1, n)[i] = all[k + i]
    BY <1>1, <2>2, StretchLemma
  <2>4. n - k = MaxCount /\ MaxCount \in 1 .. MaxCount /\ k + MaxCount = n
    BY <1>0 DEF k
  <2>5. \A i \in 1 .. MaxCount : k + i \in 1 .. n /\ (k + i # n => k + i \in 1 .. Len(rs))
    BY <1>0, <2>2, <2>4
  <2> HIDE DEF n
  <2>6. \A i \in 1 .. MaxCount : SubSeq(all, k + 1, n)[i] = IF k + i = n THEN l ELSE rs[k + i]
    BY <1>1, <2>3, <2>4, <2>5
  <2>7. Trimmed(all) \in Seq(S) /\ Len(Trimmed(all)) = MaxCount
    BY <2>1, <2>3, <2>4
  <2>8. \A i \in 1 .. MaxCount : Trimmed(all)[i] = IF k + i = n THEN l ELSE rs[k + i]
    BY <2>1, <2>6
  <2>9. Trimmed(all)[MaxCount] = l
    BY <2>4, <2>8
  <2>10. \A i \in 1 .. MaxCount : \/ Trimmed(all)[i] = l
                                  \/ \E j \in 1 .. Len(rs) : Trimmed(all)[i] = rs[j]
    BY <2>5, <2>8
  <2> QED BY <2>4, <2>7, <2>9, <2>10
<1> QED BY <1>0, <1>2, <1>3

\* The scanner starts with an empty history and nothing sent.
LEMMA InitInv == Init => IInv
<1> SUFFICES ASSUME Init PROVE IInv
  OBVIOUS
<1>1. TypeInv
  BY ClockAssumption, HistoryAssumption DEF Init, TypeInv, Ticks, Resting, Minutes, Single
<1>2. StagedInv /\ SentInv /\ TickInv /\ OncePerSession
  BY DEF Init, StagedInv, SentInv, TickInv, OncePerSession, Resting
<1>3. LedgerInv
  BY DEF Init, LedgerInv, LastRecord, Resting
<1> QED BY <1>1, <1>2, <1>3 DEF IInv

-----------------------------------------------------------------------------

\* What the last record is, whatever it is.
LEMMA LastLemma == TypeInv => LastRecord \in SUBSET Entries /\ Single(LastRecord)
<1> SUFFICES ASSUME TypeInv PROVE LastRecord \in SUBSET Entries /\ Single(LastRecord)
  OBVIOUS
<1>1. CASE records = <<>>
  BY <1>1 DEF LastRecord, Single
<1>2. CASE records # <<>>
  <2>1. Len(records) \in 1 .. Len(records) /\ LastRecord = records[Len(records)]
    BY <1>2 DEF TypeInv, LastRecord
  <2> QED BY <2>1 DEF TypeInv
<1> QED BY <1>1, <1>2

\* The steps that leave the clock and the ledgers alone keep them accounted.
LEMMA AccountedLemma ==
    ASSUME day' = day, minute' = minute, spent \subseteq spent', NEW e, Accounted(e)
    PROVE  Accounted(e)'
  BY DEF Accounted

\* What is unchanged where only the tick is.
LEMMA TickOnly ==
    ASSUME IInv, UNCHANGED <<day, minute, held, records, staged, sent, spent>>
    PROVE  /\ (day \in Nat /\ minute \in Minutes /\ held \subseteq Assets)'
           /\ (records \in Seq(SUBSET Entries) /\ Len(records) <= MaxCount)'
           /\ (\A i \in 1 .. Len(records) : Single(records[i]))'
           /\ (sent \subseteq Signals)'
           /\ SentInv'
           /\ OncePerSession'
           /\ LastRecord' = LastRecord
           /\ \A e \in LastRecord : Accounted(e)'
           /\ \A e \in tick.fired : Accounted(e)'
<1>1. \A e : Accounted(e) => Accounted(e)'
  BY DEF Accounted
<1>2. LastRecord' = LastRecord
  BY DEF LastRecord
<1>3. SentInv'
  BY <1>2 DEF IInv, SentInv
<1> QED BY <1>1, <1>2, <1>3 DEF IInv, TypeInv, OncePerSession, LedgerInv

\* The pruned copy a tick takes of the last record keeps the entries of its day
\* (scan.py, the pruning of `fired`).
LEMMA StartTickInv == ASSUME IInv, StartTick PROVE IInv'
<1> USE DEF StartTick, clock
<1>1. PICK open \in SessionOpen(minute) :
        tick' = [at |-> "account", day |-> day, minute |-> minute, open |-> open,
                 fired |-> {e \in LastRecord : Recent(e.at, day, minute)},
                 held |-> {}, out |-> {}]
  OBVIOUS
<1>2. open \in Near(minute) /\ open \in Opens /\ open \in Int
  BY ClockAssumption DEF SessionOpen, Near
<1>3. LastRecord \in SUBSET Entries /\ Single(LastRecord)
  BY LastLemma DEF IInv
<1>4. /\ tick'.at = "account" /\ tick'.day = day /\ tick'.minute = minute /\ tick'.open = open
      /\ tick'.fired = {e \in LastRecord : Recent(e.at, day, minute)}
      /\ tick'.fired \subseteq LastRecord
  BY <1>1
<1>5. tick' \in Ticks /\ Single(tick'.fired)
  BY <1>1, <1>2, <1>3 DEF IInv, TypeInv, Ticks, Single
<1>6. staged' = <<>>
  BY DEF IInv, StagedInv
<1>7. ASSUME NEW s \in sent, s.at[1] = day
      PROVE  Entered(tick'.fired, day, s.session.open, s.asset)
  <2>1. PICK e \in LastRecord : e.key = SessionKey(day, s.session.open, s.asset)
    BY <1>7 DEF IInv, SentInv, Entered
  <2>a. e.key.day = day
    BY <2>1 DEF SessionKey
  <2>b. e.key.day = e.at.day
    BY <2>1 DEF IInv, LedgerInv, Accounted
  <2>2. e.at.day = day
    BY <2>a, <2>b
  <2>3. Recent(e.at, day, minute)
    BY <2>2 DEF Recent, IInv, TypeInv
  <2> QED BY <1>4, <2>1, <2>3 DEF Entered
<1>8. TickInv'
  <2>1. \A s \in sent : s.at[1] <= day
    BY DEF IInv, SentInv
  <2>2. day <= day
    BY DEF IInv, TypeInv
  <2> QED BY <1>2, <1>4, <1>7, <2>1, <2>2 DEF TickInv
<1>9. LedgerInv' /\ SentInv' /\ OncePerSession'
  BY <1>4, TickOnly DEF LedgerInv
<1>10. TypeInv'
  BY <1>5, TickOnly DEF TypeInv
<1>11. StagedInv'
  BY <1>4, <1>6 DEF StagedInv
<1> QED BY <1>8, <1>9, <1>10, <1>11 DEF IInv

\* Reading the account touches no ledger.
LEMMA ReadAccountInv == ASSUME IInv, ReadAccount PROVE IInv'
<1> USE DEF ReadAccount, clock
<1>1. tick \in Ticks /\ held \subseteq Assets
  BY DEF IInv, TypeInv
<1>2. /\ tick'.at = "score" /\ tick'.day = tick.day /\ tick'.minute = tick.minute
      /\ tick'.open = tick.open /\ tick'.fired = tick.fired
      /\ tick' \in Ticks
  BY <1>1 DEF Ticks
<1>3. TypeInv'
  BY <1>2, TickOnly DEF TypeInv, IInv
<1>4. StagedInv'
  BY <1>2 DEF IInv, StagedInv
<1>5. TickInv'
  BY <1>2 DEF IInv, TickInv
<1>6. LedgerInv' /\ SentInv' /\ OncePerSession'
  BY <1>2, TickOnly DEF LedgerInv
<1> QED BY <1>3, <1>4, <1>5, <1>6 DEF IInv

\* The resting tick carries nothing.
LEMMA RestingLemma ==
    /\ Resting \in Ticks /\ Resting.at = "idle" /\ Resting.fired = {}
  BY ClockAssumption DEF Resting, Ticks, Minutes

\* A tick that ends early leaves the history as it was.
LEMMA GivesUpInv == ASSUME IInv, GivesUp PROVE IInv'
<1> USE DEF GivesUp, clock
<1>1. tick' \in Ticks /\ tick'.at = "idle" /\ tick'.fired = {}
  BY RestingLemma
<1>2. TypeInv'
  BY <1>1, TickOnly DEF TypeInv, Single
<1>3. StagedInv' /\ TickInv'
  BY <1>1 DEF IInv, StagedInv, TickInv
<1>4. LedgerInv' /\ SentInv' /\ OncePerSession'
  BY <1>1, TickOnly DEF LedgerInv
<1> QED BY <1>2, <1>3, <1>4 DEF IInv

\* A tick cut off loses what it staged, and only that (ScanState.rollback).
LEMMA AbortInv == ASSUME IInv, Abort PROVE IInv'
<1> USE DEF Abort, clock
<1>1. tick' \in Ticks /\ tick'.at = "idle" /\ tick'.fired = {} /\ staged' = <<>>
  BY RestingLemma
<1>2. LastRecord' = LastRecord
  BY DEF LastRecord
<1>3. TypeInv'
  BY <1>1 DEF TypeInv, Single, IInv
<1>4. StagedInv' /\ TickInv'
  BY <1>1 DEF StagedInv, TickInv
<1>5. SentInv' /\ OncePerSession'
  BY <1>2 DEF IInv, SentInv, OncePerSession
<1>6. LedgerInv'
  BY <1>1, <1>2, AccountedLemma DEF IInv, LedgerInv
<1> QED BY <1>3, <1>4, <1>5, <1>6 DEF IInv

\* Two signals of one session come from one day and one open.
LEMMA SameSession ==
    ASSUME WindowsInsideDay, IInv, NEW s \in sent, tick.at # "idle", s.session = TickSession
    PROVE  s.at[1] = tick.day /\ s.session.open = tick.open
<1>1. /\ s.at[1] \in Nat /\ s.at[2] \in Minutes
      /\ tick.day \in Nat /\ tick.minute \in Minutes
  BY DEF IInv, TypeInv, Signals, Ticks
<1>2. /\ s.session.open \in Near(s.at[2]) /\ tick.open \in Near(tick.minute)
      /\ s.session = Session(s.at[1], s.at[2], s.session.open)
  BY DEF IInv, SentInv, TickInv
<1>3. Session(s.at[1], s.at[2], s.session.open) = Session(tick.day, tick.minute, tick.open)
  BY <1>2 DEF TickSession
<1> HIDE DEF IInv
<1> QED BY <1>1, <1>2, <1>3, KeyLemma

\* The staged map has the new entries and keeps every other entry of the session;
\* no asset is picked that was signalled in it (scan.py, the loop over the assets).
LEMMA ScoreInv ==
    ASSUME WindowsInsideDay, IInv,
           NEW candidates \in SUBSET Assets, NEW out \in SUBSET candidates, Score(candidates, out)
    PROVE  IInv'
<1> DEFINE new == {[key |-> SessionKey(tick.day, tick.open, a),
                    at  |-> [day |-> tick.day, minute |-> tick.minute]] : a \in out}
           ledger == {e \in tick.fired : \A n \in new : n.key # e.key} \cup new
<1> USE DEF clock
<1>1. /\ tick.at = "score" /\ candidates \subseteq {a \in Assets : a \notin tick.held /\ ~ Fired(a)}
      /\ staged' = Append(staged, ledger) /\ tick' = [tick EXCEPT !.at = "commit", !.out = out]
      /\ UNCHANGED <<day, minute, held, records, sent, spent>>
  BY DEF Score
<1>2. /\ tick \in Ticks /\ tick.fired \subseteq Entries /\ Single(tick.fired)
      /\ tick.day \in Nat /\ tick.minute \in Minutes
  BY DEF IInv, TypeInv, Ticks
<1>3. tick.open \in Near(tick.minute) /\ tick.open \in Opens
  BY <1>1 DEF IInv, TickInv, Near
<1>4. /\ tick' \in Ticks /\ tick'.at = "commit" /\ tick'.out = out /\ tick'.day = tick.day
      /\ tick'.minute = tick.minute /\ tick'.open = tick.open /\ tick'.fired = tick.fired
  BY <1>1, <1>2 DEF Ticks
<1>5. staged = <<>>
  BY <1>1 DEF IInv, StagedInv
<1>6. staged' = <<ledger>>
  BY <1>1, <1>5
<1>7. \A n \in new : \E a \in out :
        /\ n = [key |-> SessionKey(tick.day, tick.open, a),
                at |-> [day |-> tick.day, minute |-> tick.minute]]
        /\ n.key = SessionKey(tick.day, tick.open, a)
        /\ n.at = [day |-> tick.day, minute |-> tick.minute]
        /\ a \in Assets
  OBVIOUS
<1>8. \A a \in out : \E n \in new : n.key = SessionKey(tick.day, tick.open, a)
  <2> TAKE a \in out
  <2> WITNESS [key |-> SessionKey(tick.day, tick.open, a),
               at  |-> [day |-> tick.day, minute |-> tick.minute]] \in new
  <2> QED OBVIOUS
<1> HIDE DEF new
<1>9. new \subseteq Entries
  <2> SUFFICES ASSUME NEW n \in new PROVE n \in Entries
    OBVIOUS
  <2>1. PICK a \in out :
          /\ n = [key |-> SessionKey(tick.day, tick.open, a),
                  at |-> [day |-> tick.day, minute |-> tick.minute]]
          /\ a \in Assets
    BY <1>7
  <2>2. SessionKey(tick.day, tick.open, a) \in Keys
    BY <1>2, <1>3, <2>1 DEF Keys, SessionKey
  <2>3. [day |-> tick.day, minute |-> tick.minute] \in [day : Nat, minute : Minutes]
    BY <1>2
  <2> QED BY <2>1, <2>2, <2>3 DEF Entries
<1>10. ledger \in SUBSET Entries
  BY <1>2, <1>9
<1>11. \A n, k \in new : n.key = k.key => n = k
  <2> SUFFICES ASSUME NEW n \in new, NEW k \in new, n.key = k.key PROVE n = k
    OBVIOUS
  <2>1. PICK a \in out :
          /\ n = [key |-> SessionKey(tick.day, tick.open, a),
                  at |-> [day |-> tick.day, minute |-> tick.minute]]
          /\ n.key = SessionKey(tick.day, tick.open, a)
    BY <1>7
  <2>2. PICK b \in out :
          /\ k = [key |-> SessionKey(tick.day, tick.open, b),
                  at |-> [day |-> tick.day, minute |-> tick.minute]]
          /\ k.key = SessionKey(tick.day, tick.open, b)
    BY <1>7
  <2>3. SessionKey(tick.day, tick.open, a) = SessionKey(tick.day, tick.open, b)
    BY <2>1, <2>2
  <2> QED BY <2>1, <2>2, <2>3
<1>12. Single(ledger)
  BY <1>2, <1>11 DEF Single
<1>13. ASSUME NEW s \in sent, s.at[1] = tick.day
       PROVE  Entered(ledger, tick.day, s.session.open, s.asset)
  <2>1. PICK e \in tick.fired : e.key = SessionKey(tick.day, s.session.open, s.asset)
    BY <1>1, <1>13 DEF IInv, TickInv, Entered
  <2>2. CASE \E n \in new : n.key = e.key
    BY <2>1, <2>2 DEF Entered
  <2>3. CASE \A n \in new : n.key # e.key
    BY <2>1, <2>3 DEF Entered
  <2> QED BY <2>2, <2>3
<1>14. \A a \in out : Entered(ledger, tick.day, tick.open, a)
  BY <1>8 DEF Entered
<1>15. \A e \in ledger :
         \/ Accounted(e)'
         \/ /\ e.at = [day |-> tick.day, minute |-> tick.minute]
            /\ \E a \in out : e.key = SessionKey(tick.day, tick.open, a)
  <2>1. \A e \in tick.fired : Accounted(e)'
    BY <1>1, AccountedLemma DEF IInv, LedgerInv
  <2> QED BY <1>7, <2>1
<1>16. StagedInv'
  <2> HIDE DEF ledger
  <2>1. \A s \in sent' : s.at[1] = tick'.day
                => Entered(ledger, tick'.day, s.session.open, s.asset)
    BY <1>1, <1>4, <1>13
  <2>2. \A a \in tick'.out : Entered(ledger, tick'.day, tick'.open, a)
    BY <1>4, <1>14
  <2>3. \A e \in ledger :
         \/ Accounted(e)'
         \/ /\ e.at = [day |-> tick'.day, minute |-> tick'.minute]
            /\ \E a \in tick'.out : e.key = SessionKey(tick'.day, tick'.open, a)
    BY <1>4, <1>15
  <2> QED BY <1>4, <1>6, <1>10, <1>12, <2>1, <2>2, <2>3 DEF StagedInv
<1>17. ASSUME NEW a \in out, NEW s \in sent, s.session = TickSession
       PROVE  s.asset # a
  <2>1. s.at[1] = tick.day /\ s.session.open = tick.open
    BY <1>1, <1>17, SameSession
  <2>2. Entered(tick.fired, tick.day, tick.open, s.asset)
    BY <1>1, <2>1 DEF IInv, TickInv
  <2>3. ~ Fired(a)
    BY <1>1
  <2> QED BY <2>2, <2>3 DEF Entered, Fired
<1>18. TickInv'
  <2>1. TickSession' = TickSession
    BY <1>4 DEF TickSession
  <2>2. /\ tick'.open \in Near(tick'.minute) /\ tick'.day <= day'
        /\ \A s \in sent' : s.at[1] <= tick'.day
    BY <1>1, <1>3, <1>4 DEF IInv, TickInv
  <2>3. \A a \in tick'.out, s \in sent' : s.session = TickSession' => s.asset # a
    BY <1>1, <1>4, <1>17, <2>1
  <2> QED BY <1>4, <2>2, <2>3 DEF TickInv
<1>19. TypeInv'
  BY <1>1, <1>2, <1>4 DEF IInv, TypeInv
<1>20. LastRecord' = LastRecord
  BY <1>1 DEF LastRecord
<1>21. SentInv' /\ OncePerSession'
  BY <1>1, <1>20 DEF IInv, SentInv, OncePerSession
<1>22. LedgerInv'
  BY <1>1, <1>4, <1>20, AccountedLemma DEF IInv, LedgerInv
<1> QED BY <1>16, <1>18, <1>19, <1>21, <1>22 DEF IInv

\* The staged map becomes the last record before any signal leaves (run_scan).
LEMMA CommitInv == ASSUME IInv, Commit PROVE IInv'
<1> USE DEF clock
<1>1. /\ tick.at = "commit" /\ records' = Trimmed(records \o staged) /\ staged' = <<>>
      /\ tick' = [tick EXCEPT !.at = "return"]
      /\ UNCHANGED <<day, minute, held, sent>>
  BY DEF Commit
<1>2. /\ tick \in Ticks /\ tick.day \in Nat /\ tick.minute \in Minutes
      /\ day \in Nat /\ records \in Seq(SUBSET Entries)
  BY DEF IInv, TypeInv, Ticks
<1>3. /\ tick' \in Ticks /\ tick'.at = "return" /\ tick'.out = tick.out /\ tick'.day = tick.day
      /\ tick'.minute = tick.minute /\ tick'.open = tick.open /\ tick'.fired = tick.fired
  BY <1>1, <1>2 DEF Ticks
<1>4. PICK ledger \in SUBSET Entries :
        /\ staged = <<ledger>>
        /\ Single(ledger)
        /\ \A s \in sent : s.at[1] = tick.day
                => Entered(ledger, tick.day, s.session.open, s.asset)
        /\ \A a \in tick.out : Entered(ledger, tick.day, tick.open, a)
        /\ \A e \in ledger :
                \/ Accounted(e)
                \/ /\ e.at = [day |-> tick.day, minute |-> tick.minute]
                   /\ \E a \in tick.out : e.key = SessionKey(tick.day, tick.open, a)
  BY <1>1 DEF IInv, StagedInv
<1>5. /\ records' \in Seq(SUBSET Entries)
      /\ Len(records') \in 1 .. MaxCount
      /\ records'[Len(records')] = ledger
      /\ \A i \in 1 .. Len(records') :
           \/ records'[i] = ledger
           \/ \E j \in 1 .. Len(records) : records'[i] = records[j]
  <2> DEFINE all     == records \o <<ledger>>
             ledgers == SUBSET Entries
  <2>1. Trimmed(all) \in Seq(ledgers) /\ Extends(Trimmed(all), records, ledger)
    <3>1. records \in Seq(ledgers) /\ ledger \in ledgers /\ all = records \o <<ledger>>
      BY <1>2
    <3> HIDE DEF all, ledgers
    <3> QED BY <3>1, TrimLemma
  <2>2. records' = Trimmed(all)
    BY <1>1, <1>4
  <2> HIDE DEF all
  <2>3. records' \in Seq(SUBSET Entries) /\ Extends(records', records, ledger)
    BY <2>1, <2>2
  <2> QED BY <2>3 DEF Extends
<1>6. LastRecord' = ledger
  BY <1>5 DEF LastRecord
<1>7. TypeInv'
  <2>1. \A i \in 1 .. Len(records') : Single(records'[i])
    BY <1>4, <1>5 DEF IInv, TypeInv
  <2>2. Len(records') <= MaxCount
    BY <1>5, HistoryAssumption
  <2> QED BY <1>1, <1>3, <1>5, <2>1, <2>2 DEF IInv, TypeInv, Single
<1>8. StagedInv'
  BY <1>1, <1>3 DEF StagedInv
<1>9. /\ tick.open \in Near(tick.minute) /\ tick.day <= day
      /\ \A s \in sent : s.at[1] <= tick.day
      /\ \A a \in tick.out, s \in sent : s.session = TickSession => s.asset # a
  BY <1>1 DEF IInv, TickInv
<1>10. SentInv'
  <2>1. ASSUME NEW s \in sent, s.at[1] = day
        PROVE  Entered(ledger, day, s.session.open, s.asset)
    <3>1. tick.day = day
      BY <1>2, <1>9, <2>1
    <3> QED BY <1>4, <2>1, <3>1
  <2> QED BY <1>1, <1>6, <2>1 DEF IInv, SentInv
<1>11. TickInv'
  <2>1. TickSession' = TickSession
    BY <1>3 DEF TickSession
  <2>2. \A a \in tick'.out, s \in sent' : s.session = TickSession' => s.asset # a
    BY <1>1, <1>3, <1>9, <2>1
  <2>3. \A a \in tick'.out : Entered(LastRecord', tick'.day, tick'.open, a)
    BY <1>3, <1>4, <1>6
  <2> QED BY <1>1, <1>3, <1>9, <2>2, <2>3 DEF TickInv
<1>12. spent \subseteq spent'
  BY DEF Commit
<1>13. \A e : Accounted(e) => Accounted(e)'
  BY <1>1, <1>12 DEF Accounted
<1>14. ASSUME NEW e \in ledger, e.at = [day |-> tick.day, minute |-> tick.minute],
              NEW a \in tick.out, e.key = SessionKey(tick.day, tick.open, a)
       PROVE  Accounted(e)'
  <2>1. /\ e.key.day = tick.day /\ e.key.open = tick.open /\ e.key.asset = a
        /\ e.at.day = tick.day /\ e.at.minute = tick.minute
    BY <1>14 DEF SessionKey
  <2>2. EntrySession(e) = TickSession
    BY <2>1 DEF EntrySession, TickSession
  <2> DEFINE p == [session |-> TickSession, asset |-> a]
  <2>3. p \in {[session |-> TickSession, asset |-> b] : b \in tick.out} /\ p.session = TickSession
    OBVIOUS
  <2>4. IsAhead(TickSession, day, minute) => p \in spent'
    BY <2>3 DEF Commit, Ahead, IsAhead
  <2> QED BY <1>1, <1>9, <2>1, <2>2, <2>4 DEF Accounted
<1>15. \A e \in ledger : Accounted(e)'
  BY <1>4, <1>13, <1>14
<1>16. LedgerInv'
  BY <1>3, <1>6, <1>13, <1>15 DEF IInv, LedgerInv
<1>17. OncePerSession'
  BY <1>1 DEF IInv, OncePerSession
<1> QED BY <1>7, <1>8, <1>10, <1>11, <1>16, <1>17 DEF IInv

\* The signals handed over are in the last record already.
LEMMA ReturnInv == ASSUME IInv, Return PROVE IInv'
<1> USE DEF clock
<1> DEFINE new == {[session |-> TickSession, asset |-> a,
                    at |-> <<tick.day, tick.minute>>] : a \in tick.out}
<1>1. /\ tick.at = "return" /\ sent' = sent \cup new /\ tick' = Resting
      /\ UNCHANGED <<day, minute, held, records, staged, spent>>
  BY DEF Return, MayReturn
<1>2. /\ tick \in Ticks /\ tick.day \in Nat /\ tick.minute \in Minutes
      /\ tick.out \subseteq Assets
  BY DEF IInv, TypeInv, Ticks
<1>3. /\ tick.open \in Near(tick.minute) /\ tick.open \in Opens /\ tick.day <= day
      /\ \A a \in tick.out, s \in sent : s.session = TickSession => s.asset # a
      /\ \A a \in tick.out : Entered(LastRecord, tick.day, tick.open, a)
  BY <1>1 DEF IInv, TickInv, Near
<1>4. \A n \in new : \E a \in tick.out :
        /\ n = [session |-> TickSession, asset |-> a, at |-> <<tick.day, tick.minute>>]
        /\ n.session = TickSession /\ n.asset = a
        /\ n.at = <<tick.day, tick.minute>> /\ n.at[1] = tick.day /\ n.at[2] = tick.minute
  OBVIOUS
<1> HIDE DEF new
<1>5. /\ TickSession \in [open : Opens, day : Nat] /\ TickSession.open = tick.open
      /\ TickSession = Session(tick.day, tick.minute, tick.open)
  BY <1>2, <1>3 DEF TickSession, Session
<1>6. new \subseteq Signals
  <2> SUFFICES ASSUME NEW n \in new PROVE n \in Signals
    OBVIOUS
  <2>1. PICK a \in tick.out :
          n = [session |-> TickSession, asset |-> a, at |-> <<tick.day, tick.minute>>]
    BY <1>4
  <2>2. a \in Assets /\ <<tick.day, tick.minute>> \in Nat \X Minutes
    BY <1>2
  <2> QED BY <1>5, <2>1, <2>2 DEF Signals
<1>7. /\ tick' \in Ticks /\ tick'.at = "idle" /\ tick'.fired = {}
  BY <1>1, RestingLemma
<1>8. TypeInv'
  BY <1>1, <1>6, <1>7 DEF IInv, TypeInv, Single
<1>9. StagedInv' /\ TickInv'
  BY <1>1, <1>7 DEF IInv, StagedInv, TickInv
<1>10. LastRecord' = LastRecord
  BY <1>1 DEF LastRecord
<1>11. ASSUME NEW n \in new
       PROVE  /\ n.at[1] <= day
              /\ n.session.open \in Near(n.at[2])
              /\ n.session = Session(n.at[1], n.at[2], n.session.open)
              /\ n.at[1] = day => Entered(LastRecord, day, n.session.open, n.asset)
  BY <1>3, <1>4, <1>5
<1>12. SentInv'
  BY <1>1, <1>10, <1>11 DEF IInv, SentInv
<1>13. OncePerSession'
  <2> SUFFICES ASSUME NEW s \in sent', NEW t \in sent', s.session = t.session, s.asset = t.asset
               PROVE  s = t
    BY DEF OncePerSession
  <2>1. CASE s \in sent /\ t \in sent
    BY <2>1 DEF IInv, OncePerSession
  <2>2. CASE s \in new /\ t \in new
    BY <1>4, <2>2
  <2>3. CASE s \in sent /\ t \in new
    BY <1>3, <1>4, <2>3
  <2>4. CASE s \in new /\ t \in sent
    BY <1>3, <1>4, <2>4
  <2> QED BY <1>1, <2>1, <2>2, <2>3, <2>4
<1>14. LedgerInv'
  BY <1>1, <1>7, <1>10, AccountedLemma DEF IInv, LedgerInv
<1> QED BY <1>8, <1>9, <1>12, <1>13, <1>14 DEF IInv

\* The clock forgets sessions that have opened and leaves the ledgers alone.
LEMMA PassInv == ASSUME IInv, Pass PROVE IInv'
<1>1. /\ UNCHANGED <<held, records, staged, tick>>
      /\ sent' \subseteq sent
  BY DEF Pass, Ahead
<1>2. day \in Nat /\ minute \in Minutes
  BY DEF IInv, TypeInv
<1>3. day' \in Nat /\ minute' \in Minutes /\ (day' = day \/ day' = day + 1)
  BY <1>2, ClockAssumption DEF Pass, Minutes
<1>4. LastRecord' = LastRecord /\ LastRecord \subseteq Entries /\ tick.fired \subseteq Entries
  BY <1>1, LastLemma DEF LastRecord, IInv, TypeInv, Ticks
<1>5. ASSUME NEW e \in Entries, Accounted(e) PROVE Accounted(e)'
  <2>1. e.at.day \in Nat /\ e.key.open \in Opens
    BY DEF Entries, Keys
  <2>2. EntrySession(e) \in [open : Opens, day : Nat]
    BY <2>1 DEF EntrySession, Session
  <2> DEFINE p == [session |-> EntrySession(e), asset |-> e.key.asset]
  <2>3. ASSUME IsAhead(EntrySession(e), day', minute') PROVE p \in spent'
    <3>1. IsAhead(EntrySession(e), day, minute)
      BY <1>2, <2>2, <2>3, PassLemma
    <3>2. p \in spent /\ p.session = EntrySession(e)
      BY <1>5, <3>1 DEF Accounted
    <3>3. p.session.day > day' \/ (p.session.day = day' /\ p.session.open > minute')
      BY <2>3, <3>2 DEF IsAhead
    <3>4. spent' = Ahead(spent, day', minute')
      BY DEF Pass
    <3> HIDE DEF p
    <3> QED BY <3>2, <3>3, <3>4 DEF Ahead
  <2> QED BY <1>5, <2>3 DEF Accounted, EntrySession
<1>6. TypeInv'
  BY <1>1, <1>3 DEF IInv, TypeInv, Single
<1>7. StagedInv'
  <2>1. CASE tick.at # "commit"
    BY <1>1, <2>1 DEF IInv, StagedInv
  <2>2. CASE tick.at = "commit"
    <3>1. PICK ledger \in SUBSET Entries :
        /\ staged = <<ledger>>
        /\ Single(ledger)
        /\ \A s \in sent : s.at[1] = tick.day
                => Entered(ledger, tick.day, s.session.open, s.asset)
        /\ \A a \in tick.out : Entered(ledger, tick.day, tick.open, a)
        /\ \A e \in ledger :
                \/ Accounted(e)
                \/ /\ e.at = [day |-> tick.day, minute |-> tick.minute]
                   /\ \E a \in tick.out : e.key = SessionKey(tick.day, tick.open, a)
      BY <2>2 DEF IInv, StagedInv
    <3>2. \A e \in ledger :
                \/ Accounted(e)'
                \/ /\ e.at = [day |-> tick.day, minute |-> tick.minute]
                   /\ \E a \in tick.out : e.key = SessionKey(tick.day, tick.open, a)
      BY <1>5, <3>1
    <3> QED BY <1>1, <2>2, <3>1, <3>2 DEF StagedInv
  <2> QED BY <2>1, <2>2
<1>8. SentInv'
  <2> SUFFICES ASSUME NEW s \in sent'
               PROVE  /\ s.at[1] <= day'
                      /\ s.session.open \in Near(s.at[2])
                      /\ s.session = Session(s.at[1], s.at[2], s.session.open)
                      /\ s.at[1] = day' => Entered(LastRecord', day', s.session.open, s.asset)
    BY DEF SentInv
  <2>1. s \in sent /\ s.at[1] \in Nat
    BY <1>1 DEF IInv, TypeInv, Signals
  <2>2. /\ s.at[1] <= day
        /\ s.session.open \in Near(s.at[2])
        /\ s.session = Session(s.at[1], s.at[2], s.session.open)
        /\ s.at[1] = day => Entered(LastRecord, day, s.session.open, s.asset)
    BY <2>1 DEF IInv, SentInv
  <2>3. s.at[1] <= day' /\ (s.at[1] = day' => day' = day)
    BY <1>2, <1>3, <2>1, <2>2
  <2> QED BY <1>4, <2>2, <2>3
<1>9. TickInv'
  <2>1. CASE tick.at = "idle"
    BY <1>1, <2>1 DEF TickInv
  <2>2. CASE tick.at # "idle"
    <3>1. tick.day <= day'
      BY <1>2, <1>3, <2>2 DEF IInv, TickInv, TypeInv, Ticks
    <3>2. TickSession' = TickSession
      BY <1>1 DEF TickSession
    <3> QED BY <1>1, <1>4, <2>2, <3>1, <3>2 DEF IInv, TickInv
  <2> QED BY <2>1, <2>2
<1>10. LedgerInv'
  BY <1>1, <1>4, <1>5 DEF IInv, LedgerInv
<1>11. OncePerSession'
  BY <1>1 DEF IInv, OncePerSession
<1> QED BY <1>6, <1>7, <1>8, <1>9, <1>10, <1>11 DEF IInv

\* Entries and exits on the platform, and stuttering, touch no ledger.
LEMMA PlatformInv ==
    ASSUME IInv, UNCHANGED <<day, minute, records, staged, tick, sent, spent>>,
           held' \subseteq Assets
    PROVE  IInv'
<1>1. LastRecord' = LastRecord
  BY DEF LastRecord
<1>2. TypeInv'
  BY DEF IInv, TypeInv, Single
<1>3. TickSession' = TickSession
  BY DEF TickSession
<1>4. \A e : Accounted(e) => Accounted(e)'
  BY DEF Accounted
<1>5. StagedInv'
  BY <1>4 DEF IInv, StagedInv
<1>6. SentInv' /\ TickInv' /\ OncePerSession'
  BY <1>1, <1>3 DEF IInv, SentInv, TickInv, OncePerSession
<1>7. LedgerInv'
  BY <1>1, <1>4 DEF IInv, LedgerInv
<1> QED BY <1>2, <1>5, <1>6, <1>7 DEF IInv

\* Every step of the scanner, the clock and the platform keeps the invariant.
LEMMA NextInv == ASSUME WindowsInsideDay, IInv, [Next]_vars PROVE IInv'
<1>0. held \subseteq Assets
  BY DEF IInv, TypeInv
<1>1. CASE StartTick
  BY <1>1, StartTickInv
<1>2. CASE ReadAccount
  BY <1>2, ReadAccountInv
<1>3. CASE GivesUp
  BY <1>3, GivesUpInv
<1>4. CASE \E candidates \in SUBSET Assets : \E out \in SUBSET candidates : Score(candidates, out)
  BY <1>4, ScoreInv
<1>5. CASE Commit
  BY <1>5, CommitInv
<1>6. CASE Return
  BY <1>6, ReturnInv
<1>7. CASE Abort
  BY <1>7, AbortInv
<1>8. CASE Pass
  BY <1>8, PassInv
<1>9. CASE \E a \in Assets : Enter(a) \/ Exit(a)
  BY <1>0, <1>9, PlatformInv DEF Enter, Exit, clock
<1>10. CASE UNCHANGED vars
  BY <1>0, <1>10, PlatformInv DEF vars, clock
<1> QED BY <1>1, <1>2, <1>3, <1>4, <1>5, <1>6, <1>7, <1>8, <1>9, <1>10 DEF Next

\* At most one signal per session open per asset, for any set of assets, any
\* session opens whose windows do not cross midnight, any history bound and
\* any interleaving of the ticks with the clock (scan.py, harness.py).
THEOREM OncePerSessionTheorem == ASSUME WindowsInsideDay PROVE Spec => []OncePerSession
<1>1. Init => IInv
  BY InitInv
<1>2. IInv /\ [Next]_vars => IInv'
  BY NextInv
<1>3. IInv => OncePerSession
  BY DEF IInv
<1> QED BY <1>1, <1>2, <1>3, PTL DEF Spec

\* And it silences nothing else, under the same assumption: whatever entry of the
\* ledger makes a tick pass an asset over is of the session the tick is in, so a
\* signal for it was committed in this session (scan.py, `fired`).
THEOREM NeverSilencedTheorem == ASSUME WindowsInsideDay PROVE Spec => NeverSilenced
<1> DEFINE Silences == tick.at = "score" /\ tick'.at = "commit"
                         => \A a \in Assets : Fired(a)
                              => \/ [session |-> TickSession, asset |-> a] \in spent
                                 \/ Ahead({[session |-> TickSession]}, day, minute) = {}
<1>1. Init => IInv
  BY InitInv
<1>2. IInv /\ [Next]_vars => IInv'
  BY NextInv
<1>3. IInv => Silences
  <2> SUFFICES ASSUME IInv, tick.at = "score", NEW a \in Assets, Fired(a)
               PROVE  \/ [session |-> TickSession, asset |-> a] \in spent
                      \/ Ahead({[session |-> TickSession]}, day, minute) = {}
    OBVIOUS
  <2>1. PICK e \in tick.fired : e.key = SessionKey(tick.day, tick.open, a)
    BY DEF Fired
  <2>2. /\ e.at.day \in Nat /\ e.at.minute \in Minutes
        /\ tick.day \in Nat /\ tick.minute \in Minutes
    BY <2>1 DEF IInv, TypeInv, Ticks, Entries
  <2>3. /\ e.key.day = e.at.day /\ e.key.open \in Near(e.at.minute)
        /\ IsAhead(EntrySession(e), day, minute)
             => [session |-> EntrySession(e), asset |-> e.key.asset] \in spent
    BY <2>1 DEF IInv, LedgerInv, Accounted
  <2>4. e.key.day = tick.day /\ e.key.open = tick.open /\ e.key.asset = a
    BY <2>1 DEF SessionKey
  <2>5. tick.open \in Near(tick.minute)
    BY DEF IInv, TickInv
  <2>6. EntrySession(e) = TickSession
    BY <2>2, <2>3, <2>4, <2>5, KeyLemma DEF EntrySession, TickSession
  <2>7. CASE IsAhead(TickSession, day, minute)
    BY <2>3, <2>4, <2>6, <2>7
  <2>8. CASE ~ IsAhead(TickSession, day, minute)
    BY <2>8 DEF Ahead, IsAhead
  <2> QED BY <2>7, <2>8
<1>4. IInv /\ [Next]_vars => [Silences]_vars
  BY <1>3
<1> QED BY <1>1, <1>2, <1>4, PTL DEF Spec, NeverSilenced

-----------------------------------------------------------------------------

(***************************************************************************)
(* The types need no assumption on the windows: they follow from what a    *)
(* tick holds and stages alone.                                            *)
(***************************************************************************)
StagedTypes ==
    \/ tick.at # "commit" /\ staged = <<>>
    \/ /\ tick.at = "commit"
       /\ \E ledger \in SUBSET Entries : staged = <<ledger>> /\ Single(ledger)

ShapeInv == /\ TypeInv
            /\ StagedTypes
            /\ tick.at # "idle" => tick.open \in Opens

\* A tick starts from the last record (scan.py, the pruning of `fired`).
LEMMA StartTickShape == ASSUME ShapeInv, StartTick PROVE ShapeInv'
<1> USE DEF StartTick, clock
<1>1. PICK open \in SessionOpen(minute) :
        tick' = [at |-> "account", day |-> day, minute |-> minute, open |-> open,
                 fired |-> {e \in LastRecord : Recent(e.at, day, minute)},
                 held |-> {}, out |-> {}]
  OBVIOUS
<1>2. open \in Opens /\ open \in Int
  BY ClockAssumption DEF SessionOpen, Near
<1>3. LastRecord \in SUBSET Entries /\ Single(LastRecord)
  BY LastLemma DEF ShapeInv
<1>4. tick' \in Ticks /\ Single(tick'.fired) /\ tick'.at = "account" /\ tick'.open \in Opens
  BY <1>1, <1>2, <1>3 DEF ShapeInv, TypeInv, Ticks, Single
<1>5. TypeInv'
  BY <1>4 DEF ShapeInv, TypeInv
<1>6. StagedTypes'
  BY <1>4 DEF ShapeInv, StagedTypes
<1> QED BY <1>4, <1>5, <1>6 DEF ShapeInv

\* A tick that rests, or has read the account, stages nothing.
LEMMA IdleShape ==
    ASSUME ShapeInv, tick' \in Ticks, tick'.at # "commit", Single(tick'.fired), staged' = <<>>,
           tick'.at # "idle" => tick'.open \in Opens,
           UNCHANGED <<day, minute, held, records>>, sent' \subseteq Signals
    PROVE  ShapeInv'
<1>1. TypeInv'
  BY DEF ShapeInv, TypeInv
<1>2. StagedTypes'
  BY DEF StagedTypes
<1> QED BY <1>1, <1>2 DEF ShapeInv

\* The map a tick stages has one entry per key (scan.py, the loop over the assets).
LEMMA ScoreShape ==
    ASSUME ShapeInv,
           NEW candidates \in SUBSET Assets, NEW out \in SUBSET candidates, Score(candidates, out)
    PROVE  ShapeInv'
<1> DEFINE new == {[key |-> SessionKey(tick.day, tick.open, a),
                    at  |-> [day |-> tick.day, minute |-> tick.minute]] : a \in out}
           ledger == {e \in tick.fired : \A n \in new : n.key # e.key} \cup new
<1> USE DEF clock
<1>1. /\ tick.at = "score" /\ staged' = Append(staged, ledger)
      /\ tick' = [tick EXCEPT !.at = "commit", !.out = out]
      /\ UNCHANGED <<day, minute, held, records, sent, spent>>
  BY DEF Score
<1>2. /\ tick \in Ticks /\ tick.fired \subseteq Entries /\ Single(tick.fired)
      /\ tick.day \in Nat /\ tick.minute \in Minutes /\ tick.open \in Opens
  BY <1>1 DEF ShapeInv, TypeInv, Ticks
<1>3. tick' \in Ticks /\ tick'.at = "commit" /\ tick'.open = tick.open /\ tick'.fired = tick.fired
  BY <1>1, <1>2 DEF Ticks
<1>4. staged' = <<ledger>>
  BY <1>1 DEF ShapeInv, StagedTypes
<1>5. \A n \in new : \E a \in out :
        n = [key |-> SessionKey(tick.day, tick.open, a),
             at |-> [day |-> tick.day, minute |-> tick.minute]]
  OBVIOUS
<1> HIDE DEF new
<1>6. \A n \in new : n \in Entries /\ n.at = [day |-> tick.day, minute |-> tick.minute]
  <2> SUFFICES ASSUME NEW n \in new
               PROVE  n \in Entries /\ n.at = [day |-> tick.day, minute |-> tick.minute]
    OBVIOUS
  <2>1. PICK a \in out : n = [key |-> SessionKey(tick.day, tick.open, a),
                              at |-> [day |-> tick.day, minute |-> tick.minute]]
    BY <1>5
  <2>2. SessionKey(tick.day, tick.open, a) \in Keys
    BY <1>2, <2>1 DEF Keys, SessionKey
  <2>3. [day |-> tick.day, minute |-> tick.minute] \in [day : Nat, minute : Minutes]
    BY <1>2
  <2> QED BY <2>1, <2>2, <2>3 DEF Entries
<1>7. \A n, k \in new : n.key = k.key => n = k
  BY <1>6 DEF Entries
<1>8. ledger \in SUBSET Entries /\ Single(ledger)
  BY <1>2, <1>6, <1>7 DEF Single
<1>9. StagedTypes'
  <2> HIDE DEF ledger
  <2> QED BY <1>3, <1>4, <1>8 DEF StagedTypes
<1>10. TypeInv'
  BY <1>1, <1>2, <1>3 DEF ShapeInv, TypeInv
<1> QED BY <1>2, <1>3, <1>9, <1>10 DEF ShapeInv

\* The history it becomes part of keeps its bound (ScanState.commit).
LEMMA CommitShape == ASSUME ShapeInv, Commit PROVE ShapeInv'
<1> USE DEF clock
<1>1. /\ tick.at = "commit" /\ records' = Trimmed(records \o staged) /\ staged' = <<>>
      /\ tick' = [tick EXCEPT !.at = "return"]
      /\ UNCHANGED <<day, minute, held, sent>>
  BY DEF Commit
<1>2. tick \in Ticks /\ records \in Seq(SUBSET Entries) /\ tick.open \in Opens
  BY <1>1 DEF ShapeInv, TypeInv
<1>3. tick' \in Ticks /\ tick'.at = "return" /\ tick'.open = tick.open /\ tick'.fired = tick.fired
  BY <1>1, <1>2 DEF Ticks
<1>4. PICK ledger \in SUBSET Entries : staged = <<ledger>> /\ Single(ledger)
  BY <1>1 DEF ShapeInv, StagedTypes
<1>5. records' \in Seq(SUBSET Entries) /\ Extends(records', records, ledger)
  <2> DEFINE all     == records \o <<ledger>>
             ledgers == SUBSET Entries
  <2>1. Trimmed(all) \in Seq(ledgers) /\ Extends(Trimmed(all), records, ledger)
    <3>1. records \in Seq(ledgers) /\ ledger \in ledgers /\ all = records \o <<ledger>>
      BY <1>2
    <3> HIDE DEF all, ledgers
    <3> QED BY <3>1, TrimLemma
  <2>2. records' = Trimmed(all)
    BY <1>1, <1>4
  <2> QED BY <2>1, <2>2
<1>6. Len(records') <= MaxCount
  BY <1>5, HistoryAssumption DEF Extends
<1>7. \A i \in 1 .. Len(records') : Single(records'[i])
  BY <1>4, <1>5 DEF Extends, ShapeInv, TypeInv
<1>8. TypeInv'
  BY <1>1, <1>3, <1>5, <1>6, <1>7 DEF ShapeInv, TypeInv
<1>9. StagedTypes'
  BY <1>1, <1>3 DEF StagedTypes
<1> QED BY <1>2, <1>3, <1>8, <1>9 DEF ShapeInv

\* What is delivered is a signal (run_scan).
LEMMA ReturnShape == ASSUME ShapeInv, Return PROVE ShapeInv'
<1> USE DEF clock
<1> DEFINE new == {[session |-> TickSession, asset |-> a,
                    at |-> <<tick.day, tick.minute>>] : a \in tick.out}
<1>1. /\ tick.at = "return" /\ sent' = sent \cup new /\ tick' = Resting
      /\ UNCHANGED <<day, minute, held, records, staged, spent>>
  BY DEF Return, MayReturn
<1>2. /\ tick.day \in Nat /\ tick.minute \in Minutes /\ tick.open \in Opens
      /\ tick.out \subseteq Assets
  BY <1>1 DEF ShapeInv, TypeInv, Ticks
<1>3. TickSession \in [open : Opens, day : Nat]
  BY <1>2 DEF TickSession, Session
<1>4. new \subseteq Signals
  BY <1>2, <1>3 DEF Signals
<1>5. sent' \subseteq Signals
  BY <1>1, <1>4 DEF ShapeInv, TypeInv
<1>6. tick' \in Ticks /\ tick'.at = "idle" /\ tick'.fired = {} /\ staged' = <<>>
  BY <1>1, RestingLemma DEF ShapeInv, StagedTypes
<1> HIDE DEF new
<1> QED BY <1>1, <1>5, <1>6, IdleShape DEF Single

\* The clock and the platform touch no ledger.
LEMMA PassShape == ASSUME ShapeInv, Pass PROVE ShapeInv'
<1>1. day \in Nat /\ minute \in 0 .. DayLength - 1 /\ DayLength \in Nat
  BY ClockAssumption DEF ShapeInv, TypeInv, Minutes
<1>2. day' \in Nat /\ minute' \in 0 .. DayLength - 1
  BY <1>1 DEF Pass
<1>3. sent' \subseteq sent /\ UNCHANGED <<held, records, staged, tick>>
  BY DEF Pass, Ahead
<1>4. TypeInv'
  BY <1>2, <1>3 DEF ShapeInv, TypeInv, Minutes
<1>5. StagedTypes'
  BY <1>3 DEF ShapeInv, StagedTypes
<1> QED BY <1>3, <1>4, <1>5 DEF ShapeInv

LEMMA PlatformShape ==
    ASSUME ShapeInv, held' \subseteq Assets,
           UNCHANGED <<day, minute, records, staged, tick, sent>>
    PROVE  ShapeInv'
<1>1. TypeInv'
  BY DEF ShapeInv, TypeInv
<1>2. StagedTypes'
  BY DEF ShapeInv, StagedTypes
<1> QED BY <1>1, <1>2 DEF ShapeInv

LEMMA NextShape == ASSUME ShapeInv, [Next]_vars PROVE ShapeInv'
<1>0. /\ tick \in Ticks /\ held \subseteq Assets /\ sent \subseteq Signals
      /\ Single(tick.fired) /\ (tick.at # "idle" => tick.open \in Opens)
      /\ (tick.at # "commit" => staged = <<>>)
  BY DEF ShapeInv, TypeInv, StagedTypes
<1>1. CASE StartTick
  BY <1>1, StartTickShape
<1>2. CASE ReadAccount
  <2>1. tick' = [tick EXCEPT !.at = "score", !.held = held] /\ tick.at = "account"
    BY <1>2 DEF ReadAccount
  <2>2. /\ tick' \in Ticks /\ tick'.at = "score" /\ tick'.fired = tick.fired
        /\ tick'.open = tick.open
    BY <1>0, <2>1 DEF Ticks
  <2>3. UNCHANGED <<day, minute, held, records, staged, sent>> /\ staged = <<>>
    BY <1>0, <1>2 DEF ReadAccount, clock
  <2> QED BY <1>0, <2>1, <2>2, <2>3, IdleShape
<1>3. CASE GivesUp
  BY <1>0, <1>3, RestingLemma, IdleShape DEF GivesUp, clock, Single
<1>4. CASE \E candidates \in SUBSET Assets : \E out \in SUBSET candidates : Score(candidates, out)
  BY <1>4, ScoreShape
<1>5. CASE Commit
  BY <1>5, CommitShape
<1>6. CASE Return
  BY <1>6, ReturnShape
<1>7. CASE Abort
  BY <1>0, <1>7, RestingLemma, IdleShape DEF Abort, clock, Single
<1>8. CASE Pass
  BY <1>8, PassShape
<1>9. CASE \E a \in Assets : Enter(a) \/ Exit(a)
  BY <1>0, <1>9, PlatformShape DEF Enter, Exit, clock
<1>10. CASE UNCHANGED vars
  BY <1>0, <1>10, PlatformShape DEF vars, clock
<1> QED BY <1>1, <1>2, <1>3, <1>4, <1>5, <1>6, <1>7, <1>8, <1>9, <1>10 DEF Next

\* For any windows, crossing midnight or not: every ledger of the history has one
\* entry per key, the history keeps to its bound, and at most one map is staged
\* (harness.py: ScanState.append and commit).
THEOREM TypeTheorem == Spec => []TypeOK
<1>1. Init => ShapeInv
  <2> SUFFICES ASSUME Init PROVE ShapeInv
    OBVIOUS
  <2>1. TypeInv
    BY InitInv DEF IInv
  <2>2. StagedTypes /\ tick.at = "idle"
    BY DEF Init, StagedTypes, Resting
  <2> QED BY <2>1, <2>2 DEF ShapeInv
<1>2. ShapeInv /\ [Next]_vars => ShapeInv'
  BY NextShape
<1>3. ShapeInv => TypeOK
  <2> SUFFICES ASSUME ShapeInv PROVE TypeOK
    OBVIOUS
  <2>1. Ledgers = SUBSET Entries
    BY DEF Ledgers, Entries, Keys
  <2>2. staged \in Seq(Ledgers) /\ Len(staged) <= 1
    <3>1. CASE staged = <<>>
      BY <3>1
    <3>2. ASSUME NEW ledger \in SUBSET Entries, staged = <<ledger>>
          PROVE  staged \in Seq(Ledgers) /\ Len(staged) <= 1
      BY <2>1, <3>2
    <3> QED BY <3>1, <3>2 DEF ShapeInv, StagedTypes
  <2>3. records \in Seq(Ledgers) /\ Len(records) <= MaxCount
    BY <2>1 DEF ShapeInv, TypeInv
  <2>4. \A i \in DOMAIN records : \A e, f \in records[i] : e.key = f.key => e = f
    BY <2>3 DEF ShapeInv, TypeInv, Single
  <2> QED BY <2>2, <2>3, <2>4 DEF ShapeInv, TypeInv, Ticks, TypeOK
<1> QED BY <1>1, <1>2, <1>3, PTL DEF Spec

-----------------------------------------------------------------------------

(***************************************************************************)
(* What the ledgers of kestrel, hyena and scorpion are good for, for any   *)
(* assets, any times and any reads that fail.  The invariant says what the *)
(* last record still knows of each signal and of each position remembered, *)
(* as long as it matters and unless a record without the map has been      *)
(* committed since.                                                        *)
(***************************************************************************)
Times     == [asset : R!Coins, at : Int]
WipedFrom(t) == \E w \in wiped : t < w

\* A map of asset to time, none of them to come.
IsMap(map) == \E S \in SUBSET R!Coins : map \in [S -> Int]

MemoryTypes ==
    /\ now \in Nat
    /\ positions \subseteq R!Coins /\ prevHeld \subseteq R!Coins
    /\ IsMap(signaled) /\ IsMap(lastClosed)
    /\ emitted \subseteq Times /\ sightings \subseteq Times
    /\ wiped \subseteq Int

PastInv ==
    /\ \A s \in emitted : s.at < now
    /\ \A s \in sightings : s.at < now
    /\ \A w \in wiped : w < now

\* Entered no earlier than t.
Since(map, a, t) == a \in DOMAIN map /\ map[a] >= t

SignaledInv ==
    \A s \in emitted :
        \/ WipedFrom(s.at)
        \/ now - s.at >= Ttl
        \/ Since(signaled, s.asset, s.at)

\* Only scorpion remembers positions.
SightedInv ==
    \A s \in sightings :
        /\ scanner = "scorpion"
        /\ \/ WipedFrom(s.at)
           \/ now - s.at > Cooldown
           \/ s.asset \in prevHeld
           \/ Since(lastClosed, s.asset, s.at + 1)

MemoryInv ==
    /\ MemoryTypes
    /\ PastInv
    /\ SignaledInv
    /\ SightedInv
    /\ SpacedUnlessWiped
    /\ CooldownAfterClose

-----------------------------------------------------------------------------

\* The map of a record without one (the default of last.get) is a map.
LEMMA NoMapLemma == IsMap(R!NoMap)
BY DEF IsMap, R!NoMap

\* map[a] = now leaves a map a map (the assignments in the three scan.py).
LEMMA StampedLemma ==
    ASSUME NEW map, IsMap(map), NEW assets \in SUBSET R!Coins, now \in Nat
    PROVE  IsMap(R!Stamped(map, assets))
<1>1. PICK S \in SUBSET R!Coins : map \in [S -> Int]
  BY DEF IsMap
<1>2. R!Stamped(map, assets) \in [S \cup assets -> Int]
  BY <1>1 DEF R!Stamped
<1>3. S \cup assets \in SUBSET R!Coins
  OBVIOUS
<1> QED BY <1>2, <1>3 DEF IsMap

\* What a pruned map still has.
LEMMA PrunedLemma ==
    ASSUME NEW map, IsMap(map), NEW span
    PROVE  /\ IsMap(R!Pruned(map, span))
           /\ DOMAIN R!Pruned(map, span) = {a \in DOMAIN map : now - map[a] < 4 * span}
           /\ \A a \in DOMAIN R!Pruned(map, span) : R!Pruned(map, span)[a] = map[a]
<1>1. PICK S \in SUBSET R!Coins : map \in [S -> Int]
  BY DEF IsMap
<1>2. DOMAIN map = S
  BY <1>1
<1> DEFINE kept == {a \in DOMAIN map : R!Within(map, a, 4 * span)}
<1>3. kept = {a \in DOMAIN map : now - map[a] < 4 * span}
  BY DEF R!Within
<1>4. R!Pruned(map, span) = [a \in kept |-> map[a]]
  BY DEF R!Pruned, R!Restrict
<1>5. kept \in SUBSET R!Coins
  BY <1>2
<1>6. R!Pruned(map, span) \in [kept -> Int]
  BY <1>1, <1>2, <1>4
<1>7. IsMap(R!Pruned(map, span))
  BY <1>5, <1>6 DEF IsMap
<1> QED BY <1>3, <1>4, <1>7

-----------------------------------------------------------------------------

\* A tick that writes to the map: it signals assets that are not in it lately,
\* or is cut off before it has returned them (kestrel, hyena, scorpion: scan).
LEMMA WritesLemma ==
    ASSUME MemoryTypes, PastInv, SignaledInv, SpacedUnlessWiped,
           NEW map \in {signaled, R!Pruned(signaled, Ttl)},
           NEW out \in SUBSET R!Coins, \A a \in out : ~ R!Within(signaled, a, Ttl),
           now' = now + 1, wiped' = wiped, signaled' = R!Stamped(map, out),
           R!Emit(out) \/ emitted' = emitted
    PROVE  /\ IsMap(signaled)' /\ (emitted \subseteq Times)'
           /\ \A s \in emitted' : s.at < now'
           /\ SignaledInv' /\ SpacedUnlessWiped'
<1> DEFINE new == {[asset |-> a, at |-> now] : a \in out}
<1>1. now \in Nat /\ IsMap(signaled) /\ emitted \subseteq Times /\ wiped \subseteq Int
  BY DEF MemoryTypes
<1>2. IsMap(map)
  BY <1>1, PrunedLemma
<1>3. /\ IsMap(signaled') /\ DOMAIN signaled' = DOMAIN map \cup out
      /\ \A a \in out : signaled'[a] = now
      /\ \A a \in DOMAIN map \ out : signaled'[a] = map[a]
  <2>1. IsMap(R!Stamped(map, out))
    BY <1>1, <1>2, StampedLemma
  <2> QED BY <2>1 DEF R!Stamped
<1>4. /\ emitted' \subseteq emitted \cup new
      /\ new \subseteq Times
      /\ \A t \in new : t.asset \in out /\ t.at = now
  BY <1>1 DEF R!Emit, Times
<1>5. \A s \in emitted' : s \in Times /\ s.at < now'
  BY <1>1, <1>4 DEF PastInv, Times
<1>6. \A a \in DOMAIN signaled : signaled[a] \in Int
  BY <1>1 DEF IsMap
<1>7. ASSUME NEW s \in emitted, ~ WipedFrom(s.at), now - s.at < Ttl
      PROVE  s.asset \in DOMAIN map /\ map[s.asset] >= s.at
  <2>1. s.at \in Int /\ s.at < now
    BY <1>1 DEF PastInv, Times
  <2>2. s.asset \in DOMAIN signaled /\ signaled[s.asset] \in Int /\ signaled[s.asset] >= s.at
    BY <1>1, <1>6, <1>7, <2>1, ReentryAssumption DEF SignaledInv, Since
  <2>3. now - signaled[s.asset] < 4 * Ttl
    BY <1>1, <1>7, <2>1, <2>2, ReentryAssumption
  <2>4. s.asset \in DOMAIN R!Pruned(signaled, Ttl)
        /\ R!Pruned(signaled, Ttl)[s.asset] = signaled[s.asset]
    <3>1. /\ DOMAIN R!Pruned(signaled, Ttl) = {a \in DOMAIN signaled : now - signaled[a] < 4 * Ttl}
          /\ \A a \in DOMAIN R!Pruned(signaled, Ttl) : R!Pruned(signaled, Ttl)[a] = signaled[a]
      BY <1>1, PrunedLemma
    <3> QED BY <2>2, <2>3, <3>1
  <2> QED BY <2>2, <2>4
<1>8. SignaledInv'
  <2> SUFFICES ASSUME NEW s \in emitted', ~ WipedFrom(s.at), now' - s.at < Ttl
               PROVE  s.asset \in DOMAIN signaled' /\ signaled'[s.asset] >= s.at
    BY <1>1, <1>5, ReentryAssumption DEF SignaledInv, Since, WipedFrom, Times
  <2>1. CASE s.asset \in out
    BY <1>1, <1>3, <1>5, <2>1 DEF Times
  <2>2. CASE s.asset \notin out
    <3>1. s \in emitted
      BY <1>4, <2>2
    <3>2. now - s.at < Ttl
      BY <1>1, <1>5, ReentryAssumption DEF Times
    <3> QED BY <1>3, <1>7, <2>2, <3>1, <3>2
  <2> QED BY <2>1, <2>2
<1>9. SpacedUnlessWiped'
  <2> SUFFICES ASSUME NEW s \in emitted', NEW t \in emitted', s.asset = t.asset,
                      s.at < t.at, t.at - s.at < Ttl
               PROVE  \E w \in wiped : s.at < w /\ w < t.at
    BY DEF SpacedUnlessWiped, R!SpacedUnlessWiped, R!Respaced, R!WipedBetween
  <2>1. s \in emitted
    BY <1>1, <1>4, <1>5 DEF Times
  <2>2. CASE t \in emitted
    BY <2>1, <2>2 DEF SpacedUnlessWiped, R!SpacedUnlessWiped, R!Respaced, R!WipedBetween
  <2>3. CASE t \in new
    <3>1. t.asset \in out /\ t.at = now
      BY <1>4, <2>3
    <3>2. s.at \in Int /\ now - s.at < Ttl
      BY <1>1, <2>1, <3>1 DEF Times
    <3>3. ~ Since(signaled, s.asset, s.at)
      BY <1>1, <1>6, <3>1, <3>2, ReentryAssumption DEF R!Within, Since
    <3>4. PICK w \in wiped : s.at < w
      BY <1>1, <2>1, <3>2, <3>3, ReentryAssumption DEF SignaledInv, WipedFrom
    <3> QED BY <3>1, <3>4 DEF PastInv
  <2> QED BY <1>4, <2>2, <2>3
<1> QED BY <1>3, <1>5, <1>8, <1>9

\* What only kestrel and hyena do leaves no sighting behind.
LEMMA Unsighted ==
    ASSUME MemoryInv, scanner # "scorpion"
    PROVE  sightings = {}
BY DEF MemoryInv, SightedInv

\* A tick of kestrel or hyena that writes to the map.
LEMMA WritesInv ==
    ASSUME MemoryInv, scanner # "scorpion",
           NEW map \in {signaled, R!Pruned(signaled, Ttl)},
           NEW out \in SUBSET R!Coins, \A a \in out : ~ R!Within(signaled, a, Ttl),
           now' = now + 1, signaled' = R!Stamped(map, out), R!Emit(out) \/ emitted' = emitted,
           UNCHANGED <<scanner, positions, lastClosed, prevHeld, sightings, wiped>>
    PROVE  MemoryInv'
<1>1. sightings = {}
  BY Unsighted
<1>2. /\ IsMap(signaled)' /\ (emitted \subseteq Times)'
      /\ \A s \in emitted' : s.at < now'
      /\ SignaledInv' /\ SpacedUnlessWiped'
  BY WritesLemma DEF MemoryInv
<1>3. MemoryTypes'
  BY <1>2 DEF MemoryInv, MemoryTypes
<1>4. PastInv'
  BY <1>1, <1>2 DEF MemoryInv, MemoryTypes, PastInv
<1>5. SightedInv' /\ CooldownAfterClose'
  BY <1>1 DEF SightedInv, CooldownAfterClose, R!CooldownAfterClose
<1> QED BY <1>2, <1>3, <1>4, <1>5 DEF MemoryInv

\* A tick that leaves a record without the map: all that was signalled and
\* sighted lies before it.
LEMMA WipeInv ==
    ASSUME MemoryInv, R!Wipe, now' = now + 1,
           UNCHANGED <<scanner, positions, emitted, sightings>>,
           IsMap(lastClosed'), prevHeld' \subseteq R!Coins
    PROVE  MemoryInv'
<1>1. now \in Nat /\ wiped \subseteq Int /\ emitted \subseteq Times /\ sightings \subseteq Times
  BY DEF MemoryInv, MemoryTypes
<1>2. now \in wiped' /\ wiped \subseteq wiped' /\ wiped' \subseteq Int
  BY <1>1 DEF R!Wipe
<1>3. IsMap(signaled')
  BY DEF R!Wipe, R!NoMap, IsMap
<1>4. MemoryTypes'
  BY <1>1, <1>2, <1>3 DEF MemoryInv, MemoryTypes
<1>5. PastInv'
  BY <1>1, <1>2 DEF MemoryInv, PastInv, R!Wipe, Times
<1>6. \A s \in emitted \cup sightings : WipedFrom(s.at)'
  BY <1>2 DEF MemoryInv, PastInv, WipedFrom
<1>7. SignaledInv' /\ SightedInv'
  BY <1>6 DEF MemoryInv, SignaledInv, SightedInv
<1>8. \A s, t : R!WipedBetween(s, t) => R!WipedBetween(s, t)'
  BY <1>2 DEF R!WipedBetween
<1>9. SpacedUnlessWiped' /\ CooldownAfterClose'
  BY <1>8 DEF MemoryInv, SpacedUnlessWiped, R!SpacedUnlessWiped, R!Respaced, CooldownAfterClose, R!CooldownAfterClose
<1> QED BY <1>4, <1>5, <1>7, <1>9 DEF MemoryInv

-----------------------------------------------------------------------------

\* What scorpion enters as closed this tick, as it is kept: a position that is
\* no longer held has been entered no earlier than a tick after it was seen.
LEMMA ClosesLemma ==
    ASSUME MemoryInv, NEW mine \in SUBSET R!Coins
    PROVE  LET closes == R!Pruned(R!Stamped(lastClosed, R!Closed(mine)), Cooldown)
           IN  /\ IsMap(closes)
               /\ \A s \in sightings :
                    (~ WipedFrom(s.at) /\ now - s.at =< Cooldown /\ s.asset \notin mine)
                        => /\ s.asset \in DOMAIN closes
                           /\ closes[s.asset] \in Int
                           /\ closes[s.asset] >= s.at + 1
<1> DEFINE entered == R!Stamped(lastClosed, R!Closed(mine))
           closes  == R!Pruned(entered, Cooldown)
<1>1. now \in Nat /\ IsMap(lastClosed) /\ prevHeld \subseteq R!Coins /\ sightings \subseteq Times
  BY DEF MemoryInv, MemoryTypes
<1>2. R!Closed(mine) \in SUBSET R!Coins
  BY <1>1 DEF R!Closed
<1>3. /\ IsMap(entered) /\ DOMAIN entered = DOMAIN lastClosed \cup R!Closed(mine)
      /\ \A a \in R!Closed(mine) : entered[a] = now
      /\ \A a \in DOMAIN lastClosed \ R!Closed(mine) : entered[a] = lastClosed[a]
  <2>1. IsMap(entered)
    BY <1>1, <1>2, StampedLemma
  <2> QED BY <2>1 DEF R!Stamped
<1>4. /\ IsMap(closes)
      /\ DOMAIN closes = {a \in DOMAIN entered : now - entered[a] < 4 * Cooldown}
      /\ \A a \in DOMAIN closes : closes[a] = entered[a]
  BY <1>3, PrunedLemma
<1>5. \A a \in DOMAIN lastClosed : lastClosed[a] \in Int
  BY <1>1 DEF IsMap
<1>6. ASSUME NEW s \in sightings, ~ WipedFrom(s.at), now - s.at =< Cooldown, s.asset \notin mine
      PROVE  s.asset \in DOMAIN closes /\ closes[s.asset] \in Int /\ closes[s.asset] >= s.at + 1
  <2>1. s.at \in Int /\ s.at < now
    BY <1>1 DEF MemoryInv, PastInv, Times
  <2>2. s.asset \in prevHeld \/ Since(lastClosed, s.asset, s.at + 1)
    BY <1>1, <1>6, <2>1, ReentryAssumption DEF MemoryInv, SightedInv
  <2>3. s.asset \in DOMAIN entered /\ entered[s.asset] \in Int /\ entered[s.asset] >= s.at + 1
    <3>1. CASE s.asset \in R!Closed(mine)
      BY <1>1, <1>3, <2>1, <3>1
    <3>2. CASE s.asset \notin R!Closed(mine)
      <4>1. Since(lastClosed, s.asset, s.at + 1)
        BY <1>6, <2>2, <3>2 DEF R!Closed
      <4> QED BY <1>3, <1>5, <3>2, <4>1 DEF Since
    <3> QED BY <3>1, <3>2
  <2>4. now - entered[s.asset] < 4 * Cooldown
    BY <1>1, <1>6, <2>1, <2>3, ReentryAssumption
  <2> QED BY <1>4, <2>3, <2>4
<1> HIDE DEF closes
<1>7. /\ IsMap(closes)
      /\ \A s \in sightings :
            (~ WipedFrom(s.at) /\ now - s.at =< Cooldown /\ s.asset \notin mine)
                => s.asset \in DOMAIN closes /\ closes[s.asset] \in Int
                   /\ closes[s.asset] >= s.at + 1
  BY <1>4, <1>6
<1> QED BY <1>7 DEF closes

\* A scan of scorpion's that had candidates.
LEMMA ScorpionInv ==
    ASSUME MemoryInv, NEW mine \in R!Reads, NEW candidates \in SUBSET R!Coins,
           R!ScorpionScan(mine, candidates)
    PROVE  MemoryInv'
<1> DEFINE closes == R!Pruned(R!Stamped(lastClosed, R!Closed(mine)), Cooldown)
           out    == {a \in candidates \ mine : /\ ~ R!CoolingDown(closes, a)
                                                /\ ~ R!Within(signaled, a, Ttl)}
           seen   == {[asset |-> a, at |-> now] : a \in mine}
<1>1. /\ now \in Nat /\ positions \subseteq R!Coins
      /\ emitted \subseteq Times /\ sightings \subseteq Times /\ wiped \subseteq Int
  BY DEF MemoryInv, MemoryTypes
<1>2. mine \in SUBSET R!Coins
  BY <1>1 DEF R!Reads
<1>3. /\ IsMap(closes)
      /\ \A s \in sightings :
            (~ WipedFrom(s.at) /\ now - s.at =< Cooldown /\ s.asset \notin mine)
                => s.asset \in DOMAIN closes /\ closes[s.asset] \in Int
                   /\ closes[s.asset] >= s.at + 1
  BY <1>2, ClosesLemma
<1>4. /\ scanner = "scorpion" /\ now' = now + 1
      /\ signaled' = R!Stamped(R!Pruned(signaled, Ttl), out)
      /\ lastClosed' = closes /\ prevHeld' = mine
      /\ R!Emit(out) /\ sightings' = sightings \cup seen
      /\ scanner' = scanner /\ positions' = positions /\ wiped' = wiped
  BY DEF R!ScorpionScan, R!Tick
<1> HIDE DEF closes
<1>5. out \in SUBSET R!Coins /\ \A a \in out : ~ R!Within(signaled, a, Ttl)
  OBVIOUS
<1>6. /\ IsMap(signaled)' /\ (emitted \subseteq Times)'
      /\ \A s \in emitted' : s.at < now'
      /\ SignaledInv' /\ SpacedUnlessWiped'
  BY <1>4, <1>5, WritesLemma DEF MemoryInv
<1>7. seen \subseteq Times /\ \A s \in seen : s.asset \in mine /\ s.at = now
  BY <1>1, <1>2 DEF Times
<1>8. MemoryTypes'
  BY <1>1, <1>2, <1>3, <1>4, <1>6, <1>7 DEF MemoryTypes
<1>9. PastInv'
  <2>1. \A s \in sightings' : s.at < now'
    BY <1>1, <1>4, <1>7 DEF MemoryInv, PastInv, Times
  <2>2. \A w \in wiped' : w < now'
    BY <1>1, <1>4 DEF MemoryInv, PastInv
  <2> QED BY <1>6, <2>1, <2>2 DEF PastInv
<1>10. SightedInv'
  <2> SUFFICES ASSUME NEW s \in sightings', ~ WipedFrom(s.at), now' - s.at =< Cooldown,
                      s.asset \notin mine
               PROVE  s.asset \in DOMAIN closes /\ closes[s.asset] >= s.at + 1
    BY <1>1, <1>4, <1>7, ReentryAssumption DEF SightedInv, WipedFrom, Since, Times
  <2>1. s \in sightings /\ s.at \in Int
    BY <1>1, <1>4, <1>7 DEF Times
  <2>2. now - s.at =< Cooldown
    BY <1>1, <1>4, <2>1, ReentryAssumption
  <2> QED BY <1>3, <2>1, <2>2
<1>11. CooldownAfterClose'
  <2> SUFFICES ASSUME NEW s \in sightings', NEW t \in emitted', s.asset = t.asset,
                      s.asset \in Perps, s.at < t.at, t.at - s.at =< Cooldown
               PROVE  \E w \in wiped : s.at < w /\ w < t.at
    BY <1>4 DEF CooldownAfterClose, R!CooldownAfterClose, R!WipedBetween
  <2>1. s \in sightings /\ s.at \in Int
    BY <1>1, <1>4, <1>6, <1>7 DEF Times
  <2>2. CASE t \in emitted
    BY <2>1, <2>2 DEF MemoryInv, CooldownAfterClose, R!CooldownAfterClose, R!WipedBetween
  <2>3. CASE t \notin emitted
    <3>1. t.asset \in out /\ t.at = now
      BY <1>4, <2>3 DEF R!Emit
    <3>2. s.asset \notin mine /\ ~ R!CoolingDown(closes, s.asset)
      BY <3>1
    <3>3. WipedFrom(s.at)
      <4> SUFFICES ASSUME ~ WipedFrom(s.at) PROVE FALSE
        OBVIOUS
      <4>1. s.asset \in DOMAIN closes /\ closes[s.asset] \in Int /\ closes[s.asset] >= s.at + 1
        BY <1>3, <2>1, <3>1, <3>2
      <4>2. now - closes[s.asset] < Cooldown
        BY <1>1, <2>1, <3>1, <4>1, ReentryAssumption
      <4> QED BY <3>2, <4>1, <4>2 DEF R!CoolingDown, R!Within
    <3> QED BY <3>1, <3>3 DEF WipedFrom, MemoryInv, PastInv
  <2> QED BY <2>2, <2>3
<1> QED BY <1>6, <1>8, <1>9, <1>10, <1>11 DEF MemoryInv

-----------------------------------------------------------------------------

\* The passing of time, entries, exits and stuttering.
LEMMA RestInv ==
    ASSUME MemoryInv, now' \in {now, now + 1}, positions' \subseteq R!Coins,
           UNCHANGED <<scanner, signaled, lastClosed, prevHeld, emitted, sightings, wiped>>
    PROVE  MemoryInv'
<1>1. now \in Nat /\ emitted \subseteq Times /\ sightings \subseteq Times /\ wiped \subseteq Int
  BY DEF MemoryInv, MemoryTypes
<1>2. MemoryTypes'
  BY DEF MemoryInv, MemoryTypes
<1>3. PastInv'
  BY <1>1 DEF MemoryInv, PastInv, Times
<1>4. SignaledInv'
  BY <1>1, ReentryAssumption DEF MemoryInv, SignaledInv, WipedFrom, Times
<1>5. SightedInv'
  BY <1>1, ReentryAssumption DEF MemoryInv, SightedInv, WipedFrom, Times
<1>6. SpacedUnlessWiped' /\ CooldownAfterClose'
  BY DEF MemoryInv, SpacedUnlessWiped, R!SpacedUnlessWiped, R!Respaced, CooldownAfterClose, R!CooldownAfterClose, R!WipedBetween
<1> QED BY <1>2, <1>3, <1>4, <1>5, <1>6 DEF MemoryInv

\* Nothing is remembered at first.
LEMMA MemoryInit == ASSUME R!Init PROVE MemoryInv
<1>1. MemoryTypes
  BY NoMapLemma DEF R!Init, MemoryTypes
<1>2. PastInv /\ SignaledInv /\ SightedInv /\ SpacedUnlessWiped /\ CooldownAfterClose
  BY DEF R!Init, PastInv, SignaledInv, SightedInv, SpacedUnlessWiped, R!SpacedUnlessWiped, CooldownAfterClose, R!CooldownAfterClose
<1> QED BY <1>1, <1>2 DEF MemoryInv

\* Every step of the three strategies, time and the platform keeps it.
LEMMA MemoryNext == ASSUME MemoryInv, [R!Next]_R!vars PROVE MemoryInv'
<1>0. positions \subseteq R!Coins /\ IsMap(signaled) /\ IsMap(lastClosed) /\ prevHeld \subseteq R!Coins
  BY DEF MemoryInv, MemoryTypes
<1>1. CASE R!KestrelPerched
  BY <1>0, <1>1, WipeInv DEF R!KestrelPerched, R!Tick
<1>2. CASE R!KestrelWaits
  BY <1>0, <1>2, RestInv DEF R!KestrelWaits, R!Tick
<1>3. ASSUME NEW a \in R!Coins, R!KestrelEmits(a) PROVE MemoryInv'
  <2>1. scanner # "scorpion" /\ now' = now + 1 /\ \A c \in {a} : ~ R!Within(signaled, c, Ttl)
    BY <1>3 DEF R!KestrelEmits, R!Tick, R!KestrelPicks
  <2>2. /\ signaled' = R!Stamped(signaled, {a}) /\ R!Emit({a})
        /\ UNCHANGED <<scanner, positions, lastClosed, prevHeld, sightings, wiped>>
    BY <1>3 DEF R!KestrelEmits
  <2> QED BY <2>1, <2>2, WritesInv
<1>4. ASSUME NEW a \in R!Coins, R!KestrelCutOff(a) PROVE MemoryInv'
  <2>1. scanner # "scorpion" /\ now' = now + 1 /\ \A c \in {a} : ~ R!Within(signaled, c, Ttl)
    BY <1>4 DEF R!KestrelCutOff, R!Tick, R!KestrelPicks
  <2>2. /\ signaled' = R!Stamped(signaled, {a}) /\ emitted' = emitted
        /\ UNCHANGED <<scanner, positions, lastClosed, prevHeld, sightings, wiped>>
    BY <1>4 DEF R!KestrelCutOff
  <2> QED BY <2>1, <2>2, WritesInv
<1>5. CASE R!HyenaWaits
  BY <1>0, <1>5, WipeInv DEF R!HyenaWaits, R!Tick
<1>6. ASSUME NEW out \in SUBSET R!Coins, R!HyenaEmits(out) PROVE MemoryInv'
  <2>1. scanner # "scorpion" /\ now' = now + 1 /\ \A c \in out : ~ R!Within(signaled, c, Ttl)
    BY <1>6 DEF R!HyenaEmits, R!Tick
  <2>2. /\ signaled' = R!Stamped(R!Pruned(signaled, Ttl), out) /\ R!Emit(out)
        /\ UNCHANGED <<scanner, positions, lastClosed, prevHeld, sightings, wiped>>
    BY <1>6 DEF R!HyenaEmits
  <2> QED BY <2>1, <2>2, WritesInv
<1>7. CASE R!ScorpionNoCandidates
  <2>1. IsMap(lastClosed') /\ prevHeld' \subseteq R!Coins
    BY <1>7, NoMapLemma DEF R!ScorpionNoCandidates
  <2> QED BY <1>7, <2>1, WipeInv DEF R!ScorpionNoCandidates, R!Tick
<1>8. CASE \E mine \in R!Reads, candidates \in SUBSET R!Coins : R!ScorpionScan(mine, candidates)
  BY <1>8, ScorpionInv
<1>9. CASE R!Pass
  BY <1>0, <1>9, RestInv DEF R!Pass, R!ledger
<1>10. CASE \E a \in R!Coins : R!Enter(a) \/ R!Exit(a)
  BY <1>0, <1>10, RestInv DEF R!Enter, R!Exit, R!ledger
<1>11. CASE UNCHANGED R!vars
  BY <1>0, <1>11, RestInv DEF R!vars, R!ledger
<1> QED BY <1>1, <1>2, <1>3, <1>4, <1>5, <1>6, <1>7, <1>8, <1>9, <1>10, <1>11 DEF R!Next

\* For any assets, times and reads that fail: two signals for one asset are
\* apart unless a record without the map came between (kestrel, hyena and
\* scorpion: scan).
THEOREM SpacedTheorem == R!Spec => []SpacedUnlessWiped
<1>1. R!Init => MemoryInv
  BY MemoryInit
<1>2. MemoryInv /\ [R!Next]_R!vars => MemoryInv'
  BY MemoryNext
<1>3. MemoryInv => SpacedUnlessWiped
  BY DEF MemoryInv
<1> QED BY <1>1, <1>2, <1>3, PTL DEF R!Spec

\* And scorpion leaves a perp it held alone for its cooldown, unless a tick
\* without candidates came between (scorpion: _detect_closes and scan).
THEOREM CooldownTheorem == R!Spec => []CooldownAfterClose
<1>1. R!Init => MemoryInv
  BY MemoryInit
<1>2. MemoryInv /\ [R!Next]_R!vars => MemoryInv'
  BY MemoryNext
<1>3. MemoryInv => CooldownAfterClose
  BY DEF MemoryInv
<1> QED BY <1>1, <1>2, <1>3, PTL DEF R!Spec

-----------------------------------------------------------------------------

\* The run's behaviours are behaviours of rooster and of the others (the module
\* MC_Scanner), so what is proved of each is proved of the run.
LEMMA BothSpecs == MCSpec => Spec /\ R!Spec
<1>1. MCInit => Init /\ R!Init
  BY DEF MCInit
<1>2. [MCNext]_<<vars, reentryVars>> => [Next]_vars /\ [R!Next]_R!vars
  BY DEF MCNext, reentryVars, R!vars, R!ledger
<1> QED BY <1>1, <1>2, PTL DEF MCSpec, Spec, R!Spec

\* In the run with both: the spacing, the cooldown and the types (rooster, kestrel,
\* hyena and scorpion: scan).
THEOREM MemoryTheorem == MCSpec => [](TypeOK /\ SpacedUnlessWiped /\ CooldownAfterClose)
  BY BothSpecs, TypeTheorem, SpacedTheorem, CooldownTheorem, PTL
=============================================================================
