------------------------------- MODULE Fills -------------------------------
(***************************************************************************)
(* senpi-improve-trades/scripts/review.py _reconstruct_closed_from_fills:  *)
(* the round trips of a wallet, rebuilt from its fills when the index that *)
(* had them is gone.  Closes are matched first in, first out against the   *)
(* opens of the coin; a trade is the closed part of a position.            *)
(*                                                                         *)
(* The wallet trades, one fill at a time, and the exchange forgets its     *)
(* oldest fills; what review.py would rebuild from the fills it answers    *)
(* with is computed from them.  No two fills have one time, and a fill     *)
(* never turns a position around: the walk has no rule for either.         *)
(***************************************************************************)
EXTENDS Integers, Sequences, SequencesExt

CONSTANTS
    Coins,
    Sizes,          \* the sizes of a fill
    Prices,
    MaxFills        \* bound: the fills of the wallet

VARIABLES
    fills,          \* the fills, oldest first; the time of a fill is its place
    lost            \* how many of them the exchange does not answer with any more

Open  == {"Open Long", "Open Short"}
Close == {"Close Long", "Close Short"}
Fill  == [coin : Coins, dir : Open \cup Close, sz : Sizes, px : Prices]

(***************************************************************************)
(* The reconstruction.                                                     *)
(***************************************************************************)
Smaller(a, b) == IF a < b THEN a ELSE b

\* Mutant: a lot is used up by the first close that touches it.
TakeWhole(match, lot) ==
    LET take == Smaller(match.remaining, lot.sz)
    IN  [remaining |-> match.remaining - take,
         notional  |-> match.notional + take * lot.px,
         matched   |-> match.matched + take,
         open      |-> IF take > 0 THEN lot.time ELSE match.open,
         left      |-> IF take > 0 THEN match.left ELSE Append(match.left, lot)]

\* One lot under a close: as much of it as is still to be closed; what is left
\* of it stays in its place.
Take(match, lot) ==
    LET take == Smaller(match.remaining, lot.sz)
    IN  [remaining |-> match.remaining - take,
         notional  |-> match.notional + take * lot.px,
         matched   |-> match.matched + take,
         open      |-> IF take > 0 THEN lot.time ELSE match.open,
         left      |-> IF take = lot.sz THEN match.left
                       ELSE Append(match.left, [lot EXCEPT !.sz = @ - take])]

Unmatched(sz, time) ==
    [remaining |-> sz, notional |-> 0, matched |-> 0, open |-> time, left |-> <<>>]

\* Mutant: last in, first out.
ConsumeLastIn(lots, sz, time) ==
    LET match == FoldLeft(Take, Unmatched(sz, time), Reverse(lots))
    IN  [match EXCEPT !.left = Reverse(@)]

Consume(lots, sz, time) == FoldLeft(Take, Unmatched(sz, time), lots)

\* A fill under the walk: an open is a lot of its coin; a close is a trade.
Walk(seen, time) ==
    LET f == fills[time]
        m == Consume(seen.lots[f.coin], f.sz, time)
    IN  IF f.dir \in Open
        THEN [seen EXCEPT !.lots[f.coin] =
                Append(@, [px |-> f.px, sz |-> f.sz, time |-> time])]
        ELSE [seen EXCEPT
                !.lots[f.coin] = m.left,
                !.trades = Append(@, [asset |-> f.coin,
                                      direction |-> IF f.dir = "Close Long" THEN "long" ELSE "short",
                                      size |-> f.sz, notional |-> m.notional, matched |-> m.matched,
                                      open_time |-> m.open, close_time |-> time])]

Rebuilt ==
    FoldLeft(Walk, [lots |-> [c \in Coins |-> <<>>], trades |-> <<>>],
             [i \in 1..(Len(fills) - lost) |-> lost + i])

\* The closes of the window, newest first: the trades come oldest first.
InWindow(trades, since, until) ==
    FoldLeft(LAMBDA out, t : IF t.close_time \in since..until THEN <<t>> \o out ELSE out,
             <<>>, trades)

\* Mutant: the cap is applied before the trades are turned round.
NewestCapsOldest(trades, since, until, cap) ==
    LET kept == InWindow(trades, since, until)
    IN  IF cap = 0 \/ cap > Len(kept) THEN kept ELSE SubSeq(kept, Len(kept) - cap + 1, Len(kept))

\* The report has at most cap of them (0: no cap).
Newest(trades, since, until, cap) ==
    LET kept == InWindow(trades, since, until)
    IN  IF cap = 0 \/ cap > Len(kept) THEN kept ELSE SubSeq(kept, 1, cap)

(***************************************************************************)
(* The wallet.                                                             *)
(***************************************************************************)
Sum(list) == FoldFunction(LAMBDA a, b : a + b, 0, list)

\* The sizes of the first fills, in a coin and one of several directions.
SizeOf(coin, dirs, last) ==
    Sum([i \in 1..last |-> IF fills[i].coin = coin /\ fills[i].dir \in dirs
                           THEN fills[i].sz ELSE 0])

\* The position after so many fills.
LongAt(coin, n)  == SizeOf(coin, {"Open Long"}, n) - SizeOf(coin, {"Close Long"}, n)
ShortAt(coin, n) == SizeOf(coin, {"Open Short"}, n) - SizeOf(coin, {"Close Short"}, n)

Long(coin)  == LongAt(coin, Len(fills))
Short(coin) == ShortAt(coin, Len(fills))

Legal(f) ==
    CASE f.dir = "Open Long"   -> Short(f.coin) = 0
      [] f.dir = "Open Short"  -> Long(f.coin) = 0
      [] f.dir = "Close Long"  -> f.sz <= Long(f.coin)
      [] f.dir = "Close Short" -> f.sz <= Short(f.coin)

Trade(f) ==
    /\ Len(fills) < MaxFills
    /\ Legal(f)
    /\ fills' = Append(fills, f)
    /\ UNCHANGED lost

Forget ==
    /\ lost < Len(fills)
    /\ lost' = lost + 1
    /\ UNCHANGED fills

Init == fills = <<>> /\ lost = 0

Next == Forget \/ \E f \in Fill : Trade(f)

(***************************************************************************)
(* Properties.                                                             *)
(***************************************************************************)

\* None of the opens of a coin's position is forgotten.
Complete(coin) == LongAt(coin, lost) = 0 /\ ShortAt(coin, lost) = 0

\* What is still open when the walk ends is the position the wallet holds: no
\* close has used more of a lot than it closed, or a lot of another coin.  (Of a
\* coin that was flat when the fills in the answer begin; so below.)
LotsAreThePosition ==
    LET lots == Rebuilt.lots
    IN  \A c \in {coin \in Coins : Complete(coin)} :
            Sum([i \in DOMAIN lots[c] |-> lots[c][i].sz]) = Long(c) + Short(c)

\* The reference: the units a coin opens are numbered in the order of its fills;
\* this is the fill that opened the k-th.
OpenedBy(coin, k) ==
    CHOOSE i \in 1..Len(fills) : SizeOf(coin, Open, i - 1) < k /\ k <= SizeOf(coin, Open, i)

\* The k-th unit a coin closes is the k-th it opened: a trade's entry is the
\* price of the units it closes, and its opening time that of the last of them
\* (docstring: "FIFO-match each Close against prior Opens ... with a
\* size-weighted entry price").
EntryIsFirstIn ==
    LET trades == Rebuilt.trades
    IN  \A k \in {n \in DOMAIN trades : Complete(trades[n].asset)} :
            LET t     == trades[k]
                prior == SizeOf(t.asset, Close, t.close_time - 1)
            IN  /\ t.matched = t.size
                /\ t.notional = Sum([u \in 1..t.size |-> fills[OpenedBy(t.asset, prior + u)].px])
                /\ t.open_time = OpenedBy(t.asset, prior + t.size)

\* Whatever the window and the cap, the trades reported are closes of the
\* window, newest first, and each one left out of it is older than all of them.
ReportIsNewest ==
    LET trades == Rebuilt.trades
    IN  \A since, until \in 1..Len(fills), cap \in 0..Len(trades) :
        LET out  == Newest(trades, since, until, cap)
            some == {t \in ToSet(trades) : t.close_time \in since..until}
        IN  /\ ToSet(out) \subseteq some
            /\ \A i \in 1..(Len(out) - 1) : out[i].close_time > out[i + 1].close_time
            /\ \A t \in some \ ToSet(out) :
                    /\ Len(out) = cap
                    /\ \A i \in DOMAIN out : out[i].close_time > t.close_time
=============================================================================
