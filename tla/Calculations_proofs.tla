------------------------ MODULE Calculations_proofs ------------------------
(***************************************************************************)
(* What the calculations promise, for every value of their constants: the  *)
(* codec rounds twice and the second rounding never undoes the first; the  *)
(* paged read neither skips nor repeats; an exit event is given to its own *)
(* trade; a package is funded with what was asked, or its create says what *)
(* it can be funded with; the trades rebuilt from the fills are those the  *)
(* wallet made.                                                            *)
(***************************************************************************)
EXTENDS MC_Calculations, Sequences, SumTheorems

(***************************************************************************)
(* The codec.                                                              *)
(***************************************************************************)

\* Division with a remainder.
LEMMA DivMod ==
    ASSUME NEW a \in Int, NEW b \in Nat \ {0}
    PROVE  /\ a \div b \in Int /\ a % b \in Int
           /\ a = b * (a \div b) + (a % b)
           /\ 0 <= a % b /\ a % b < b
  BY SMT

\* A product is ordered as its factor.
LEMMA Product ==
    ASSUME NEW a \in Int, NEW b \in Int, NEW p \in Nat \ {0}, a <= b
    PROVE  a * p \in Int /\ b * p \in Int /\ a * p <= b * p
  BY SMT

\* There is one quotient and one remainder.
LEMMA DivUnique ==
    ASSUME NEW b \in Nat \ {0}, NEW k \in Int, NEW r \in 0 .. b - 1
    PROVE  (b * k + r) \div b = k /\ (b * k + r) % b = r
<1> DEFINE a == b * k + r
           d == a \div b
           m == a % b
<1>1. a \in Int
  BY SMT
<1>2. d \in Int /\ m \in Int /\ a = b * d + m /\ 0 <= m /\ m < b
  BY <1>1, DivMod
<1>3. b * k + r = b * d + m
  BY <1>2
<1> HIDE DEF a, d, m
<1>4. k * b + r = d * b + m
  BY <1>2, <1>3
<1>5. ~ d <= k - 1
  <2> SUFFICES ASSUME d <= k - 1 PROVE FALSE
    OBVIOUS
  <2>1. d * b \in Int /\ (k - 1) * b \in Int /\ d * b <= (k - 1) * b
    BY <1>2, Product
  <2>2. (k - 1) * b = k * b - b /\ k * b \in Int
    OBVIOUS
  <2> QED BY <1>2, <1>4, <2>1, <2>2
<1>6. ~ k <= d - 1
  <2> SUFFICES ASSUME k <= d - 1 PROVE FALSE
    OBVIOUS
  <2>1. k * b \in Int /\ (d - 1) * b \in Int /\ k * b <= (d - 1) * b
    BY <1>2, Product
  <2>2. (d - 1) * b = d * b - b /\ d * b \in Int
    BY <1>2
  <2> QED BY <1>2, <1>4, <2>1, <2>2
<1>7. d = k /\ m = r
  BY <1>2, <1>4, <1>5, <1>6
<1> QED BY <1>7 DEF a, d, m

\* The units of a decimal are at or next to it, below or above.
LEMMA UnitsLemma ==
    ASSUME NEW d \in Nat
    PROVE  /\ N!ToUnits(d, "floor") \in Int
           /\ N!ToUnits(d, "floor") * Places <= d
           /\ d < (N!ToUnits(d, "floor") + 1) * Places
           /\ N!ToUnits(d, "ceiling") \in Int
           /\ d <= N!ToUnits(d, "ceiling") * Places
           /\ (N!ToUnits(d, "ceiling") - 1) * Places < d
<1>0. Places \in Nat \ {0}
  BY CodecAssumption
<1>1. /\ N!ToUnits(d, "floor") = d \div Places
      /\ N!ToUnits(d, "ceiling") = (d + Places - 1) \div Places
  BY DEF N!ToUnits
<1>2. d + Places - 1 \in Int
  BY <1>0
<1>3. /\ d \div Places \in Int /\ d % Places \in Int
      /\ d = Places * (d \div Places) + (d % Places)
      /\ 0 <= d % Places /\ d % Places < Places
  BY <1>0, DivMod
<1> DEFINE v == (d + Places - 1) \div Places
           r == (d + Places - 1) % Places
<1>4. /\ v \in Int /\ r \in Int
      /\ d + Places - 1 = Places * v + r
      /\ 0 <= r /\ r < Places
  BY <1>0, <1>2, DivMod
<1>5. /\ (d \div Places) * Places <= d
      /\ d < ((d \div Places) + 1) * Places
  BY <1>0, <1>3
<1>6. d <= v * Places /\ (v - 1) * Places < d
  <2> HIDE DEF v, r
  <2> QED BY <1>0, <1>4
<1> QED BY <1>1, <1>3, <1>4, <1>5, <1>6

\* The multiple of the quantum at or next to a number of units.
LEMMA QuantumLemma ==
    ASSUME NEW n \in Int, quantum \in Nat \ {0}
    PROVE  /\ N!ToQuantum(n, "floor") \in Int
           /\ N!ToQuantum(n, "floor") <= n /\ n + 1 <= N!ToQuantum(n, "floor") + quantum
           /\ N!ToQuantum(n, "ceiling") \in Int
           /\ n <= N!ToQuantum(n, "ceiling") /\ N!ToQuantum(n, "ceiling") - quantum <= n - 1
<1>1. n % quantum \in Int /\ 0 <= n % quantum /\ n % quantum < quantum
  BY DivMod
<1>2. CASE n % quantum = 0
  BY <1>2 DEF N!ToQuantum
<1>3. CASE n % quantum # 0
  BY <1>1, <1>3 DEF N!ToQuantum
<1> QED BY <1>2, <1>3

\* It is a multiple, and a multiple is its own.
LEMMA MultipleLemma ==
    ASSUME NEW n \in Int, NEW rounding \in N!Roundings, quantum \in Nat \ {0}
    PROVE  /\ N!ToQuantum(n, rounding) % quantum = 0
           /\ n % quantum = 0 => N!ToQuantum(n, rounding) = n
<1> DEFINE k == n \div quantum
           r == n % quantum
<1>1. k \in Int /\ r \in Int /\ n = quantum * k + r /\ 0 <= r /\ r < quantum
  BY DivMod
<1>2. N!ToQuantum(n, rounding) = (n - r) + (IF r # 0 /\ rounding = "ceiling" THEN quantum ELSE 0)
  BY DEF N!ToQuantum
<1>3. 0 \in 0 .. quantum - 1
  OBVIOUS
<1>4. (quantum * k + 0) % quantum = 0 /\ (quantum * (k + 1) + 0) % quantum = 0
  <2>1. (quantum * k + 0) % quantum = 0
    BY <1>1, <1>3, DivUnique
  <2>2. k + 1 \in Int
    BY <1>1
  <2> HIDE DEF k
  <2>3. (quantum * (k + 1) + 0) % quantum = 0
    BY <1>3, <2>2, DivUnique
  <2> QED BY <2>1, <2>3
<1> HIDE DEF k, r
<1>5. N!ToQuantum(n, rounding) \in {quantum * k + 0, quantum * (k + 1) + 0}
  <2>1. n - r = quantum * k /\ quantum * k \in Int /\ quantum * (k + 1) = quantum * k + quantum
    BY <1>1
  <2> QED BY <1>2, <2>1
<1>6. N!ToQuantum(n, rounding) % quantum = 0
  BY <1>4, <1>5
<1>7. r = 0 => N!ToQuantum(n, rounding) = n
  BY <1>1, <1>2
<1> QED BY <1>6, <1>7 DEF r

\* Whole units are read as themselves.
LEMMA WholeUnits ==
    ASSUME NEW n \in Int, NEW rounding \in N!Roundings
    PROVE  N!ToUnits(N!Decimal(n), rounding) = n
<1>1. Places \in Nat \ {0} /\ 0 \in 0 .. Places - 1 /\ Places - 1 \in 0 .. Places - 1
  BY CodecAssumption
<1>2. (Places * n + 0) \div Places = n /\ (Places * n + (Places - 1)) \div Places = n
  BY <1>1, DivUnique
<1>3. n * Places = Places * n + 0 /\ n * Places + Places - 1 = Places * n + (Places - 1)
  BY <1>1
<1>4. (n * Places) \div Places = n /\ (n * Places + Places - 1) \div Places = n
  BY <1>2, <1>3
<1> QED BY <1>4 DEF N!ToUnits, N!Decimal, N!Roundings

Typed == quantum \in Nat \ {0} /\ decimal \in Nat

\* No bid, ask or size is worse than asked for, or a quantum off (codec.py
\* _quantized_native): the fact behind the theorem below.
LEMMA NeverWorseLemma == ASSUME Typed PROVE NeverWorse
<1> DEFINE u == N!ToUnits(decimal, "floor")
           v == N!ToUnits(decimal, "ceiling")
<1> USE DEF Typed
<1>0. Places \in Nat \ {0}
  BY CodecAssumption
<1>1. /\ u \in Int /\ u * Places <= decimal /\ decimal < (u + 1) * Places
      /\ v \in Int /\ decimal <= v * Places /\ (v - 1) * Places < decimal
  BY UnitsLemma
<1>2. /\ N!Bid(decimal) \in Int /\ N!Bid(decimal) <= u /\ u + 1 <= N!Bid(decimal) + quantum
      /\ N!Ask(decimal) \in Int /\ v <= N!Ask(decimal) /\ N!Ask(decimal) - quantum <= v - 1
  BY <1>1, QuantumLemma DEF N!Bid, N!Ask, N!Native
<1> HIDE DEF u, v
<1>3. N!Bid(decimal) * Places <= u * Places
  BY <1>0, <1>1, <1>2, Product
<1>4. (u + 1) * Places <= (N!Bid(decimal) + quantum) * Places
  BY <1>0, <1>1, <1>2, Product
<1>5. v * Places <= N!Ask(decimal) * Places
  BY <1>0, <1>1, <1>2, Product
<1>6. (N!Ask(decimal) - quantum) * Places <= (v - 1) * Places
  BY <1>0, <1>1, <1>2, Product
<1>7. /\ N!Bid(decimal) * Places \in Int /\ (N!Bid(decimal) + quantum) * Places \in Int
      /\ N!Ask(decimal) * Places \in Int /\ (N!Ask(decimal) - quantum) * Places \in Int
      /\ u * Places \in Int /\ (u + 1) * Places \in Int
      /\ v * Places \in Int /\ (v - 1) * Places \in Int
  BY <1>0, <1>1, <1>2
<1> QED BY <1>1, <1>3, <1>4, <1>5, <1>6, <1>7 DEF NeverWorse, N!NeverWorse, N!Decimal

\* What the codec answers with is read back as itself.
LEMMA RoundTripsLemma == ASSUME Typed PROVE RoundTrips
<1> SUFFICES ASSUME NEW rounding \in N!Roundings
             PROVE  LET native == N!Native(decimal, rounding)
                    IN  IF N!Refused(decimal, rounding)
                        THEN decimal = 0 \/ (rounding = "floor" /\ decimal < N!Decimal(quantum))
                        ELSE /\ N!Aligned(native)
                             /\ \A again \in N!Roundings :
                                  N!Native(N!Decimal(native), again) = native
  BY DEF RoundTrips, N!RoundTrips
<1> DEFINE native == N!Native(decimal, rounding)
           units  == N!ToUnits(decimal, rounding)
<1>0. quantum \in Nat \ {0} /\ decimal \in Nat /\ Places \in Nat \ {0}
  BY CodecAssumption DEF Typed
<1>1. /\ units \in Int
      /\ rounding = "floor" => decimal < (units + 1) * Places
      /\ rounding = "ceiling" => decimal <= units * Places
  BY <1>0, UnitsLemma DEF N!Roundings
<1>2. /\ native = N!ToQuantum(units, rounding) /\ native \in Int
      /\ rounding = "floor" => units + 1 <= native + quantum
      /\ rounding = "ceiling" => units <= native
  BY <1>0, <1>1, QuantumLemma DEF N!Native, N!Roundings
<1>3. native % quantum = 0
  BY <1>0, <1>1, <1>2, MultipleLemma
<1> HIDE DEF native, units
<1>4. CASE N!Refused(decimal, rounding)
  <2>1. decimal = 0 \/ native <= 0
    BY <1>0, <1>4 DEF N!Refused, native
  <2>2. CASE rounding = "floor" /\ native <= 0
    <3>1. units + 1 <= quantum
      BY <1>0, <1>1, <1>2, <2>2
    <3>2. (units + 1) * Places <= quantum * Places /\ (units + 1) * Places \in Int
          /\ quantum * Places \in Int
      BY <1>0, <1>1, <3>1, Product
    <3>3. decimal < quantum * Places
      BY <1>0, <1>1, <2>2, <3>2
    <3> QED BY <1>4, <2>2, <3>3 DEF N!Decimal
  <2>3. CASE rounding = "ceiling" /\ native <= 0
    <3>1. units <= 0
      BY <1>1, <1>2, <2>3
    <3>2. units * Places <= 0 * Places /\ units * Places \in Int
      BY <1>0, <1>1, <3>1, Product
    <3>3. decimal = 0
      BY <1>0, <1>1, <2>3, <3>2
    <3> QED BY <1>4, <3>3
  <2> QED BY <1>4, <2>1, <2>2, <2>3 DEF N!Roundings
<1>5. CASE ~ N!Refused(decimal, rounding)
  <2>1. N!Aligned(native)
    BY <1>2, <1>3, <1>5 DEF N!Refused, N!Aligned, native
  <2>2. ASSUME NEW again \in N!Roundings PROVE N!Native(N!Decimal(native), again) = native
    <3>1. N!ToUnits(N!Decimal(native), again) = native
      BY <1>2, WholeUnits
    <3>2. N!ToQuantum(native, again) = native
      BY <1>0, <1>2, <1>3, MultipleLemma
    <3> QED BY <3>1, <3>2 DEF N!Native
  <2> QED BY <1>5, <2>1, <2>2 DEF native
<1> QED BY <1>4, <1>5 DEF native

LEMMA TypedInit == Init => Typed
<1>1. NoPrice => Typed
  BY DEF NoPrice, Typed
<1>2. N!Init => Typed
  BY CodecAssumption DEF N!Init, Typed
<1> QED BY <1>1, <1>2 DEF Init

LEMMA TypedNext == Typed /\ [Next]_vars => Typed'
<1>1. Typed /\ N!Next => Typed'
  BY CodecAssumption DEF N!Next, Typed
<1>2. Typed /\ UNCHANGED codecVars => Typed'
  BY DEF Typed, codecVars
<1> QED BY <1>1, <1>2 DEF Next, vars

\* For every unit, quantum and decimal: bids and sizes are rounded down to a
\* multiple of the quantum, asks up, and by less than a quantum.
THEOREM NeverWorseTheorem == Spec => []NeverWorse
BY TypedInit, TypedNext, NeverWorseLemma, PTL DEF Spec

\* For every unit, quantum and decimal: what the codec answers with is a
\* multiple of the quantum that both roundings leave as it is, and it refuses
\* less than a quantum only (price_from_native, size_from_native).
THEOREM RoundTripsTheorem == Spec => []RoundTrips
BY TypedInit, TypedNext, RoundTripsLemma, PTL DEF Spec

(***************************************************************************)
(* The paged read.  What was read so far goes down from start without a    *)
(* gap, and the next request goes on after the last of it.                 *)
(***************************************************************************)
AuditTyped ==
    /\ newest \in Int /\ oldest \in Int /\ start \in Int
    /\ cursor \in Int \cup {None}
    /\ rows \in Seq(Int)

Consecutive == \A i \in DOMAIN rows : rows[i] = start + 1 - i

GoesOn ==
    /\ rows # <<>> /\ cursor # None => cursor = A!Last(rows)
    /\ at = "read" => /\ seen = {} <=> rows = <<>>
                      /\ rows # <<>> => cursor # None

AuditInv == AuditTyped /\ (~ echoes => Consecutive /\ GoesOn)

\* A page has the times before its cursor, newest first; it may be empty.
LEMMA PageLemma ==
    ASSUME NEW c \in Int \cup {None}, newest \in Int, oldest \in Int
    PROVE  /\ A!Before(c) \in Int
           /\ A!PageOf(c) \in Seq(Int)
           /\ \A i \in DOMAIN A!PageOf(c) : A!PageOf(c)[i] = A!Before(c) + 1 - i
<1>1. A!Before(c) \in Int
  BY AuditAssumption DEF A!Before
<1> DEFINE last == A!Before(c) + 1 - Limit
           low  == IF last > oldest THEN last ELSE oldest
           len  == A!Before(c) + 1 - low
<1>2. len \in Int
  BY <1>1, AuditAssumption
<1>3. A!PageOf(c) = [i \in 1 .. len |-> A!Before(c) + 1 - i]
  BY DEF A!PageOf
<1> HIDE DEF len
<1>4. CASE len \in Nat
  BY <1>1, <1>3, <1>4
<1>5. CASE len \notin Nat
  <2>1. 1 .. len = {} /\ 1 .. 0 = {}
    BY <1>2, <1>5
  <2>2. A!PageOf(c) = [i \in 1 .. 0 |-> A!Before(c) + 1 - i]
    BY <1>3, <2>1
  <2> QED BY <1>1, <2>2
<1> QED BY <1>1, <1>4, <1>5

\* One request keeps the rows without a gap (_tool_audit_query's loop).
LEMMA ReadLemma == ASSUME AuditInv, A!Read PROVE AuditInv'
<1> DEFINE page   == A!PageOf(cursor)
           before == A!Before(cursor)
           answer == A!Answered(cursor)
<1>1. /\ at = "read"
      /\ start' = IF seen = {} THEN before ELSE start
      /\ rows' = rows \o page
      /\ cursor' = answer
      /\ answer = None \/ answer \in seen
            => at' = "idle"
      /\ ~ (answer = None \/ answer \in seen)
            => seen' = seen \cup {answer}
      /\ at' = "read" => answer # None /\ seen' = seen \cup {answer}
      /\ UNCHANGED <<newest, oldest, echoes>>
  BY DEF A!Read, A!NextCursor, A!Stops
<1>2. /\ before \in Int /\ page \in Seq(Int)
      /\ \A i \in DOMAIN page : page[i] = before + 1 - i
  BY PageLemma DEF AuditInv, AuditTyped
<1>3. page # <<>> => A!Last(page) \in Int
  BY <1>2 DEF A!Last
<1>4. /\ echoes => answer = cursor
      /\ ~ echoes => answer = None \/ (page # <<>> /\ answer = A!Last(page))
  BY DEF A!Answered
<1> HIDE DEF page, before, answer
<1>5. AuditTyped'
  BY <1>1, <1>2, <1>3, <1>4 DEF AuditInv, AuditTyped
<1>6. ASSUME ~ echoes PROVE Consecutive' /\ GoesOn'
  <2>1. CASE rows = <<>>
    <3>1. rows' = page /\ start' = before
      BY <1>1, <1>2, <1>6, <2>1 DEF AuditInv, AuditTyped, GoesOn
    <3>2. Consecutive'
      BY <1>2, <3>1 DEF Consecutive
    <3>3. GoesOn'
      BY <1>1, <1>4, <1>6, <3>1 DEF GoesOn
    <3> QED BY <3>2, <3>3
  <2>2. CASE rows # <<>>
    <3>1. start' = start /\ cursor # None /\ cursor = A!Last(rows)
      BY <1>1, <1>6, <2>2 DEF AuditInv, GoesOn
    <3>2. before = start - Len(rows)
      <4>1. Len(rows) \in DOMAIN rows /\ A!Last(rows) = rows[Len(rows)]
        BY <2>2 DEF AuditInv, AuditTyped, A!Last
      <4>2. cursor = start + 1 - Len(rows)
        BY <1>6, <3>1, <4>1 DEF AuditInv, Consecutive
      <4> QED BY <3>1, <4>2 DEF before, A!Before, AuditInv, AuditTyped
    <3>3. Consecutive'
      <4> SUFFICES ASSUME NEW i \in DOMAIN rows' PROVE rows'[i] = start' + 1 - i
        BY DEF Consecutive
      <4>1. rows \in Seq(Int) /\ start \in Int
        BY DEF AuditInv, AuditTyped
      <4>2. i \in 1 .. Len(rows) + Len(page) /\ Len(rows) \in Nat /\ Len(page) \in Nat
        BY <1>1, <1>2, <4>1
      <4>3. CASE i <= Len(rows)
        <5>1. i \in DOMAIN rows /\ rows'[i] = rows[i]
          BY <1>1, <1>2, <4>1, <4>2, <4>3
        <5> QED BY <1>6, <3>1, <5>1 DEF AuditInv, Consecutive
      <4>4. CASE i > Len(rows)
        <5>1. i - Len(rows) \in DOMAIN page /\ rows'[i] = page[i - Len(rows)]
          BY <1>1, <1>2, <4>1, <4>2, <4>4
        <5>2. rows'[i] = before + 1 - (i - Len(rows))
          BY <1>2, <5>1
        <5> QED BY <3>1, <3>2, <4>1, <4>2, <5>2
      <4> QED BY <4>2, <4>3, <4>4
    <3>4. page # <<>> => A!Last(rows') = A!Last(page)
      BY <1>1, <1>2 DEF AuditInv, AuditTyped, A!Last
    <3>5. rows' # <<>>
      BY <1>1, <1>2, <2>2 DEF AuditInv, AuditTyped
    <3>6. GoesOn'
      BY <1>1, <1>4, <1>6, <3>4, <3>5 DEF GoesOn
    <3> QED BY <3>3, <3>6
  <2> QED BY <2>1, <2>2
<1> QED BY <1>1, <1>5, <1>6 DEF AuditInv

LEMMA AuditInit == Init => AuditInv
<1>1. A!Init => AuditInv
  BY AuditAssumption DEF A!Init, AuditInv, AuditTyped, Consecutive, GoesOn
<1> QED BY <1>1 DEF Init

LEMMA AuditNext == AuditInv /\ [Next]_vars => AuditInv'
<1> USE DEF AuditInv, AuditTyped, Consecutive, GoesOn
<1>1. ASSUME AuditInv, A!Query PROVE AuditInv'
  BY <1>1, AuditAssumption DEF A!Query
<1>2. ASSUME AuditInv, A!Arrives PROVE AuditInv'
  BY <1>2 DEF A!Arrives, A!audit
<1>3. ASSUME AuditInv, A!Forgets PROVE AuditInv'
  BY <1>3 DEF A!Forgets, A!audit
<1>4. ASSUME AuditInv, UNCHANGED auditVars PROVE AuditInv'
  BY <1>4 DEF auditVars
<1> QED BY <1>1, <1>2, <1>3, <1>4, ReadLemma DEF Next, A!Next, vars

\* For every length of a page and every number of pages: whatever arrives and
\* is forgotten between two requests, the rows are the events before the cursor
\* without a gap or a repetition, and the cursor handed back goes on after them.
THEOREM NoGapNoRepeatTheorem == Spec => []NoGapNoRepeat
<1>1. AuditInv => NoGapNoRepeat
  BY DEF AuditInv, NoGapNoRepeat, A!NoGapNoRepeat, Consecutive, GoesOn
<1> QED BY <1>1, AuditInit, AuditNext, PTL DEF Spec

(***************************************************************************)
(* The exit events.  Each is stamped at the close of its trade or somewhat *)
(* after it.                                                               *)
(***************************************************************************)
Logged(e) ==
    /\ e.trade \in Trades /\ closed[e.trade] # None
    /\ e.ts \in Nat
    /\ e.ts - closed[e.trade] \in 0 .. MaxLag

LogInv ==
    /\ closed \in [Trades -> 0 .. MaxTime \cup {None}]
    /\ events \in Seq(E!Event)
    /\ \A i \in DOMAIN events : Logged(events[i])

EntriesOf(list) == {list[i] : i \in DOMAIN list}

\* What the log has in it once another has been put into it.
LEMMA Inserted ==
    ASSUME NEW S, NEW list \in Seq(S), NEW at0 \in 0 .. Len(list), NEW e \in S
    PROVE  LET new == SubSeq(list, 1, at0) \o <<e>> \o SubSeq(list, at0 + 1, Len(list))
           IN  new \in Seq(S) /\ EntriesOf(new) \subseteq EntriesOf(list) \cup {e}
<1> DEFINE front == SubSeq(list, 1, at0)
           back  == SubSeq(list, at0 + 1, Len(list))
           made  == front \o <<e>> \o back
<1>1. /\ front \in Seq(S) /\ Len(front) = at0
      /\ \A i \in 1 .. at0 : i \in DOMAIN list /\ front[i] = list[i]
  OBVIOUS
<1>2. /\ back \in Seq(S) /\ Len(back) = Len(list) - at0
      /\ \A i \in 1 .. Len(list) - at0 : at0 + i \in DOMAIN list /\ back[i] = list[at0 + i]
  OBVIOUS
<1>3. made = SubSeq(list, 1, at0) \o <<e>> \o SubSeq(list, at0 + 1, Len(list))
  OBVIOUS
<1> HIDE DEF front, back
<1>4. made \in Seq(S) /\ Len(made) = Len(list) + 1
  BY <1>1, <1>2
<1>5. ASSUME NEW i \in DOMAIN made
      PROVE  made[i] = e \/ \E j \in DOMAIN list : made[i] = list[j]
  <2>1. i \in 1 .. Len(list) + 1 /\ at0 \in Nat /\ at0 <= Len(list)
    BY <1>4, <1>5
  <2>2. CASE i <= at0
    BY <1>1, <1>2, <2>1, <2>2
  <2>3. CASE i = at0 + 1
    BY <1>1, <1>2, <2>1, <2>3
  <2>4. CASE i > at0 + 1
    <3>1. made[i] = back[i - at0 - 1] /\ i - at0 - 1 \in 1 .. Len(list) - at0
      BY <1>1, <1>2, <2>1, <2>4
    <3> QED BY <1>2, <3>1
  <2>5. i <= at0 \/ i = at0 + 1 \/ i > at0 + 1
    BY <2>1
  <2> QED BY <2>2, <2>3, <2>4, <2>5
<1> HIDE DEF made
<1> QED BY <1>3, <1>4, <1>5 DEF EntriesOf

\* An event is logged once its trade has closed, within the lag.
LEMMA LogsLemma == ASSUME LogInv, NEW t \in Trades, E!Logs(t) PROVE LogInv'
<1>1. PICK lag \in 0 .. MaxLag, id \in BOOLEAN, at0 \in 0 .. Len(events) :
        events' = SubSeq(events, 1, at0)
                     \o <<[trade |-> t, id |-> id, ts |-> closed[t] + lag]>>
                     \o SubSeq(events, at0 + 1, Len(events))
  BY DEF E!Logs
<1> DEFINE e == [trade |-> t, id |-> id, ts |-> closed[t] + lag]
<1>2. closed' = closed /\ closed[t] \in 0 .. MaxTime
  BY DEF E!Logs, LogInv
<1>3. e \in E!Event /\ Logged(e)
  BY <1>2, ExitAssumption DEF E!Event, Logged
<1> DEFINE new == SubSeq(events, 1, at0) \o <<e>> \o SubSeq(events, at0 + 1, Len(events))
<1>0. events' = new
  BY <1>1
<1> HIDE DEF e
<1>4. new \in Seq(E!Event) /\ EntriesOf(new) \subseteq EntriesOf(events) \cup {e}
  <2>1. events \in Seq(E!Event)
    BY DEF LogInv
  <2> QED BY <1>3, <2>1, Inserted, Zenon
<1> HIDE DEF new
<1>5. \A i \in DOMAIN new : Logged(new[i])
  <2>1. \A x \in EntriesOf(events) : Logged(x)
    BY DEF LogInv, EntriesOf
  <2> QED BY <1>3, <1>4, <2>1 DEF EntriesOf
<1> QED BY <1>0, <1>2, <1>4, <1>5 DEF LogInv, Logged

\* A trade closes once, and its events come after that.
LEMMA ClosesLemma == ASSUME LogInv, NEW t \in Trades, E!Closes(t) PROVE LogInv'
<1>1. PICK time \in 0 .. MaxTime : closed' = [closed EXCEPT ![t] = time]
  BY DEF E!Closes
<1>2. closed[t] = None /\ events' = events
  BY DEF E!Closes
<1>3. closed' \in [Trades -> 0 .. MaxTime \cup {None}]
  BY <1>1 DEF LogInv
<1>4. \A i \in DOMAIN events : Logged(events[i]) => Logged(events[i])'
  BY <1>1, <1>2 DEF LogInv, Logged
<1> QED BY <1>2, <1>3, <1>4 DEF LogInv

LEMMA LogInit == Init => LogInv
<1>1. E!Init => LogInv
  BY DEF E!Init, LogInv
<1> QED BY <1>1 DEF Init

LEMMA LogNext == LogInv /\ [Next]_vars => LogInv'
<1>1. ASSUME LogInv, UNCHANGED exitVars PROVE LogInv'
  BY <1>1 DEF exitVars, LogInv, Logged
<1> QED BY <1>1, LogsLemma, ClosesLemma DEF Next, E!Next, vars

\* How far an event is from the close of a trade.
LEMMA DistanceLemma ==
    ASSUME LogInv, NEW i \in DOMAIN events, NEW t \in Trades, closed[t] # None
    PROVE  /\ E!Distance(events[i], t) \in Nat
           /\ events[i].ts - closed[t] <= E!Distance(events[i], t)
           /\ closed[t] - events[i].ts <= E!Distance(events[i], t)
           /\ events[i].trade = t => E!Distance(events[i], t) = events[i].ts - closed[t]
<1>1. events[i].ts \in Nat /\ Logged(events[i])
  BY DEF LogInv, Logged
<1>2. closed[t] \in Nat
  BY DEF LogInv
<1> QED BY <1>1, <1>2, ExitAssumption DEF E!Distance, Logged

\* When an event is in the window, one is nearest.
LEMMA NearestExists ==
    ASSUME LogInv, NEW t \in Trades, closed[t] # None, E!Near(t) # {}
    PROVE  E!Nearest(t) # {}
<1> DEFINE D == {E!Distance(events[i], t) : i \in E!Near(t)}
<1>1. E!Near(t) \subseteq DOMAIN events /\ DOMAIN events \subseteq Nat
  BY DEF E!Near, LogInv
<1>2. D \subseteq Nat /\ D # {}
  BY <1>1, DistanceLemma
<1>3. PICK d \in D : \A y \in D : d <= y
  BY <1>2, Smallest
<1> DEFINE I == {i \in E!Near(t) : E!Distance(events[i], t) = d}
<1>4. I \subseteq Nat /\ I # {}
  BY <1>1
<1>5. PICK i \in I : \A j \in I : i <= j
  BY <1>4, Smallest
<1>6. \A j \in E!Near(t) : E!Distance(events[j], t) \in Nat /\ d <= E!Distance(events[j], t)
  BY <1>2, <1>3
<1>7. \A j \in E!Near(t) :
        \/ E!Distance(events[i], t) < E!Distance(events[j], t)
        \/ E!Distance(events[i], t) = E!Distance(events[j], t) /\ i <= j
  BY <1>2, <1>5, <1>6
<1>8. i \in E!Near(t)
  BY <1>5
<1>9. i \in E!Nearest(t)
  BY <1>7, <1>8 DEF E!Nearest
<1> QED BY <1>9

\* The nearest event is in the window, and none in it is nearer.
LEMMA NearestIsLeast ==
    ASSUME LogInv, NEW t \in Trades, closed[t] # None,
           NEW i \in E!Nearest(t), NEW j \in E!Near(t)
    PROVE  /\ i \in DOMAIN events /\ E!Distance(events[i], t) <= Window
           /\ E!Distance(events[i], t) <= E!Distance(events[j], t)
<1>1. i \in DOMAIN events /\ E!Distance(events[i], t) <= Window /\ j \in DOMAIN events
  BY DEF E!Nearest, E!Near
<1>2. \/ E!Distance(events[i], t) < E!Distance(events[j], t)
      \/ E!Distance(events[i], t) = E!Distance(events[j], t)
  BY DEF E!Nearest
<1>3. E!Distance(events[i], t) \in Nat /\ E!Distance(events[j], t) \in Nat
  BY <1>1, DistanceLemma
<1> QED BY <1>1, <1>2, <1>3

\* _match_exit_event on a log of which every event is stamped within the lag.
LEMMA RightEventLemma == ASSUME LogInv PROVE RightEvent
<1> SUFFICES ASSUME NEW t \in Trades, closed[t] # None
             PROVE  /\ E!ById(t) # {} => E!Match(t) # {} /\ E!Match(t) \subseteq E!ById(t)
                    /\ E!Alone(t) =>
                         /\ E!Match(t) \subseteq E!Own(t)
                         /\ MaxLag <= Window /\ E!Own(t) # {} => E!Match(t) # {}
  BY DEF RightEvent, E!RightEvent
<1>1. E!ById(t) # {} => E!Match(t) = E!ById(t)
  BY DEF E!Match
<1>2. E!ById(t) = {} => E!Match(t) = E!Nearest(t)
  BY DEF E!Match
<1>3. E!ById(t) \subseteq E!Own(t)
  BY DEF E!ById, E!Own
<1>4. ASSUME E!Alone(t), NEW i \in E!Nearest(t) PROVE i \in E!Own(t)
  <2>1. i \in E!Near(t)
    BY DEF E!Nearest
  <2>2. i \in DOMAIN events /\ E!Distance(events[i], t) <= Window
    BY <2>1 DEF E!Near
  <2> DEFINE u == events[i].trade
  <2>3. u \in Trades /\ closed[u] # None /\ events[i].ts - closed[u] \in 0 .. MaxLag
        /\ closed[u] \in Nat /\ closed[t] \in Nat /\ events[i].ts \in Nat
    BY <2>2 DEF LogInv, Logged
  <2>4. E!Distance(events[i], t) \in Nat /\ events[i].ts - closed[t] <= Window
        /\ closed[t] - events[i].ts <= Window
    BY <2>2, <2>3, DistanceLemma, ExitAssumption
  <2>5. ~ (closed[u] - closed[t] > Window + MaxLag \/ closed[t] - closed[u] > Window + MaxLag)
    BY <2>3, <2>4, ExitAssumption
  <2>6. u = t
    BY <1>4, <2>3, <2>5 DEF E!Alone
  <2> QED BY <2>2, <2>6 DEF E!Own
<1>5. ASSUME MaxLag <= Window, E!Own(t) # {} PROVE E!Near(t) # {}
  <2>1. PICK i \in DOMAIN events : events[i].trade = t
    BY <1>5 DEF E!Own
  <2>2. events[i].ts - closed[t] \in 0 .. MaxLag
    BY <2>1 DEF LogInv, Logged
  <2>3. E!Distance(events[i], t) <= Window
    BY <1>5, <2>1, <2>2, DistanceLemma, ExitAssumption
  <2> QED BY <2>3 DEF E!Near
<1> QED BY <1>1, <1>2, <1>3, <1>4, <1>5, NearestExists

\* The same where events are stamped when the trade closes.
LEMMA NearestIsOwnLemma == ASSUME LogInv PROVE NearestIsOwn
<1> SUFFICES ASSUME NEW t \in Trades, closed[t] # None,
                    \A i \in DOMAIN events : events[i].ts = closed[events[i].trade],
                    \A u \in Trades \ {t} : closed[u] # closed[t],
                    E!Own(t) # {}
             PROVE  E!Match(t) \subseteq E!Own(t)
  BY DEF NearestIsOwn, E!NearestIsOwn
<1>1. PICK j \in DOMAIN events : events[j].trade = t
  BY DEF E!Own
<1>2. closed[t] \in Nat
  BY DEF LogInv
<1>3. E!Distance(events[j], t) = 0
  BY <1>1, <1>2, DistanceLemma
<1>4. j \in E!Near(t)
  BY <1>3, ExitAssumption DEF E!Near
<1>5. ASSUME NEW i \in E!Nearest(t) PROVE i \in E!Own(t)
  <2>1. i \in DOMAIN events /\ E!Distance(events[i], t) <= 0
    BY <1>3, <1>4, NearestIsLeast
  <2>2. E!Distance(events[i], t) = 0
    BY <2>1, DistanceLemma
  <2>3. events[i].ts \in Nat /\ events[i].trade \in Trades
    BY <2>1 DEF LogInv, Logged
  <2>4. events[i].ts = closed[t]
    BY <1>2, <2>1, <2>2, <2>3, DistanceLemma
  <2>5. events[i].trade = t
    BY <2>1, <2>3, <2>4
  <2> QED BY <2>1, <2>5 DEF E!Own
<1>6. E!ById(t) \subseteq E!Own(t)
  BY DEF E!ById, E!Own
<1> QED BY <1>5, <1>6 DEF E!Match

\* For any trades, window and lag, and a log in any order with any event gone:
\* a trade in the log is given its own event by its order id, or when it closed
\* alone, and a trade that closed alone is never given another's.
THEOREM RightEventTheorem == Spec => []RightEvent
BY LogInit, LogNext, RightEventLemma, PTL DEF Spec

\* Without delay, trades that closed at different moments are never mixed up.
THEOREM NearestIsOwnTheorem == Spec => []NearestIsOwn
BY LogInit, LogNext, NearestIsOwnLemma, PTL DEF Spec

(***************************************************************************)
(* The funding of a package.  What a create planned, and whether it went   *)
(* on or halted, until the next one.                                       *)
(***************************************************************************)
\* The total of a function is its sum (deploy.py: plan_funding).
LEMMA TotalIsSum == ASSUME NEW f PROVE B!Total(f) = PartSums(f)[DOMAIN f]
BY DEF B!Total, B!FoldFunction, B!FoldFunctionOnSet, B!MapThenFoldSet, PartSums, Adds, AddStep, Some

LEMMA TotalInt == ASSUME NEW S, IsFiniteSet(S), NEW f \in [S -> Int] PROVE B!Total(f) \in Int
BY SumsInt, TotalIsSum

LEMMA TotalBound ==
    ASSUME NEW S, IsFiniteSet(S), NEW f \in [S -> Int], NEW h \in [S -> Int],
           NEW a \in Int, NEW b \in Int, NEW w \in Int,
           \A i \in S : a * f[i] + b * h[i] <= w
    PROVE  a * B!Total(f) + b * B!Total(h) <= w * Cardinality(S)
<1>1. B!Total(f) = PartSums(f)[S] /\ B!Total(h) = PartSums(h)[S]
  BY TotalIsSum
<1> QED BY <1>1, SumsBound

Package ==
    /\ share \in [B!need -> Nat] /\ B!need \subseteq Instances
    /\ balance \in Nat

Planned ==
    /\ subject = "funding" /\ budget \in Nat
    /\ amounts \in [B!need -> Int]
    /\ \A i \in B!need : amounts[i] \in B!Amount(budget, i)

Decided ==
    \/ read = None /\ usable = None
    \/ /\ read \in Nat
       /\ \E u \in B!Usable(read) :
            \/ usable = None /\ B!Total(amounts) <= u
            \/ usable = u /\ u # None /\ B!Total(amounts) > u

FundingInv ==
    /\ Package
    /\ subject = "funding" => B!need # {} /\ B!Total(share) = Whole
    /\ budget = None => usable = None
    /\ budget # None => Planned /\ Decided

LEMMA SameCardinality == \A S : B!Cardinality(S) = Cardinality(S)
BY DEF Cardinality, B!Cardinality

\* Both nearest integers of a quotient are within half a divisor of it.
LEMMA RoundedLemma ==
    ASSUME NEW a \in Int, NEW d \in Nat \ {0}, NEW k \in B!Rounded(a, d)
    PROVE  k \in Int /\ 2 * (a - k * d) <= d /\ 2 * (k * d - a) <= d
<1>1. a \div d \in Int
  BY DivMod
<1>2. k \in Int /\ 2 * (a - k * d) \in -d .. d
  BY <1>1 DEF B!Rounded
<1>3. k * d \in Int
  BY <1>2
<1> QED BY <1>2, <1>3

\* The amount of an instance is its share to half a cent, or the minimum.
LEMMA AmountLemma ==
    ASSUME Package, NEW b \in Nat, NEW i \in B!need, NEW c \in B!Amount(b, i)
    PROVE  /\ c \in Int /\ c >= MinWallet
           /\ 2 * (b * share[i] - c * Whole) <= Whole
           /\ c # MinWallet => 2 * (c * Whole - b * share[i]) <= Whole
<1>1. PICK k \in B!Rounded(b * share[i], Whole) : c = B!Larger(MinWallet, k)
  BY DEF B!Amount
<1>2. /\ share[i] \in Nat /\ b * share[i] \in Int
      /\ Whole \in Nat \ {0} /\ MinWallet \in Nat
  BY FundingAssumption DEF Package
<1>3. /\ k \in Int /\ 2 * (b * share[i] - k * Whole) <= Whole
      /\ 2 * (k * Whole - b * share[i]) <= Whole
  BY <1>2, RoundedLemma
<1>4. c \in Int /\ c >= MinWallet /\ c >= k /\ (c = MinWallet \/ c = k)
  BY <1>1, <1>2, <1>3 DEF B!Larger
<1>5. k * Whole <= c * Whole /\ k * Whole \in Int /\ c * Whole \in Int
  BY <1>2, <1>3, <1>4, Product
<1> QED BY <1>2, <1>3, <1>4, <1>5

\* The wallets of a package are finitely many.
LEMMA NeedLemma ==
    ASSUME Package
    PROVE  /\ IsFiniteSet(B!need) /\ B!Cardinality(B!need) \in Nat
           /\ B!need # {} => B!Cardinality(B!need) >= 1
<1>1. IsFiniteSet(B!need)
  BY FundingAssumption, FS_Subset DEF Package
<1>2. Cardinality(B!need) \in Nat /\ (Cardinality(B!need) = 0 <=> B!need = {})
  BY <1>1, FS_CardinalityType, FS_EmptySet
<1> QED BY <1>1, <1>2, SameCardinality

\* What a balance pays for after the fees, to half a cent, or nothing.
LEMMA UsableLemma ==
    ASSUME Package, NEW available \in Nat, NEW u \in B!Usable(available)
    PROVE  /\ u \in Nat
           /\ u > 0 => 2 * (u * CentParts + FeeBuffer * CentParts * B!Cardinality(B!need))
                            <= 2 * available + CentParts
<1> DEFINE fees == FeeBuffer * CentParts * B!Cardinality(B!need)
<1>1. PICK k \in B!Rounded(available - fees, CentParts) : u = B!Larger(0, k)
  BY DEF B!Usable
<1>2. fees \in Int
  BY NeedLemma, FundingAssumption
<1> HIDE DEF fees
<1>3. k \in Int /\ 2 * (k * CentParts - (available - fees)) <= CentParts
  BY <1>2, FundingAssumption, RoundedLemma
<1>4. u \in Nat /\ (u = 0 \/ u = k)
  BY <1>1, <1>3 DEF B!Larger
<1>5. u > 0 => 2 * (u * CentParts + fees) <= 2 * available + CentParts
  BY <1>2, <1>3, <1>4, FundingAssumption
<1> QED BY <1>4, <1>5 DEF fees

\* create plans, and goes on or halts (plan_funding, cmd_create).
LEMMA CreateLemma ==
    ASSUME FundingInv, subject = "funding", NEW b \in 0 .. MaxCents, B!Create(b),
           subject' = subject
    PROVE  FundingInv'
<1>1. PICK plan \in B!Plans(b) : amounts' = plan
  BY DEF B!Create
<1>2. /\ budget' = b /\ share' = share /\ balance' = balance
      /\ \/ read' = None /\ usable' = None
         \/ /\ read' = balance
            /\ \E u \in B!Usable(balance) :
                  usable' = IF B!Total(plan) > u THEN u ELSE None
  BY <1>1 DEF B!Create, B!Named
<1>3. B!need' = B!need
  BY <1>2 DEF B!need
<1>4. Package' /\ Package /\ b \in Nat /\ b # None
  BY <1>2, <1>3, FundingAssumption DEF FundingInv, Package
<1>5. plan \in [B!need -> Int] /\ \A i \in B!need : plan[i] \in B!Amount(b, i)
  <2>1. plan \in [B!need -> UNION {B!Amount(b, i) : i \in B!need}]
        /\ \A i \in B!need : plan[i] \in B!Amount(b, i)
    BY DEF B!Plans
  <2>2. \A i \in B!need : plan[i] \in Int
    BY <1>4, <2>1, AmountLemma
  <2> QED BY <2>1, <2>2
<1>6. \A i \in B!need : B!Amount(b, i)' = B!Amount(b, i)
  BY <1>2 DEF B!Amount
<1>7. Planned'
  BY <1>1, <1>2, <1>3, <1>4, <1>5, <1>6 DEF Planned
<1>8. B!Total(plan) \in Int
  <2>1. IsFiniteSet(B!need)
    BY <1>4, FundingAssumption, FS_Subset DEF Package
  <2> QED BY <1>5, <2>1, TotalInt
<1>9. ASSUME NEW u \in B!Usable(balance) PROVE u \in Int /\ u # None
  <2>1. balance \in Nat
    BY <1>4 DEF Package
  <2> QED BY <2>1, UsableLemma, FundingAssumption DEF FundingInv
<1>10. Decided'
  <2>1. CASE read' = None /\ usable' = None
    BY <2>1 DEF Decided
  <2>2. ASSUME NEW u \in B!Usable(balance), read' = balance,
               usable' = IF B!Total(plan) > u THEN u ELSE None
        PROVE  Decided'
    <3>1. B!Usable(read)' = B!Usable(balance)
      BY <1>2, <2>2 DEF B!Usable, B!need
    <3>2. read' \in Nat
      BY <1>4, <2>2 DEF Package
    <3>3. \/ usable' = None /\ B!Total(plan) <= u
          \/ usable' = u /\ u # None /\ B!Total(plan) > u
      BY <1>8, <1>9, <2>2
    <3>4. B!Total(amounts)' = B!Total(plan)
      BY <1>1
    <3> QED BY <3>1, <3>2, <3>3, <3>4 DEF Decided
  <2> QED BY <1>2, <2>1, <2>2
<1>11. B!Total(share)' = B!Total(share)
  BY <1>2
<1> QED BY <1>2, <1>3, <1>4, <1>7, <1>10, <1>11 DEF FundingInv

\* A deposit or a trade ends what a create knew.
LEMMA MovesLemma == ASSUME FundingInv, B!Moves, subject' = subject PROVE FundingInv'
<1>1. share' = share /\ balance' \in Nat /\ budget' = None /\ usable' = None
  BY FundingAssumption DEF B!Moves
<1>2. B!Total(share)' = B!Total(share) /\ B!need' = B!need
  BY <1>1 DEF B!need
<1> QED BY <1>1, <1>2 DEF FundingInv, Package

LEMMA FundingInit == Init => FundingInv
<1>1. ASSUME NoPackage, subject # "funding" PROVE FundingInv
  BY <1>1 DEF NoPackage, FundingInv, Package, B!need
<1>2. ASSUME B!Init PROVE FundingInv
  <2>1. PICK insts \in (SUBSET Instances) \ {{}} : share \in [insts -> 1 .. Whole]
    BY <1>2 DEF B!Init
  <2>2. B!need = insts
    BY <2>1 DEF B!need
  <2> QED BY <1>2, <2>1, <2>2, FundingAssumption DEF B!Init, FundingInv, Package
<1> QED BY <1>1, <1>2 DEF Init

LEMMA FundingNext == FundingInv /\ [Next]_vars => FundingInv'
<1> SUFFICES ASSUME FundingInv, [Next]_vars PROVE FundingInv'
  OBVIOUS
<1>1. ASSUME UNCHANGED budgetVars, subject' = subject PROVE FundingInv'
  <2>1. /\ share' = share /\ balance' = balance /\ budget' = budget /\ read' = read
        /\ amounts' = amounts /\ usable' = usable
    BY <1>1 DEF budgetVars
  <2>2. /\ B!need' = B!need /\ B!Total(share)' = B!Total(share)
        /\ B!Total(amounts)' = B!Total(amounts)
    BY <2>1 DEF B!need
  <2>3. B!Usable(read)' = B!Usable(read)
    BY <2>1 DEF B!Usable, B!need
  <2>4. \A i \in B!need : B!Amount(budget, i)' = B!Amount(budget, i)
    BY <2>1 DEF B!Amount
  <2>5. Package' /\ (Planned => Planned') /\ (Decided => Decided')
    BY <1>1, <2>1, <2>2, <2>3, <2>4 DEF FundingInv, Package, Planned, Decided
  <2> QED BY <1>1, <2>1, <2>2, <2>5 DEF FundingInv
<1>2. CASE subject = "funding" /\ B!Next /\ subject' = subject
  BY <1>2, CreateLemma, MovesLemma DEF B!Next
<1> QED BY <1>1, <1>2 DEF Next, vars

\* What a create that goes on funds, and what covers it.
LEMMA FundsLemma == ASSUME FundingInv PROVE FundsWhatWasAsked
<1> SUFFICES ASSUME B!Goes
             PROVE  /\ \A i \in B!need :
                         LET off == 2 * (amounts[i] * Whole - budget * share[i])
                         IN  /\ amounts[i] >= MinWallet
                             /\ off >= -Whole
                             /\ off > Whole => amounts[i] = MinWallet
                    /\ read # None =>
                         2 * CentParts * (B!Total(amounts) + FeeBuffer * B!Cardinality(B!need))
                            =< 2 * read + CentParts
  BY DEF FundsWhatWasAsked, B!FundsWhatWasAsked
<1>1. budget # None /\ usable = None /\ Planned /\ Decided /\ Package
  BY DEF FundingInv, B!Goes, B!Halted
<1>2. ASSUME NEW i \in B!need
      PROVE  /\ amounts[i] >= MinWallet
             /\ 2 * (amounts[i] * Whole - budget * share[i]) >= -Whole
             /\ 2 * (amounts[i] * Whole - budget * share[i]) > Whole => amounts[i] = MinWallet
  <2>1. /\ amounts[i] \in Int /\ amounts[i] >= MinWallet
        /\ 2 * (budget * share[i] - amounts[i] * Whole) <= Whole
        /\ amounts[i] # MinWallet => 2 * (amounts[i] * Whole - budget * share[i]) <= Whole
    BY <1>1, AmountLemma DEF Planned
  <2>2. budget * share[i] \in Int /\ amounts[i] * Whole \in Int /\ Whole \in Nat
    BY <1>1, <2>1, FundingAssumption DEF Planned, Package
  <2> QED BY <2>1, <2>2
<1>3. ASSUME read # None
      PROVE  2 * CentParts * (B!Total(amounts) + FeeBuffer * B!Cardinality(B!need))
                =< 2 * read + CentParts
  <2> DEFINE n == B!Cardinality(B!need)
             T == B!Total(amounts)
  <2>1. PICK u \in B!Usable(read) : read \in Nat /\ T <= u
    BY <1>1, <1>3 DEF Decided
  <2>2. IsFiniteSet(B!need) /\ n \in Nat /\ n >= 1 /\ n = Cardinality(B!need)
    BY <1>1, NeedLemma, SameCardinality DEF FundingInv, Planned
  <2>3. T \in Int
    BY <1>1, <2>2, TotalInt DEF Planned
  <2>4. T > 0
    <3>1. PICK a \in Int, b \in Int, w \in Int : a = -1 /\ b = 0 /\ w = -MinWallet
      BY FundingAssumption
    <3>2. amounts \in [B!need -> Int] /\ \A i \in B!need : a * amounts[i] + b * amounts[i] <= w
      BY <1>1, <3>1, AmountLemma, FundingAssumption DEF Planned
    <3> HIDE DEF T, n
    <3>9. a * T + b * T <= w * n
      BY <2>2, <3>2, TotalBound DEF T
    <3>3. (-1) * T + 0 * T <= (-MinWallet) * n
      BY <3>1, <3>9
    <3>4. (-MinWallet) * n <= -1
      <4> HIDE DEF n
      <4>1. 1 * MinWallet <= n * MinWallet
        BY <2>2, FundingAssumption, Product
      <4> QED BY <2>2, <4>1, FundingAssumption
    <3>5. (-MinWallet) * n \in Int
      BY <2>2, FundingAssumption
    <3> HIDE DEF T, n
    <3> QED BY <2>3, <3>3, <3>4, <3>5
  <2>5. u \in Nat /\ 2 * (u * CentParts + FeeBuffer * CentParts * n) <= 2 * read + CentParts
    BY <1>1, <2>1, <2>3, <2>4, UsableLemma
  <2>6. T * CentParts <= u * CentParts /\ T * CentParts \in Int /\ u * CentParts \in Int
    BY <2>1, <2>3, <2>5, FundingAssumption, Product
  <2> HIDE DEF T, n
  <2>7. 2 * CentParts * (T + FeeBuffer * n) = 2 * (T * CentParts + FeeBuffer * CentParts * n)
    BY <2>2, <2>3, FundingAssumption
  <2>8. FeeBuffer * CentParts * n \in Int
    BY <2>2, FundingAssumption
  <2>9. 2 * CentParts * (T + FeeBuffer * n) <= 2 * read + CentParts
    BY <2>1, <2>5, <2>6, <2>7, <2>8, FundingAssumption
  <2> QED BY <2>9 DEF T, n
<1> QED BY <1>2, <1>3

\* What a create that halts within its own advice has against it.
LEMMA HaltLemma == ASSUME FundingInv PROVE HaltIsNear
<1> SUFFICES ASSUME usable # None, budget =< usable
             PROVE  /\ B!Total(amounts) > budget
                    /\ \/ 2 * (B!Total(amounts) - budget) =< B!Cardinality(B!need)
                       \/ \E i \in B!need : amounts[i] = MinWallet
                                            /\ budget * share[i] < MinWallet * Whole
  BY DEF HaltIsNear, B!HaltIsNear, B!Halted
<1> DEFINE n == B!Cardinality(B!need)
           T == B!Total(amounts)
           H == B!Total(share)
<1>1. Planned /\ Decided /\ Package /\ H = Whole
  BY DEF FundingInv, Planned
<1>2. usable \in Nat /\ T > usable
  BY <1>1, UsableLemma DEF Decided
<1>3. IsFiniteSet(B!need) /\ n \in Nat /\ n = Cardinality(B!need)
  BY <1>1, NeedLemma, SameCardinality
<1>4. T \in Int /\ budget \in Nat
  BY <1>1, <1>3, TotalInt DEF Planned
<1>5. T > budget
  BY <1>2, <1>4
<1>6. ASSUME ~ \E i \in B!need : amounts[i] = MinWallet /\ budget * share[i] < MinWallet * Whole
      PROVE  2 * (T - budget) <= n
  <2>1. ASSUME NEW i \in B!need
        PROVE  (2 * Whole) * amounts[i] + (-2 * budget) * share[i] <= Whole
    <3>1. /\ amounts[i] \in Int
          /\ amounts[i] # MinWallet => 2 * (amounts[i] * Whole - budget * share[i]) <= Whole
      BY <1>1, <1>4, AmountLemma DEF Planned
    <3>2. share[i] \in Nat /\ Whole \in Nat \ {0} /\ MinWallet \in Nat
      BY <1>1, FundingAssumption DEF Package
    <3>3. amounts[i] = MinWallet => budget * share[i] >= MinWallet * Whole
      BY <1>4, <1>6, <3>2
    <3>4. budget * share[i] \in Int /\ amounts[i] * Whole \in Int
      BY <1>4, <3>1, <3>2
    <3>5. 2 * (amounts[i] * Whole - budget * share[i]) <= Whole
      BY <3>1, <3>2, <3>3, <3>4
    <3>6. (2 * Whole) * amounts[i] = 2 * (amounts[i] * Whole)
          /\ (-2 * budget) * share[i] = -2 * (budget * share[i])
      BY <1>4, <3>1, <3>2
    <3> QED BY <3>2, <3>4, <3>5, <3>6
  <2>2. /\ amounts \in [B!need -> Int] /\ share \in [B!need -> Int]
        /\ 2 * Whole \in Int /\ -2 * budget \in Int /\ Whole \in Int
    BY <1>1, <1>4, FundingAssumption DEF Planned, Package
  <2>3. (2 * Whole) * T + (-2 * budget) * H <= Whole * n
    <3> HIDE DEF n, T, H
    <3> QED BY <1>3, <2>1, <2>2, TotalBound DEF T, H
  <2> HIDE DEF n, T, H
  <2>4. (2 * Whole) * T + (-2 * budget) * H = (2 * (T - budget)) * Whole /\ Whole * n = n * Whole
    BY <1>1, <1>3, <1>4, FundingAssumption
  <2>5. (2 * (T - budget)) * Whole <= n * Whole
    BY <2>3, <2>4
  <2>6. SUFFICES ASSUME n + 1 <= 2 * (T - budget) PROVE FALSE
    BY <1>3, <1>4
  <2>7. (n + 1) * Whole <= (2 * (T - budget)) * Whole /\ (n + 1) * Whole \in Int
        /\ (2 * (T - budget)) * Whole \in Int
    BY <1>3, <1>4, <2>6, FundingAssumption, Product
  <2>8. (n + 1) * Whole = n * Whole + Whole /\ n * Whole \in Int
    BY <1>3, FundingAssumption
  <2> QED BY <2>5, <2>7, <2>8, FundingAssumption
<1> QED BY <1>5, <1>6

\* For any package whose shares sum to the whole, any budget and balance: a
\* create that goes on funds every wallet with its share, to half a cent, or
\* with the minimum, and the balance it read covers them and their fees.
THEOREM FundsWhatWasAskedTheorem == Spec => []FundsWhatWasAsked
BY FundingInit, FundingNext, FundsLemma, PTL DEF Spec

\* A create that halts on a budget its halt calls covered is off by half a cent
\* for a wallet, or has a wallet at the minimum that its share would not reach.
THEOREM HaltIsNearTheorem == Spec => []HaltIsNear
BY FundingInit, FundingNext, HaltLemma, PTL DEF Spec

(***************************************************************************)
(* Fills: the queue of a coin's lots under a close.                        *)
(***************************************************************************)
Lot   == [px : Nat, sz : Nat \ {0}, time : Nat]
Match == [remaining : Nat, notional : Nat, matched : Nat, open : Nat, left : Seq(Lot)]

LEMMA SmallerType ==
    ASSUME NEW a \in Nat, NEW b \in Nat
    PROVE  /\ F!Smaller(a, b) \in Nat /\ F!Smaller(a, b) <= a /\ F!Smaller(a, b) <= b
           /\ F!Smaller(a, b) = a \/ F!Smaller(a, b) = b
BY DEF F!Smaller

\* What a lot under a close does, field by field.
LEMMA TakeType ==
    ASSUME NEW m \in Match, NEW lot \in Lot
    PROVE  F!Take(m, lot) \in Match
<1>1. PICK t : t = F!Smaller(m.remaining, lot.sz)
  OBVIOUS
<1>2. /\ m.remaining \in Nat /\ m.notional \in Nat /\ m.matched \in Nat /\ m.open \in Nat
      /\ m.left \in Seq(Lot)
      /\ lot.px \in Nat /\ lot.sz \in Nat \ {0} /\ lot.time \in Nat
  BY DEF Match, Lot
<1>3. t \in Nat /\ t <= m.remaining /\ t <= lot.sz
  BY <1>1, <1>2, SmallerType
<1>4. /\ m.remaining - t \in Nat /\ m.matched + t \in Nat
      /\ (IF t > 0 THEN lot.time ELSE m.open) \in Nat
  BY <1>2, <1>3
<1>5. m.notional + t * lot.px \in Nat
  <2>1. t * lot.px \in Nat
    BY <1>2, <1>3
  <2> QED BY <1>2, <2>1
<1>6. (IF t = lot.sz THEN m.left ELSE Append(m.left, [lot EXCEPT !.sz = @ - t])) \in Seq(Lot)
  <2>1. CASE t = lot.sz
    BY <1>2, <2>1
  <2>2. CASE t # lot.sz
    <3>1. lot.sz - t \in Nat \ {0}
      BY <1>2, <1>3, <2>2
    <3>2. [lot EXCEPT !.sz = @ - t] \in Lot
      BY <1>2, <3>1 DEF Lot
    <3> QED BY <1>2, <2>2, <3>2
  <2> QED BY <2>1, <2>2
<1>7. F!Take(m, lot) = [remaining |-> m.remaining - t,
                        notional  |-> m.notional + t * lot.px,
                        matched   |-> m.matched + t,
                        open      |-> IF t > 0 THEN lot.time ELSE m.open,
                        left      |-> IF t = lot.sz THEN m.left
                                      ELSE Append(m.left, [lot EXCEPT !.sz = @ - t])]
  BY <1>1 DEF F!Take
<1> QED BY <1>4, <1>5, <1>6, <1>7 DEF Match

Taken(lots, m, g) ==
    g = [s \in SUBSET (DOMAIN lots) |->
            IF s = {} THEN m ELSE F!Take(g[s \ {Highest(s)}], lots[Highest(s)])]

\* A close takes one lot after the other.
LEMMA TakeFold ==
    ASSUME NEW lots \in Seq(Lot), NEW m \in Match
    PROVE  \E P \in [0..Len(lots) -> Match] :
              /\ P[0] = m
              /\ \A j \in 1..Len(lots) : P[j] = F!Take(P[j - 1], lots[j])
              /\ F!FoldLeft(F!Take, m, lots) = P[Len(lots)]
<1> DEFINE n    == Len(lots)
           step == [x \in (1..n) \X Match |-> F!Take(x[2], lots[x[1]])]
           all  == CHOOSE g : Taken(lots, m, g)
<1>0. n \in Nat /\ DOMAIN lots = 1..n /\ \A j \in 1..n : lots[j] \in Lot
  OBVIOUS
<1>1. step \in [(1..n) \X Match -> Match]
  BY <1>0, TakeType
<1>2. PICK g \in [SUBSET (1..n) -> Match] : FoldsTo(n, m, step, g)
  <2> HIDE DEF step, n
  <2> QED BY <1>0, <1>1, FoldExists
<1>3. Taken(lots, m, g)
  <2>1. ASSUME NEW s \in SUBSET (1..n)
        PROVE  g[s] = IF s = {} THEN m ELSE F!Take(g[s \ {Highest(s)}], lots[Highest(s)])
    <3>1. CASE s = {}
      BY <1>2, <3>1 DEF FoldsTo
    <3>2. CASE s # {}
      <4>1. Highest(s) \in 1..n /\ g[s \ {Highest(s)}] \in Match
        BY <1>0, <3>2, HighestLemma
      <4>2. g[s] = step[<<Highest(s), g[s \ {Highest(s)}]>>]
        BY <1>2, <3>2 DEF FoldsTo
      <4> QED BY <3>2, <4>1, <4>2
    <3> QED BY <3>1, <3>2
  <2>2. g = [s \in SUBSET (1..n) |-> g[s]]
    OBVIOUS
  <2> HIDE DEF n, step
  <2>3. g = [s \in SUBSET (1..n) |->
               IF s = {} THEN m ELSE F!Take(g[s \ {Highest(s)}], lots[Highest(s)])]
    BY <2>1, <2>2, Zenon
  <2> QED BY <1>0, <2>3 DEF Taken
<1>4. Taken(lots, m, all)
  BY <1>3
<1>5. F!FoldLeft(F!Take, m, lots) = all[DOMAIN lots]
  BY DEF F!FoldLeft, F!MapThenFoldSet, F!Max, Taken, Highest
<1> HIDE DEF all, step, n
<1>6. \A s \in SUBSET (1..n) :
        all[s] = IF s = {} THEN m ELSE F!Take(all[s \ {Highest(s)}], lots[Highest(s)])
  <2>1. all = [s \in SUBSET (1..n) |->
                 IF s = {} THEN m ELSE F!Take(all[s \ {Highest(s)}], lots[Highest(s)])]
    BY <1>0, <1>4 DEF Taken
  <2> QED BY <2>1, Zenon
<1>7. all[{}] = m
  <2>1. {} \in SUBSET (1..n)
    OBVIOUS
  <2> QED BY <1>6, <2>1
<1>8. ASSUME NEW s \in SUBSET (1..n), s # {}, all[s \ {Highest(s)}] \in Match
      PROVE  all[s] = step[<<Highest(s), all[s \ {Highest(s)}]>>]
  <2>1. Highest(s) \in 1..n
    BY <1>0, <1>8, HighestLemma
  <2>2. all[s] = F!Take(all[s \ {Highest(s)}], lots[Highest(s)])
    BY <1>6, <1>8
  <2> QED BY <1>8, <2>1, <2>2 DEF step
<1>9. PICK P \in [0..n -> Match] :
        /\ P[0] = m
        /\ \A j \in 1..n : P[j] = step[<<j, P[j - 1]>>]
        /\ all[1..n] = P[n]
  <2>1. \A s \in SUBSET (1..n) : s # {} /\ all[s \ {Highest(s)}] \in Match =>
            all[s] = step[<<Highest(s), all[s \ {Highest(s)}]>>]
    BY <1>8
  <2>2. Recurs(n, Match, m, step, all)
    BY <1>0, <1>1, <1>7, <2>1 DEF Recurs
  <2> QED BY <2>2, Prefixes
<1>10. ASSUME NEW j \in 1..n PROVE P[j] = F!Take(P[j - 1], lots[j])
  <2>1. j - 1 \in 0..n
    BY <1>0
  <2> QED BY <1>9, <2>1 DEF step
<1>11. F!FoldLeft(F!Take, m, lots) = P[n]
  <2>1. DOMAIN lots = 1..n
    BY <1>0
  <2> QED BY <1>5, <1>9, <2>1
<1>12. \A j \in 1..n : P[j] = F!Take(P[j - 1], lots[j])
  BY <1>10
<1> QED BY <1>9, <1>11, <1>12 DEF n

(***************************************************************************)
(* The sizes of the fills, and the units they open.                        *)
(***************************************************************************)
LEMMA FSumIsSums == ASSUME NEW f PROVE F!Sum(f) = PartSums(f)[DOMAIN f]
BY DEF F!Sum, F!FoldFunction, F!FoldFunctionOnSet, F!MapThenFoldSet, PartSums, Adds, AddStep, Some

\* The sum over a prefix, and over one that is longer by one.
Shorter(S, x, T, f, h) ==
    /\ IsFiniteSet(S) /\ x \in S /\ T = S \ {x}
    /\ f \in [S -> Int] /\ h \in [T -> Int] /\ \A y \in T : h[y] = f[y]

LEMMA SumsSplit ==
    ASSUME NEW S, NEW x, NEW T, NEW f, NEW h, Shorter(S, x, T, f, h)
    PROVE  PartSums(f)[S] = f[x] + PartSums(h)[T]
<1>0. /\ IsFiniteSet(S) /\ x \in S /\ T = S \ {x}
      /\ f \in [S -> Int] /\ h \in [T -> Int] /\ \A y \in T : h[y] = f[y]
  BY DEF Shorter
<1>1. S \in SUBSET S /\ T \in (SUBSET S) \cap (SUBSET T) /\ IsFiniteSet(T)
  BY <1>0, FS_Subset
<1>2. PartSums(f)[S] = f[x] + PartSums(f)[S \ {x}]
  BY <1>0, <1>1, SumsWithout
<1>3. PartSums(f)[T] = PartSums(h)[T]
  BY <1>0, <1>1, SumsAgree
<1> QED BY <1>0, <1>2, <1>3

LEMMA SumsLast ==
    ASSUME NEW n \in Nat \ {0}, NEW f \in [1..n -> Int], NEW h \in [1..(n - 1) -> Int],
           \A i \in 1..(n - 1) : h[i] = f[i]
    PROVE  PartSums(f)[1..n] = f[n] + PartSums(h)[1..(n - 1)]
<1>1. Shorter(1..n, n, 1..(n - 1), f, h)
  <2>1. IsFiniteSet(1..n)
    BY FS_Interval
  <2>2. n \in 1..n /\ 1..(n - 1) = (1..n) \ {n}
    OBVIOUS
  <2> QED BY <2>1, <2>2 DEF Shorter
<1> QED BY <1>1, SumsSplit

LEMMA PrefixSum ==
    ASSUME NEW n \in Nat, NEW f \in [1..n -> Nat]
    PROVE  /\ F!Sum(f) \in Nat
           /\ n = 0 => F!Sum(f) = 0
           /\ n > 0 => \A h \in [1..(n - 1) -> Nat] :
                          (\A i \in 1..(n - 1) : h[i] = f[i]) => F!Sum(f) = F!Sum(h) + f[n]
<1>1. IsFiniteSet(1..n) /\ DOMAIN f = 1..n
  BY FS_Interval
<1>2. F!Sum(f) = PartSums(f)[1..n]
  BY <1>1, FSumIsSums
<1>3. F!Sum(f) \in Nat
  BY <1>1, <1>2, SumsNat
<1>4. ASSUME n = 0 PROVE F!Sum(f) = 0
  <2>1. 1..n = {}
    BY <1>4
  <2>2. PartSums(f)[{}] = AddStep(f, PartSums(f), {})
    <3>1. {} \in SUBSET (DOMAIN f)
      OBVIOUS
    <3> QED BY <1>1, <3>1, SumStep
  <2> QED BY <1>2, <2>1, <2>2 DEF AddStep
<1>5. ASSUME n > 0, NEW h \in [1..(n - 1) -> Nat], \A i \in 1..(n - 1) : h[i] = f[i]
      PROVE  F!Sum(f) = F!Sum(h) + f[n]
  <2>1. n \in 1..n /\ n \in Nat \ {0} /\ n - 1 \in Nat
    BY <1>5
  <2>2. DOMAIN h = 1..(n - 1) /\ IsFiniteSet(1..(n - 1))
    BY <2>1, FS_Interval
  <2>3. PICK f2 \in [1..n -> Int] : f2 = f
    OBVIOUS
  <2>4. PICK h2 \in [1..(n - 1) -> Int] : h2 = h
    OBVIOUS
  <2>5. PartSums(f2)[1..n] = f2[n] + PartSums(h2)[1..(n - 1)]
    <3>1. \A i \in 1..(n - 1) : h2[i] = f2[i]
      BY <1>5, <2>3, <2>4
    <3> QED BY <2>1, <3>1, SumsLast
  <2>6. F!Sum(h) = PartSums(h)[1..(n - 1)]
    BY <2>2, FSumIsSums
  <2>7. f[n] \in Nat /\ F!Sum(h) \in Nat
    BY <2>1, <2>2, <2>6, SumsNat
  <2> QED BY <1>2, <2>3, <2>4, <2>5, <2>6, <2>7
<1> QED BY <1>3, <1>4, <1>5

\* The fills that there are.
FillsOK == fills \in Seq(F!Fill) /\ lost \in 0..Len(fills)

LEMMA LenLemma == ASSUME FillsOK PROVE Len(fills) \in Nat
BY DEF FillsOK

LEMMA FillLemma ==
    ASSUME FillsOK, NEW i \in 1..Len(fills)
    PROVE  /\ fills[i].coin \in Coins /\ fills[i].sz \in Nat \ {0} /\ fills[i].px \in Nat
           /\ fills[i].dir \in {"Open Long", "Open Short", "Close Long", "Close Short"}
<1>1. fills[i] \in F!Fill
  BY DEF FillsOK
<1> QED BY <1>1, FillsAssumption DEF F!Fill, F!Open, F!Close

\* What has been opened or closed grows fill by fill.
LEMMA SizeLemma ==
    ASSUME FillsOK, NEW c, NEW dirs
    PROVE  /\ \A i \in 0..Len(fills) : F!SizeOf(c, dirs, i) \in Nat
           /\ F!SizeOf(c, dirs, 0) = 0
<1> DEFINE part(i) == [k \in 1..i |-> IF fills[k].coin = c /\ fills[k].dir \in dirs
                                      THEN fills[k].sz ELSE 0]
<1>0. Len(fills) \in Nat
  BY DEF FillsOK
<1>1. ASSUME NEW i \in 0..Len(fills) PROVE i \in Nat /\ part(i) \in [1..i -> Nat]
  <2>1. \A k \in 1..i : k \in 1..Len(fills)
    BY <1>0
  <2>2. \A k \in 1..i : fills[k].sz \in Nat
    BY <2>1, FillLemma
  <2> QED BY <2>2
<1>2. \A i : F!SizeOf(c, dirs, i) = F!Sum(part(i))
  BY DEF F!SizeOf
<1>3. \A i \in 0..Len(fills) : F!SizeOf(c, dirs, i) \in Nat
  <2> HIDE DEF part
  <2> QED BY <1>1, <1>2, PrefixSum
<1>4. F!SizeOf(c, dirs, 0) = 0
  <2>1. 0 \in 0..Len(fills)
    BY <1>0
  <2> HIDE DEF part
  <2> QED BY <1>1, <1>2, <2>1, PrefixSum
<1> QED BY <1>3, <1>4

LEMMA SizeType ==
    ASSUME FillsOK, NEW c, NEW dirs, NEW i \in 0..Len(fills)
    PROVE  F!SizeOf(c, dirs, i) \in Nat
BY SizeLemma

LEMMA SizeStep ==
    ASSUME FillsOK, NEW c, NEW dirs, NEW i \in 1..Len(fills)
    PROVE  /\ fills[i].coin = c /\ fills[i].dir \in dirs =>
                F!SizeOf(c, dirs, i) = F!SizeOf(c, dirs, i - 1) + fills[i].sz
           /\ ~ (fills[i].coin = c /\ fills[i].dir \in dirs) =>
                F!SizeOf(c, dirs, i) = F!SizeOf(c, dirs, i - 1)
           /\ F!SizeOf(c, dirs, i - 1) \in Nat /\ F!SizeOf(c, dirs, i) \in Nat
<1> DEFINE part(j) == [k \in 1..j |-> IF fills[k].coin = c /\ fills[k].dir \in dirs
                                      THEN fills[k].sz ELSE 0]
<1>1. i \in 0..Len(fills) /\ i - 1 \in 0..Len(fills) /\ i > 0
  BY LenLemma
<1>2. F!SizeOf(c, dirs, i - 1) \in Nat /\ F!SizeOf(c, dirs, i) \in Nat
  BY <1>1, SizeType
<1>3. \A k \in 1..i : fills[k].sz \in Nat
  <2>1. \A k \in 1..i : k \in 1..Len(fills)
    BY <1>1, LenLemma
  <2> QED BY <2>1, FillLemma
<1>4. PICK f \in [1..i -> Nat] : f = part(i)
  BY <1>3
<1>5. PICK h \in [1..(i - 1) -> Nat] : h = part(i - 1)
  <2>1. \A k \in 1..(i - 1) : fills[k].sz \in Nat
    BY <1>1, <1>3
  <2> QED BY <2>1
<1>6. \A k \in 1..(i - 1) : h[k] = f[k]
  BY <1>1, <1>4, <1>5
<1>7. F!SizeOf(c, dirs, i) = F!Sum(f) /\ F!SizeOf(c, dirs, i - 1) = F!Sum(h)
  BY <1>4, <1>5 DEF F!SizeOf
<1>8. F!Sum(f) = F!Sum(h) + f[i]
  BY <1>1, <1>6, PrefixSum
<1>9. /\ fills[i].coin = c /\ fills[i].dir \in dirs => f[i] = fills[i].sz
      /\ ~ (fills[i].coin = c /\ fills[i].dir \in dirs) => f[i] = 0
  BY <1>1, <1>4
<1> HIDE DEF part
<1> QED BY <1>2, <1>7, <1>8, <1>9

\* What goes in several directions is what goes in some and what goes in the rest.
LEMMA SizeSplit ==
    ASSUME FillsOK, NEW c, NEW some, NEW rest, NEW both,
           \A d : d \in both <=> d \in some \/ d \in rest, \A d \in some : d \notin rest
    PROVE  \A i \in 0..Len(fills) :
              F!SizeOf(c, both, i) = F!SizeOf(c, some, i) + F!SizeOf(c, rest, i)
<1> DEFINE n == Len(fills)
           Q == {i \in 0..n : F!SizeOf(c, both, i) = F!SizeOf(c, some, i) + F!SizeOf(c, rest, i)}
<1>0. n \in Nat
  BY LenLemma
<1>1. 0 \in Q
  <2>1. F!SizeOf(c, both, 0) = 0 /\ F!SizeOf(c, some, 0) = 0 /\ F!SizeOf(c, rest, 0) = 0
    BY SizeLemma
  <2> QED BY <1>0, <2>1
<1>2. ASSUME NEW i \in 1..n, i - 1 \in Q PROVE i \in Q
  <2> DEFINE mine == fills[i].coin = c
             d    == fills[i].dir
  <2>1. /\ mine /\ d \in both =>
              F!SizeOf(c, both, i) = F!SizeOf(c, both, i - 1) + fills[i].sz
        /\ ~ (mine /\ d \in both) => F!SizeOf(c, both, i) = F!SizeOf(c, both, i - 1)
    BY SizeStep
  <2>2. /\ mine /\ d \in some =>
              F!SizeOf(c, some, i) = F!SizeOf(c, some, i - 1) + fills[i].sz
        /\ ~ (mine /\ d \in some) => F!SizeOf(c, some, i) = F!SizeOf(c, some, i - 1)
        /\ F!SizeOf(c, some, i - 1) \in Nat
    BY SizeStep
  <2>3. /\ mine /\ d \in rest =>
              F!SizeOf(c, rest, i) = F!SizeOf(c, rest, i - 1) + fills[i].sz
        /\ ~ (mine /\ d \in rest) => F!SizeOf(c, rest, i) = F!SizeOf(c, rest, i - 1)
        /\ F!SizeOf(c, rest, i - 1) \in Nat
    BY SizeStep
  <2>4. PICK a \in Nat, b \in Nat, z \in Nat :
           a = F!SizeOf(c, some, i - 1) /\ b = F!SizeOf(c, rest, i - 1) /\ z = fills[i].sz
    BY <2>2, <2>3, FillLemma
  <2>5. F!SizeOf(c, both, i - 1) = a + b
    BY <1>2, <2>4
  <2> HIDE DEF mine, d
  <2>6. CASE mine /\ d \in some
    <3>1. d \in both /\ d \notin rest
      BY <2>6
    <3>2. /\ F!SizeOf(c, both, i) = (a + b) + z /\ F!SizeOf(c, some, i) = a + z
          /\ F!SizeOf(c, rest, i) = b
      BY <2>1, <2>2, <2>3, <2>4, <2>5, <2>6, <3>1
    <3> QED BY <1>0, <3>2
  <2>7. CASE mine /\ d \in rest
    <3>1. d \in both /\ d \notin some
      BY <2>7
    <3>2. /\ F!SizeOf(c, both, i) = (a + b) + z /\ F!SizeOf(c, some, i) = a
          /\ F!SizeOf(c, rest, i) = b + z
      BY <2>1, <2>2, <2>3, <2>4, <2>5, <2>7, <3>1
    <3> QED BY <1>0, <3>2
  <2>8. CASE ~ mine \/ d \notin both
    <3>1. ~ mine \/ d \notin some
      BY <2>8
    <3>2. ~ mine \/ d \notin rest
      BY <2>8
    <3>3. /\ F!SizeOf(c, both, i) = a + b /\ F!SizeOf(c, some, i) = a
          /\ F!SizeOf(c, rest, i) = b
      BY <2>1, <2>2, <2>3, <2>4, <2>5, <2>8, <3>1, <3>2
    <3> QED BY <1>0, <3>3
  <2>9. d \in both => d \in some \/ d \in rest
    OBVIOUS
  <2> QED BY <2>6, <2>7, <2>8, <2>9
<1>3. \A i \in 0..n : i \in Q
  <2> HIDE DEF Q
  <2> QED BY <1>0, <1>1, <1>2, EveryIndex
<1> QED BY <1>3

\* It never shrinks.
LEMMA SizeGrows ==
    ASSUME FillsOK, NEW c, NEW dirs, NEW i \in 0..Len(fills), NEW j \in i..Len(fills)
    PROVE  F!SizeOf(c, dirs, i) <= F!SizeOf(c, dirs, j)
<1> DEFINE n == Len(fills)
           Q == {k \in 0..n : i <= k => F!SizeOf(c, dirs, i) <= F!SizeOf(c, dirs, k)}
<1>a. n \in Nat
  BY LenLemma
<1>b. \A k \in 0..n : F!SizeOf(c, dirs, k) \in Nat
  BY SizeType
<1>0. n \in Nat /\ \A k \in 0..n : F!SizeOf(c, dirs, k) \in Nat
  BY <1>a, <1>b
<1>1. 0 \in Q
  BY <1>0
<1>2. ASSUME NEW k \in 1..n, k - 1 \in Q PROVE k \in Q
  <2>1. k \in 0..n /\ k - 1 \in 0..n /\ fills[k].sz \in Nat
    <3>1. fills[k].sz \in Nat
      BY FillLemma
    <3> QED BY <1>a, <3>1
  <2>2. F!SizeOf(c, dirs, k - 1) <= F!SizeOf(c, dirs, k)
    BY <2>1, SizeStep
  <2>3. CASE i <= k - 1
    BY <1>0, <1>2, <2>1, <2>2, <2>3
  <2>4. CASE ~ i <= k - 1
    <3>1. i <= k => i = k
      BY <2>1, <2>4
    <3> QED BY <1>0, <2>1, <3>1
  <2> QED BY <2>3, <2>4
<1>3. \A k \in 0..n : k \in Q
  <2> HIDE DEF Q
  <2> QED BY <1>0, <1>1, <1>2, EveryIndex
<1> QED BY <1>0, <1>3

\* A unit is opened by the fill that has it.
LEMMA OpenedByLemma ==
    ASSUME FillsOK, NEW c, NEW k \in Nat, NEW i \in 1..Len(fills),
           F!SizeOf(c, F!Open, i - 1) < k, k <= F!SizeOf(c, F!Open, i)
    PROVE  F!OpenedBy(c, k) = i
<1>a. Len(fills) \in Nat
  BY LenLemma
<1>b. \A j \in 0..Len(fills) : F!SizeOf(c, F!Open, j) \in Nat
  BY SizeLemma
<1>0. Len(fills) \in Nat /\ \A j \in 0..Len(fills) : F!SizeOf(c, F!Open, j) \in Nat
  BY <1>a, <1>b
<1>1. ASSUME NEW j \in 1..Len(fills), F!SizeOf(c, F!Open, j - 1) < k, k <= F!SizeOf(c, F!Open, j)
      PROVE  j = i
  <2>1. i \in 0..Len(fills) /\ i - 1 \in 0..Len(fills) /\ j \in 0..Len(fills) /\ j - 1 \in 0..Len(fills)
    BY <1>0
  <2>2. ~ i <= j - 1
    <3> SUFFICES ASSUME i <= j - 1 PROVE FALSE
      OBVIOUS
    <3>1. j - 1 \in i..Len(fills)
      BY <2>1
    <3>2. F!SizeOf(c, F!Open, i) <= F!SizeOf(c, F!Open, j - 1)
      BY <2>1, <3>1, SizeGrows
    <3> QED BY <1>0, <1>1, <2>1, <3>2
  <2>3. ~ j <= i - 1
    <3> SUFFICES ASSUME j <= i - 1 PROVE FALSE
      OBVIOUS
    <3>1. i - 1 \in j..Len(fills)
      BY <2>1
    <3>2. F!SizeOf(c, F!Open, j) <= F!SizeOf(c, F!Open, i - 1)
      BY <2>1, <3>1, SizeGrows
    <3> QED BY <1>0, <1>1, <2>1, <3>2
  <2> QED BY <2>1, <2>2, <2>3
<1>2. \E j \in 1..Len(fills) : F!SizeOf(c, F!Open, j - 1) < k /\ k <= F!SizeOf(c, F!Open, j)
  OBVIOUS
<1> QED BY <1>1, <1>2 DEF F!OpenedBy

(***************************************************************************)
(* A wallet never closes more than it has opened.                          *)
(***************************************************************************)
FillsInv ==
    /\ FillsOK
    /\ \A c \in Coins : \A i \in 0..Len(fills) : F!LongAt(c, i) >= 0 /\ F!ShortAt(c, i) >= 0

\* A fill adds to the sizes after it and changes none before it.
LEMMA SizeNext ==
    ASSUME FillsOK, NEW f \in F!Fill, fills' = Append(fills, f), NEW c, NEW dirs,
           NEW n, n = Len(fills)
    PROVE  /\ \A i \in 0..n : F!SizeOf(c, dirs, i)' = F!SizeOf(c, dirs, i)
           /\ f.coin = c /\ f.dir \in dirs =>
                F!SizeOf(c, dirs, n + 1)' = F!SizeOf(c, dirs, n) + f.sz
           /\ ~ (f.coin = c /\ f.dir \in dirs) =>
                F!SizeOf(c, dirs, n + 1)' = F!SizeOf(c, dirs, n)
<1> DEFINE of(s, i) == [k \in 1..i |-> IF s[k].coin = c /\ s[k].dir \in dirs THEN s[k].sz ELSE 0]
<1>0. n \in Nat /\ fills \in Seq(F!Fill) /\ f.sz \in Nat
  BY LenLemma, FillsAssumption DEF FillsOK, F!Fill
<1>1. PICK s, t : s = fills /\ t = Append(fills, f)
  OBVIOUS
<1>2. (\A k \in 1..n : t[k] = s[k]) /\ t[n + 1] = f
  BY <1>0, <1>1
<1>3. \A i : F!SizeOf(c, dirs, i) = F!Sum(of(s, i))
  BY <1>1 DEF F!SizeOf
<1>4. \A i : F!SizeOf(c, dirs, i)' = F!Sum(of(t, i))
  BY <1>1 DEF F!SizeOf
<1>5. ASSUME NEW i \in 0..n PROVE of(t, i) = of(s, i)
  <2>1. \A k \in 1..i : k \in 1..n
    BY <1>0
  <2> QED BY <1>2, <2>1
<1>6. \A i \in 0..n : F!SizeOf(c, dirs, i)' = F!SizeOf(c, dirs, i)
  <2> HIDE DEF of
  <2> QED BY <1>3, <1>4, <1>5
<1>7. of(t, n) \in [1..n -> Nat] /\ of(t, n + 1) \in [1..(n + 1) -> Nat]
  <2>1. \A k \in 1..n : t[k].sz \in Nat
    BY <1>1, <1>2, FillLemma
  <2>2. \A k \in 1..(n + 1) : k \in 1..n \/ k = n + 1
    BY <1>0
  <2>3. \A k \in 1..(n + 1) : t[k].sz \in Nat
    BY <1>0, <1>2, <2>1, <2>2
  <2> QED BY <2>1, <2>3
<1>8. PICK g \in [1..(n + 1) -> Nat], h \in [1..n -> Nat] : g = of(t, n + 1) /\ h = of(t, n)
  BY <1>7
<1>9. F!Sum(g) = F!Sum(h) + g[n + 1]
  <2>1. n + 1 \in Nat /\ n + 1 > 0 /\ (n + 1) - 1 = n
    BY <1>0
  <2>2. \A k \in 1..n : h[k] = g[k]
    BY <1>0, <1>8
  <2> HIDE DEF of
  <2> QED BY <2>1, <2>2, PrefixSum
<1>10. /\ f.coin = c /\ f.dir \in dirs => g[n + 1] = f.sz
       /\ ~ (f.coin = c /\ f.dir \in dirs) => g[n + 1] = 0
  BY <1>0, <1>2, <1>8
<1>11. /\ F!SizeOf(c, dirs, n + 1)' = F!Sum(g) /\ F!SizeOf(c, dirs, n) = F!Sum(h)
       /\ F!Sum(h) \in Nat
  <2>1. n \in 0..n
    BY <1>0
  <2> HIDE DEF of
  <2>2. F!SizeOf(c, dirs, n + 1)' = F!Sum(g)
    BY <1>4, <1>8
  <2>3. F!SizeOf(c, dirs, n) = F!Sum(h)
    BY <1>3, <1>5, <1>8, <2>1
  <2>4. F!Sum(h) \in Nat
    BY <1>0, PrefixSum
  <2> QED BY <2>2, <2>3, <2>4
<1> HIDE DEF of
<1> QED BY <1>0, <1>6, <1>9, <1>10, <1>11

LEMMA FillsFrame == ASSUME FillsInv, UNCHANGED <<fills, lost>> PROVE FillsInv'
<1>1. FillsOK' /\ fills' = fills
  BY DEF FillsInv, FillsOK
<1>2. \A c, i : F!LongAt(c, i)' = F!LongAt(c, i) /\ F!ShortAt(c, i)' = F!ShortAt(c, i)
  BY <1>1 DEF F!LongAt, F!ShortAt, F!SizeOf
<1> QED BY <1>1, <1>2 DEF FillsInv

LEMMA FillsForget == ASSUME FillsInv, F!Forget PROVE FillsInv'
<1>1. FillsOK /\ fills' = fills /\ lost' = lost + 1 /\ lost < Len(fills)
  BY DEF F!Forget, FillsInv
<1>2. FillsOK'
  <2>1. Len(fills) \in Nat /\ lost \in 0..Len(fills)
    BY <1>1, LenLemma DEF FillsOK
  <2>2. lost + 1 \in 0..Len(fills)
    BY <1>1, <2>1
  <2> QED BY <1>1, <2>2 DEF FillsOK
<1>3. \A c, i : F!LongAt(c, i)' = F!LongAt(c, i) /\ F!ShortAt(c, i)' = F!ShortAt(c, i)
  BY <1>1 DEF F!LongAt, F!ShortAt, F!SizeOf
<1> QED BY <1>1, <1>2, <1>3 DEF FillsInv

LEMMA FillsTrade == ASSUME FillsInv, NEW f \in F!Fill, F!Trade(f) PROVE FillsInv'
<1> DEFINE Lo == {"Open Long"}
           Lc == {"Close Long"}
           So == {"Open Short"}
           Sc == {"Close Short"}
<1>1. FillsOK /\ F!Legal(f) /\ fills' = Append(fills, f) /\ lost' = lost
  BY DEF F!Trade, FillsInv
<1>2. PICK n : n = Len(fills)
  OBVIOUS
<1>3. n \in Nat /\ Len(fills') = n + 1 /\ FillsOK'
  <2>1. n \in Nat /\ fills \in Seq(F!Fill) /\ lost \in 0..n
    BY <1>1, <1>2, LenLemma DEF FillsOK
  <2>2. fills' \in Seq(F!Fill) /\ Len(fills') = n + 1
    BY <1>1, <1>2, <2>1
  <2>3. lost' \in 0..Len(fills')
    BY <1>1, <2>1, <2>2
  <2> QED BY <2>1, <2>2, <2>3 DEF FillsOK
<1>4. f.coin \in Coins /\ f.sz \in Nat /\ f.dir \in {"Open Long", "Open Short", "Close Long", "Close Short"}
  BY FillsAssumption DEF F!Fill, F!Open, F!Close
<1>5. ASSUME NEW c \in Coins, NEW i \in 0..(n + 1)
      PROVE  F!LongAt(c, i)' >= 0 /\ F!ShortAt(c, i)' >= 0
  <2>1. CASE i \in 0..n
    <3>1. \A dirs : F!SizeOf(c, dirs, i)' = F!SizeOf(c, dirs, i)
      BY <1>1, <1>2, <2>1, SizeNext
    <3>2. F!LongAt(c, i)' = F!LongAt(c, i) /\ F!ShortAt(c, i)' = F!ShortAt(c, i)
      <4>1. /\ F!SizeOf(c, Lo, i)' = F!SizeOf(c, Lo, i) /\ F!SizeOf(c, Lc, i)' = F!SizeOf(c, Lc, i)
            /\ F!SizeOf(c, So, i)' = F!SizeOf(c, So, i) /\ F!SizeOf(c, Sc, i)' = F!SizeOf(c, Sc, i)
        <5> HIDE DEF Lo, Lc, So, Sc
        <5> QED BY <3>1
      <4> QED BY <4>1, Zenon DEF F!LongAt, F!ShortAt
    <3> QED BY <1>2, <2>1, <3>2 DEF FillsInv
  <2>2. CASE i = n + 1
    <3>0. n \in 0..Len(fills) /\ n \in Nat
      BY <1>2, <1>3
    <3>1. PICK lo \in Nat, lc \in Nat, so \in Nat, sc \in Nat :
             /\ lo = F!SizeOf(c, Lo, n) /\ lc = F!SizeOf(c, Lc, n)
             /\ so = F!SizeOf(c, So, n) /\ sc = F!SizeOf(c, Sc, n)
      <4> HIDE DEF Lo, Lc, So, Sc
      <4>1. \A dirs : F!SizeOf(c, dirs, n) \in Nat
        BY <1>1, <3>0, SizeType
      <4> QED BY <4>1
    <3>2. lo - lc >= 0 /\ so - sc >= 0
      BY <3>0, <3>1 DEF FillsInv, F!LongAt, F!ShortAt
    <3>3. PICK a, b, d, e : /\ a = F!SizeOf(c, Lo, n + 1)' /\ b = F!SizeOf(c, Lc, n + 1)'
                            /\ d = F!SizeOf(c, So, n + 1)' /\ e = F!SizeOf(c, Sc, n + 1)'
      OBVIOUS
    <3>4. F!LongAt(c, i)' = a - b /\ F!ShortAt(c, i)' = d - e
      BY <2>2, <3>3 DEF F!LongAt, F!ShortAt
    <3>5. /\ f.coin = c /\ f.dir \in Lo => a = lo + f.sz
          /\ ~ (f.coin = c /\ f.dir \in Lo) => a = lo
          /\ f.coin = c /\ f.dir \in Lc => b = lc + f.sz
          /\ ~ (f.coin = c /\ f.dir \in Lc) => b = lc
          /\ f.coin = c /\ f.dir \in So => d = so + f.sz
          /\ ~ (f.coin = c /\ f.dir \in So) => d = so
          /\ f.coin = c /\ f.dir \in Sc => e = sc + f.sz
          /\ ~ (f.coin = c /\ f.dir \in Sc) => e = sc
      <4> HIDE DEF Lo, Lc, So, Sc
      <4>1. ASSUME NEW dirs
            PROVE  /\ f.coin = c /\ f.dir \in dirs =>
                        F!SizeOf(c, dirs, n + 1)' = F!SizeOf(c, dirs, n) + f.sz
                   /\ ~ (f.coin = c /\ f.dir \in dirs) =>
                        F!SizeOf(c, dirs, n + 1)' = F!SizeOf(c, dirs, n)
        BY <1>1, <1>2, SizeNext
      <4>2. /\ f.coin = c /\ f.dir \in Lo => a = lo + f.sz
            /\ ~ (f.coin = c /\ f.dir \in Lo) => a = lo
        BY <3>1, <3>3, <4>1
      <4>3. /\ f.coin = c /\ f.dir \in Lc => b = lc + f.sz
            /\ ~ (f.coin = c /\ f.dir \in Lc) => b = lc
        BY <3>1, <3>3, <4>1
      <4>4. /\ f.coin = c /\ f.dir \in So => d = so + f.sz
            /\ ~ (f.coin = c /\ f.dir \in So) => d = so
        BY <3>1, <3>3, <4>1
      <4>5. /\ f.coin = c /\ f.dir \in Sc => e = sc + f.sz
            /\ ~ (f.coin = c /\ f.dir \in Sc) => e = sc
        BY <3>1, <3>3, <4>1
      <4> QED BY <4>2, <4>3, <4>4, <4>5
    <3>6. CASE f.coin # c
      BY <3>2, <3>4, <3>5, <3>6
    <3>7. CASE f.coin = c
      <4>0. PICK z \in Nat : z = f.sz
        BY <1>4
      <4>1. /\ f.dir = "Close Long" => f.sz <= lo - lc
            /\ f.dir = "Close Short" => f.sz <= so - sc
        BY <1>1, <1>2, <1>4, <3>1, <3>7
           DEF F!Legal, F!Long, F!Short, F!LongAt, F!ShortAt
      <4>2. CASE f.dir = "Open Long"
        <5>1. a = lo + z /\ b = lc /\ d = so /\ e = sc
          BY <3>5, <4>0, <3>7, <4>2
        <5>2. (lo + z) - lc >= 0 /\ so - sc >= 0
          BY <3>2
        <5> QED BY <3>4, <5>1, <5>2
      <4>3. CASE f.dir = "Open Short"
        <5>1. a = lo /\ b = lc /\ d = so + z /\ e = sc
          BY <3>5, <4>0, <3>7, <4>3
        <5>2. lo - lc >= 0 /\ (so + z) - sc >= 0
          BY <3>2
        <5> QED BY <3>4, <5>1, <5>2
      <4>4. CASE f.dir = "Close Long"
        <5>1. a = lo /\ b = lc + z /\ d = so /\ e = sc
          BY <3>5, <4>0, <3>7, <4>4
        <5>2. lo - (lc + z) >= 0 /\ so - sc >= 0
          <6>1. z <= lo - lc
            BY <4>0, <4>1, <4>4
          <6> QED BY <3>2, <6>1
        <5> QED BY <3>4, <5>1, <5>2
      <4>5. CASE f.dir = "Close Short"
        <5>1. a = lo /\ b = lc /\ d = so /\ e = sc + z
          BY <3>5, <4>0, <3>7, <4>5
        <5>2. lo - lc >= 0 /\ so - (sc + z) >= 0
          <6>1. z <= so - sc
            BY <4>0, <4>1, <4>5
          <6> QED BY <3>2, <6>1
        <5> QED BY <3>4, <5>1, <5>2
      <4> QED BY <1>4, <4>2, <4>3, <4>4, <4>5
    <3> QED BY <3>6, <3>7
  <2> QED BY <1>3, <2>1, <2>2
<1> QED BY <1>3, <1>5 DEF FillsInv

LEMMA FillsInit == F!Init => FillsInv
<1> SUFFICES ASSUME F!Init PROVE FillsInv
  OBVIOUS
<1>1. fills = <<>> /\ lost = 0
  BY DEF F!Init
<1>2. FillsOK
  BY <1>1 DEF FillsOK
<1>3. ASSUME NEW c \in Coins, NEW i \in 0..Len(fills)
      PROVE  F!LongAt(c, i) >= 0 /\ F!ShortAt(c, i) >= 0
  <2>1. i = 0
    BY <1>1
  <2>2. \A dirs : F!SizeOf(c, dirs, i) = 0
    BY <1>2, <2>1, SizeLemma
  <2>3. F!LongAt(c, i) = 0 - 0 /\ F!ShortAt(c, i) = 0 - 0
    <3>1. /\ F!SizeOf(c, {"Open Long"}, i) = 0 /\ F!SizeOf(c, {"Close Long"}, i) = 0
          /\ F!SizeOf(c, {"Open Short"}, i) = 0 /\ F!SizeOf(c, {"Close Short"}, i) = 0
      BY <2>2
    <3> QED BY <3>1, Zenon DEF F!LongAt, F!ShortAt
  <2> QED BY <2>3
<1> QED BY <1>2, <1>3 DEF FillsInv

\* The wallet is one that trades by the rules.
LEMMA FillsAlways == Spec => []FillsInv
<1>1. Init => FillsInv
  BY FillsInit DEF Init
<1>2. FillsInv /\ [Next]_vars => FillsInv'
  <2> SUFFICES ASSUME FillsInv, [Next]_vars PROVE FillsInv'
    OBVIOUS
  <2>1. CASE F!Next
    BY <2>1, FillsForget, FillsTrade DEF F!Next
  <2>2. CASE UNCHANGED <<fills, lost>>
    BY <2>2, FillsFrame
  <2> QED BY <2>1, <2>2 DEF Next, vars, fillsVars
<1> QED BY <1>1, <1>2, PTL DEF Spec

\* What is open is not negative, and is the position.
LEMMA Balance ==
    ASSUME FillsInv, NEW c \in Coins, NEW i \in 0..Len(fills)
    PROVE  /\ F!SizeOf(c, F!Open, i) \in Nat /\ F!SizeOf(c, F!Close, i) \in Nat
           /\ F!SizeOf(c, F!Close, i) <= F!SizeOf(c, F!Open, i)
           /\ F!SizeOf(c, F!Open, i) - F!SizeOf(c, F!Close, i) = F!LongAt(c, i) + F!ShortAt(c, i)
           /\ F!LongAt(c, i) >= 0 /\ F!ShortAt(c, i) >= 0
<1>0. FillsOK
  BY DEF FillsInv
<1>1. PICK Lo, Lc, So, Sc : /\ Lo = {"Open Long"} /\ Lc = {"Close Long"}
                            /\ So = {"Open Short"} /\ Sc = {"Close Short"}
  OBVIOUS
<1>2. F!SizeOf(c, F!Open, i) = F!SizeOf(c, Lo, i) + F!SizeOf(c, So, i)
  <2>1. (\A d : d \in F!Open <=> d \in Lo \/ d \in So) /\ (\A d \in Lo : d \notin So)
    BY <1>1 DEF F!Open
  <2> QED BY <1>0, <2>1, SizeSplit
<1>3. F!SizeOf(c, F!Close, i) = F!SizeOf(c, Lc, i) + F!SizeOf(c, Sc, i)
  <2>1. (\A d : d \in F!Close <=> d \in Lc \/ d \in Sc) /\ (\A d \in Lc : d \notin Sc)
    BY <1>1 DEF F!Close
  <2> QED BY <1>0, <2>1, SizeSplit
<1>4. F!LongAt(c, i) = F!SizeOf(c, Lo, i) - F!SizeOf(c, Lc, i)
      /\ F!ShortAt(c, i) = F!SizeOf(c, So, i) - F!SizeOf(c, Sc, i)
  BY <1>1 DEF F!LongAt, F!ShortAt
<1>5. /\ F!SizeOf(c, Lo, i) \in Nat /\ F!SizeOf(c, Lc, i) \in Nat
      /\ F!SizeOf(c, So, i) \in Nat /\ F!SizeOf(c, Sc, i) \in Nat
  BY <1>0, SizeType
<1>6. F!LongAt(c, i) >= 0 /\ F!ShortAt(c, i) >= 0
  BY DEF FillsInv
<1> QED BY <1>2, <1>3, <1>4, <1>5, <1>6

(***************************************************************************)
(* The units of a coin: the price of the k-th, and of those a close takes. *)
(***************************************************************************)
Opened(c, i) == F!SizeOf(c, F!Open, i)
Closed(c, i) == F!SizeOf(c, F!Close, i)

PriceOf(c, k) == fills[F!OpenedBy(c, k)].px
Entry(c, a, m) == F!Sum([u \in 1..m |-> PriceOf(c, a + u)])

\* A unit that has been opened has been opened by a fill.
LEMMA UnitLemma ==
    ASSUME FillsOK, NEW c, NEW k \in Nat \ {0}, k <= Opened(c, Len(fills))
    PROVE  /\ F!OpenedBy(c, k) \in 1..Len(fills)
           /\ PriceOf(c, k) \in Nat
<1> DEFINE T == {i \in 0..Len(fills) : k <= Opened(c, i)}
<1>1. Len(fills) \in Nat /\ T \in SUBSET Nat /\ Len(fills) \in T
  BY LenLemma
<1>2. PICK i \in T : \A j \in T : i <= j
  <2> HIDE DEF T
  <2> QED BY <1>1, Smallest
<1>3. i # 0
  <2>1. Opened(c, 0) = 0
    BY SizeLemma DEF Opened
  <2> QED BY <2>1
<1>4. i \in 1..Len(fills) /\ i - 1 \in 0..Len(fills) /\ ~ i <= i - 1
  BY <1>3
<1>5. ~ k <= Opened(c, i - 1)
  BY <1>2, <1>4
<1>6. Opened(c, i - 1) \in Nat
  BY <1>4, SizeType DEF Opened
<1>7. Opened(c, i - 1) < k /\ k <= Opened(c, i)
  BY <1>5, <1>6
<1>8. F!OpenedBy(c, k) = i
  BY <1>4, <1>7, OpenedByLemma DEF Opened
<1> QED BY <1>4, <1>8, FillLemma DEF PriceOf

\* One unit more.
LEMMA EntryStep ==
    ASSUME FillsOK, NEW c, NEW a \in Nat, NEW m \in Nat, a + m + 1 <= Opened(c, Len(fills))
    PROVE  /\ Entry(c, a, m) \in Nat
           /\ Entry(c, a, m + 1) = Entry(c, a, m) + PriceOf(c, a + m + 1)
<1>1. Opened(c, Len(fills)) \in Nat
  BY LenLemma, SizeType DEF Opened
<1>2. ASSUME NEW u \in 1..(m + 1) PROVE PriceOf(c, a + u) \in Nat
  <2>1. a + u \in Nat \ {0} /\ a + u <= Opened(c, Len(fills))
    BY <1>1
  <2> QED BY <2>1, UnitLemma
<1>3. PICK f \in [1..(m + 1) -> Nat] : f = [u \in 1..(m + 1) |-> PriceOf(c, a + u)]
  BY <1>2
<1>4. \A u \in 1..m : u \in 1..(m + 1)
  OBVIOUS
<1>5. PICK h \in [1..m -> Nat] : h = [u \in 1..m |-> PriceOf(c, a + u)]
  BY <1>2, <1>4
<1>6. \A u \in 1..m : h[u] = f[u]
  BY <1>3, <1>4, <1>5
<1>7. m + 1 \in Nat /\ m + 1 > 0 /\ (m + 1) - 1 = m
  OBVIOUS
<1>8. F!Sum(f) = F!Sum(h) + f[m + 1]
  BY <1>6, <1>7, PrefixSum
<1>9. f[m + 1] = PriceOf(c, a + m + 1)
  <2>1. m + 1 \in 1..(m + 1) /\ a + (m + 1) = a + m + 1
    OBVIOUS
  <2> QED BY <1>3, <2>1
<1>10. Entry(c, a, m + 1) = F!Sum(f) /\ Entry(c, a, m) = F!Sum(h)
  BY <1>3, <1>5 DEF Entry
<1>11. F!Sum(h) \in Nat
  BY PrefixSum
<1> QED BY <1>8, <1>9, <1>10, <1>11

\* Some units more, of one price.
Priced(c, a, m, t, p) == \A u \in 1..t : PriceOf(c, a + m + u) = p

LEMMA EntrySteps ==
    ASSUME FillsOK, NEW c, NEW a \in Nat, NEW m \in Nat, NEW t \in Nat, NEW p \in Nat,
           a + m + t <= Opened(c, Len(fills)),
           Priced(c, a, m, t, p),
           Entry(c, a, m) \in Nat
    PROVE  Entry(c, a, m + t) = Entry(c, a, m) + t * p
<1> DEFINE Q == {j \in 0..t : Entry(c, a, m + j) = Entry(c, a, m) + j * p}
<1>0. Opened(c, Len(fills)) \in Nat
  BY LenLemma, SizeType DEF Opened
<1>1. 0 \in Q
  <2>1. m + 0 = m /\ 0 * p = 0
    OBVIOUS
  <2> QED BY <2>1
<1>2. ASSUME NEW j \in 1..t, j - 1 \in Q PROVE j \in Q
  <2>1. m + (j - 1) \in Nat /\ (m + (j - 1)) + 1 = m + j /\ a + (m + (j - 1)) + 1 = a + m + j
        /\ a + (m + (j - 1)) + 1 <= Opened(c, Len(fills))
    BY <1>0
  <2>2. Entry(c, a, m + j) = Entry(c, a, m + (j - 1)) + PriceOf(c, a + m + j)
    BY <2>1, EntryStep
  <2>3. PriceOf(c, a + m + j) = p
    BY DEF Priced
  <2>4. Entry(c, a, m + (j - 1)) = Entry(c, a, m) + (j - 1) * p
    BY <1>2
  <2>5. (j - 1) * p \in Nat /\ j * p = (j - 1) * p + p
    OBVIOUS
  <2>6. j \in 0..t
    OBVIOUS
  <2>7. Entry(c, a, m + j) = Entry(c, a, m) + j * p
    BY <2>2, <2>3, <2>4, <2>5
  <2> QED BY <2>6, <2>7
<1>3. \A j \in 0..t : j \in Q
  <2> HIDE DEF Q
  <2> QED BY <1>1, <1>2, EveryIndex
<1>4. t \in 0..t
  OBVIOUS
<1> QED BY <1>3, <1>4

(***************************************************************************)
(* The lots of a coin are a chain: their units follow on each other from   *)
(* the last that was closed to the last that was opened.                   *)
(***************************************************************************)
IsLot(c, lot, last) ==
    /\ lot \in Lot /\ lot.time \in 1..last
    /\ fills[lot.time].coin = c /\ fills[lot.time].dir \in F!Open
    /\ lot.px = fills[lot.time].px /\ lot.sz <= fills[lot.time].sz

EndOf(c, q, a, k) == IF k = 0 THEN a ELSE Opened(c, q[k].time)

Chain(c, q, last, a, b) ==
    /\ q \in Seq(Lot)
    /\ \A k \in 1..Len(q) :
          IsLot(c, q[k], last) /\ Opened(c, q[k].time) = EndOf(c, q, a, k - 1) + q[k].sz
    /\ EndOf(c, q, a, Len(q)) = b

LEMMA ChainEmpty == ASSUME NEW c, NEW last, NEW a PROVE Chain(c, <<>>, last, a, a)
BY DEF Chain, EndOf

LEMMA ChainNone == ASSUME NEW c, NEW last, NEW a, NEW b, Chain(c, <<>>, last, a, b) PROVE a = b
BY DEF Chain, EndOf

LEMMA ChainAppend ==
    ASSUME NEW c, NEW q, NEW last, NEW a, NEW b, Chain(c, q, last, a, b),
           NEW lot, IsLot(c, lot, last), Opened(c, lot.time) = b + lot.sz
    PROVE  Chain(c, Append(q, lot), last, a, b + lot.sz)
<1>1. q \in Seq(Lot) /\ lot \in Lot
  BY DEF Chain, IsLot
<1>2. PICK n, r : n = Len(q) /\ r = Append(q, lot)
  OBVIOUS
<1>3. /\ n \in Nat /\ r \in Seq(Lot) /\ Len(r) = n + 1 /\ r[n + 1] = lot
      /\ \A k \in 1..n : r[k] = q[k]
  BY <1>1, <1>2
<1>4. \A k \in 0..n : EndOf(c, r, a, k) = EndOf(c, q, a, k)
  BY <1>3 DEF EndOf
<1>5. ASSUME NEW k \in 1..(n + 1)
      PROVE  IsLot(c, r[k], last) /\ Opened(c, r[k].time) = EndOf(c, r, a, k - 1) + r[k].sz
  <2>1. CASE k \in 1..n
    <3>1. k - 1 \in 0..n /\ r[k] = q[k]
      BY <1>3, <2>1
    <3>2. IsLot(c, q[k], last) /\ Opened(c, q[k].time) = EndOf(c, q, a, k - 1) + q[k].sz
      BY <1>2, <2>1 DEF Chain
    <3> QED BY <1>4, <3>1, <3>2
  <2>2. CASE k = n + 1
    <3>1. k - 1 = n /\ n \in 0..n /\ r[k] = lot
      BY <1>3, <2>2
    <3>2. EndOf(c, r, a, k - 1) = b
      BY <1>2, <1>4, <3>1 DEF Chain
    <3> QED BY <3>1, <3>2
  <2> QED BY <1>3, <2>1, <2>2
<1>6. EndOf(c, r, a, n + 1) = b + lot.sz
  <2>1. n + 1 # 0
    BY <1>3
  <2> QED BY <1>3, <2>1 DEF EndOf
<1>7. Chain(c, r, last, a, b + lot.sz)
  BY <1>3, <1>5, <1>6 DEF Chain
<1> QED BY <1>2, <1>7

LEMMA ChainLater ==
    ASSUME NEW c, NEW q, NEW last \in Nat, NEW later \in Nat, last <= later, NEW a, NEW b,
           Chain(c, q, last, a, b)
    PROVE  Chain(c, q, later, a, b)
<1>1. \A lot : IsLot(c, lot, last) => IsLot(c, lot, later)
  BY DEF IsLot
<1> QED BY <1>1 DEF Chain

(***************************************************************************)
(* A close takes its units from the front of the chain.                    *)
(***************************************************************************)

\* Under way, with the lots up to unit e seen: as many units as are matched are
\* those after a, and what is left of the lots follows on them.
TakeInv(c, last, a, z, m, e) ==
    /\ m \in Match
    /\ m.matched + m.remaining = z
    /\ m.notional = Entry(c, a, m.matched)
    /\ m.matched > 0 => m.open = F!OpenedBy(c, a + m.matched)
    /\ Chain(c, m.left, last, a + m.matched, e)
    /\ m.remaining > 0 => m.left = <<>>
    /\ a + m.matched <= e

\* The units of a lot have been opened by its fill, at its price.
LEMMA LotUnits ==
    ASSUME FillsOK, NEW c, NEW last \in 0..Len(fills), NEW e \in Nat, NEW lot, IsLot(c, lot, last),
           Opened(c, lot.time) = e + lot.sz, NEW k \in Nat, e < k, k <= e + lot.sz
    PROVE  F!OpenedBy(c, k) = lot.time /\ PriceOf(c, k) = lot.px
<1>1. PICK i, s : i = lot.time /\ s = lot.sz
  OBVIOUS
<1>2. /\ i \in 1..Len(fills) /\ i \in 0..Len(fills) /\ s \in Nat
      /\ fills[i].coin = c /\ fills[i].dir \in F!Open /\ lot.px = fills[i].px
      /\ s <= fills[i].sz
  <2>1. Len(fills) \in Nat
    BY LenLemma
  <2> QED BY <1>1, <2>1 DEF IsLot, Lot
<1>3. PICK z \in Nat : z = fills[i].sz
  BY <1>2, FillLemma
<1>4. PICK p \in Nat, o \in Nat : p = F!SizeOf(c, F!Open, i - 1) /\ o = F!SizeOf(c, F!Open, i)
  BY <1>2, SizeStep
<1>5. o = p + z
  BY <1>2, <1>3, <1>4, SizeStep
<1>6. o = e + s
  BY <1>1, <1>4 DEF Opened
<1>7. p < k /\ k <= o
  BY <1>1, <1>2, <1>3, <1>5, <1>6
<1>8. F!OpenedBy(c, k) = i
  BY <1>2, <1>4, <1>7, OpenedByLemma
<1> QED BY <1>1, <1>2, <1>8 DEF PriceOf

\* So many of them cost so many times its price.
LEMMA LotCost ==
    ASSUME FillsOK, NEW c, NEW last \in 0..Len(fills), NEW lot, IsLot(c, lot, last),
           NEW a \in Nat, NEW m \in Nat, Opened(c, lot.time) = a + m + lot.sz,
           NEW t \in Nat, t > 0, t <= lot.sz
    PROVE  /\ Entry(c, a, m + t) = Entry(c, a, m) + t * lot.px
           /\ F!OpenedBy(c, a + m + t) = lot.time
<1>1. PICK i, s, p : i = lot.time /\ s = lot.sz /\ p = lot.px
  OBVIOUS
<1>2. i \in 0..Len(fills) /\ s \in Nat /\ p \in Nat /\ Len(fills) \in i..Len(fills)
  <2>1. Len(fills) \in Nat
    BY LenLemma
  <2> QED BY <1>1, <2>1 DEF IsLot, Lot
<1>3. Opened(c, i) <= Opened(c, Len(fills))
  BY <1>2, SizeGrows DEF Opened
<1>4. Opened(c, i) \in Nat /\ Opened(c, Len(fills)) \in Nat
  <2>1. Len(fills) \in 0..Len(fills)
    BY LenLemma
  <2> QED BY <1>2, <2>1, SizeType DEF Opened
<1>5. a + m + t <= Opened(c, Len(fills)) /\ a + m + 1 <= Opened(c, Len(fills))
  BY <1>1, <1>2, <1>3, <1>4
<1>6. ASSUME NEW u \in 1..t PROVE PriceOf(c, a + m + u) = p /\ F!OpenedBy(c, a + m + u) = i
  <2>1. PICK e, k : e = a + m /\ k = a + m + u
    OBVIOUS
  <2>2. e \in Nat /\ k \in Nat /\ e < k /\ k <= e + lot.sz /\ Opened(c, lot.time) = e + lot.sz
    BY <1>1, <1>2, <2>1
  <2>3. F!OpenedBy(c, k) = lot.time /\ PriceOf(c, k) = lot.px
    BY <2>2, LotUnits
  <2> QED BY <1>1, <2>1, <2>3
<1>7. Entry(c, a, m) \in Nat
  BY <1>5, EntryStep
<1>8. Entry(c, a, m + t) = Entry(c, a, m) + t * p
  <2>1. a + m + t <= Opened(c, Len(fills)) /\ p \in Nat
    BY <1>2, <1>5
  <2>2. Priced(c, a, m, t, p)
    BY <1>6 DEF Priced
  <2> QED BY <1>7, <2>1, <2>2, EntrySteps
<1>9. t \in 1..t
  OBVIOUS
<1> QED BY <1>1, <1>6, <1>8, <1>9

LEMMA TakeStep ==
    ASSUME FillsOK, NEW c, NEW last \in 0..Len(fills), NEW a \in Nat, NEW z \in Nat, NEW e \in Nat,
           NEW m, TakeInv(c, last, a, z, m, e),
           NEW lot, IsLot(c, lot, last), Opened(c, lot.time) = e + lot.sz
    PROVE  TakeInv(c, last, a, z, F!Take(m, lot), e + lot.sz)
<1>1. PICK r, k, s, p, i : /\ r = m.remaining /\ k = m.matched /\ s = lot.sz /\ p = lot.px
                           /\ i = lot.time
  OBVIOUS
<1>2. PICK t : t = F!Smaller(r, s)
  OBVIOUS
<1>3. PICK n : n = F!Take(m, lot)
  OBVIOUS
<1>4. /\ m \in Match /\ r \in Nat /\ k \in Nat /\ m.notional \in Nat
      /\ lot \in Lot /\ s \in Nat \ {0} /\ p \in Nat
  BY <1>1 DEF TakeInv, Match, IsLot, Lot
<1>5. t \in Nat /\ t <= r /\ t <= s /\ (t = r \/ t = s)
  BY <1>2, <1>4, SmallerType
<1>6. /\ n \in Match
      /\ n.remaining = r - t /\ n.notional = m.notional + t * p /\ n.matched = k + t
      /\ t > 0 => n.open = i
      /\ ~ t > 0 => n.open = m.open
      /\ t = s => n.left = m.left
      /\ t # s => n.left = Append(m.left, [lot EXCEPT !.sz = @ - t])
  <2>1. n \in Match
    BY <1>3, <1>4, TakeType
  <2> QED BY <1>1, <1>2, <1>3, <2>1 DEF F!Take
<1>7. /\ k + r = z /\ m.notional = Entry(c, a, k) /\ (k > 0 => m.open = F!OpenedBy(c, a + k))
      /\ Chain(c, m.left, last, a + k, e) /\ (r > 0 => m.left = <<>>) /\ a + k <= e
  BY <1>1 DEF TakeInv
<1>8. n.matched + n.remaining = z
  BY <1>4, <1>5, <1>6, <1>7
<1>9. CASE t = 0
  <2>1. r = 0 /\ t # s /\ k + t = k /\ t * p = 0
    BY <1>4, <1>5, <1>9
  <2>2. [lot EXCEPT !.sz = @ - t] = lot
    <3>1. lot.sz - t = lot.sz
      BY <1>1, <1>4, <1>9
    <3> QED BY <1>4, <3>1 DEF Lot
  <2>3. n.left = Append(m.left, lot)
    BY <1>6, <2>1, <2>2
  <2>4. Chain(c, n.left, last, a + k, e + s)
    BY <1>1, <1>7, <2>3, ChainAppend
  <2>5. n.notional = Entry(c, a, k) /\ n.matched = k
    BY <1>4, <1>6, <1>7, <2>1
  <2>6. n.open = m.open
    BY <1>6, <1>9
  <2>7. a + k <= e + s
    BY <1>4, <1>7
  <2>8. ~ n.remaining > 0
    BY <1>6, <1>9, <2>1
  <2> QED BY <1>1, <1>3, <1>6, <1>7, <1>8, <2>4, <2>5, <2>6, <2>7, <2>8 DEF TakeInv
<1>10. CASE t > 0
  <2>1. m.left = <<>>
    BY <1>4, <1>5, <1>7, <1>10
  <2>2. a + k = e
    BY <1>7, <2>1, ChainNone
  <2>3. /\ Entry(c, a, k + t) = Entry(c, a, k) + t * p
        /\ F!OpenedBy(c, a + k + t) = i
    <3>1. Opened(c, lot.time) = a + k + lot.sz
      BY <2>2
    <3>2. t \in Nat /\ t > 0 /\ t <= lot.sz
      BY <1>1, <1>5, <1>10
    <3>3. k \in Nat
      BY <1>4
    <3>4. /\ Entry(c, a, k + t) = Entry(c, a, k) + t * lot.px
          /\ F!OpenedBy(c, a + k + t) = lot.time
      BY <3>1, <3>2, <3>3, LotCost
    <3> QED BY <1>1, <3>4
  <2>4. n.notional = Entry(c, a, n.matched) /\ n.open = F!OpenedBy(c, a + n.matched)
    <3>1. a + k + t = a + (k + t)
      BY <1>4, <1>5
    <3> QED BY <1>6, <1>7, <1>10, <2>3, <3>1
  <2>5. a + n.matched <= e + s
    BY <1>4, <1>5, <1>6, <2>2
  <2>6. CASE t = s
    <3>1. n.left = <<>> /\ a + n.matched = e + s
      <4>1. a + n.matched = a + (k + s)
        BY <1>6, <2>6
      <4>2. n.left = <<>>
        BY <1>6, <2>1, <2>6
      <4> QED BY <1>4, <2>2, <4>1, <4>2
    <3>2. Chain(c, n.left, last, a + n.matched, e + s)
      BY <3>1, ChainEmpty
    <3> QED BY <1>1, <1>3, <1>6, <1>8, <2>4, <2>5, <3>1, <3>2 DEF TakeInv
  <2>7. CASE t # s
    <3>1. PICK rest : rest = [lot EXCEPT !.sz = @ - t]
      OBVIOUS
    <3>2. s - t \in Nat \ {0} /\ s - t <= s
      BY <1>4, <1>5, <2>7
    <3>3. rest \in Lot /\ rest.sz = s - t /\ rest.time = i /\ rest.px = p
      BY <1>1, <1>4, <3>1, <3>2 DEF Lot
    <3>4. IsLot(c, rest, last)
      <4>1. fills[i].sz \in Nat
        <5>1. i \in 1..Len(fills)
          BY <1>1, LenLemma DEF IsLot
        <5> QED BY <5>1, FillLemma
      <4>2. s - t <= fills[i].sz
        <5>1. s <= fills[i].sz
          BY <1>1 DEF IsLot
        <5> QED BY <1>4, <1>5, <4>1, <5>1
      <4> QED BY <1>1, <3>3, <4>2 DEF IsLot
    <3>5. Opened(c, rest.time) = (e + t) + rest.sz /\ (e + t) + rest.sz = e + s
      <4>1. (e + t) + (s - t) = e + s
        BY <1>4, <1>5
      <4> QED BY <1>1, <3>3, <4>1
    <3>6. Chain(c, Append(<<>>, rest), last, e + t, e + s)
      <4>1. Chain(c, <<>>, last, e + t, e + t)
        BY ChainEmpty
      <4>2. Chain(c, Append(<<>>, rest), last, e + t, (e + t) + rest.sz)
        BY <3>4, <3>5, <4>1, ChainAppend
      <4> QED BY <3>5, <4>2
    <3>7. n.left = Append(<<>>, rest) /\ a + n.matched = e + t /\ ~ n.remaining > 0
      <4>1. a + (k + t) = e + t /\ ~ r - t > 0
        BY <1>4, <1>5, <2>2, <2>7
      <4>2. n.left = Append(<<>>, rest)
        BY <1>6, <2>1, <2>7, <3>1
      <4> QED BY <1>6, <4>1, <4>2
    <3> QED BY <1>1, <1>3, <1>6, <1>8, <2>4, <2>5, <3>6, <3>7 DEF TakeInv
  <2> QED BY <2>6, <2>7
<1> QED BY <1>5, <1>9, <1>10

LEMMA EntryNone == ASSUME NEW c, NEW a PROVE Entry(c, a, 0) = 0
<1>1. PICK f \in [1..0 -> Nat] : f = [u \in 1..0 |-> PriceOf(c, a + u)]
  <2>1. \A u \in 1..0 : PriceOf(c, a + u) \in Nat
    <3> SUFFICES ASSUME NEW u \in 1..0 PROVE FALSE
      OBVIOUS
    <3> QED OBVIOUS
  <2> QED BY <2>1
<1>2. F!Sum(f) = 0
  BY PrefixSum
<1> QED BY <1>1, <1>2 DEF Entry

\* A close of no more than the chain has takes its first units, and leaves the rest.
LEMMA ConsumeLemma ==
    ASSUME FillsOK, NEW c, NEW last \in 0..Len(fills), NEW a \in Nat, NEW b \in Nat, NEW q,
           Chain(c, q, last, a, b), NEW z \in Nat, z > 0, a + z <= b, NEW now \in Nat,
           NEW m, m = F!Consume(q, z, now)
    PROVE  /\ m.matched = z
           /\ m.notional = Entry(c, a, z)
           /\ m.open = F!OpenedBy(c, a + z)
           /\ Chain(c, m.left, last, a + z, b)
<1>1. PICK n : n = Len(q)
  OBVIOUS
<1>2. /\ n \in Nat /\ q \in Seq(Lot) /\ EndOf(c, q, a, n) = b
      /\ \A k \in 1..n : IsLot(c, q[k], last) /\ Opened(c, q[k].time) = EndOf(c, q, a, k - 1) + q[k].sz
  BY <1>1 DEF Chain
<1>3. PICK m0 : m0 = F!Unmatched(z, now)
  OBVIOUS
<1>4. /\ m0 \in Match /\ m0.matched = 0 /\ m0.remaining = z /\ m0.notional = 0
      /\ m0.left = <<>>
  BY <1>3 DEF F!Unmatched, Match
<1>5. PICK P \in [0..n -> Match] :
        /\ P[0] = m0
        /\ \A j \in 1..n : P[j] = F!Take(P[j - 1], q[j])
        /\ F!FoldLeft(F!Take, m0, q) = P[n]
  BY <1>1, <1>2, <1>4, TakeFold
<1>6. m = P[n]
  BY <1>3, <1>5 DEF F!Consume
<1>7. \A k \in 0..n : EndOf(c, q, a, k) \in Nat
  <2>1. ASSUME NEW k \in 0..n, k # 0 PROVE EndOf(c, q, a, k) \in Nat
    <3>1. q[k].time \in 1..last
      <4>1. k \in 1..n
        BY <1>2, <2>1
      <4> QED BY <1>2, <4>1 DEF IsLot
    <3>2. q[k].time \in 0..Len(fills)
      BY <3>1, LenLemma
    <3>3. Opened(c, q[k].time) \in Nat
      BY <3>2, SizeType DEF Opened
    <3> QED BY <2>1, <3>3 DEF EndOf
  <2>2. EndOf(c, q, a, 0) \in Nat
    BY DEF EndOf
  <2> QED BY <2>1, <2>2
<1> DEFINE Q == {j \in 0..n : TakeInv(c, last, a, z, P[j], EndOf(c, q, a, j))}
<1>8. 0 \in Q
  <2>1. EndOf(c, q, a, 0) = a /\ a + 0 = a /\ 0 + z = z
    BY DEF EndOf
  <2>2. Chain(c, m0.left, last, a + m0.matched, a)
    BY <1>4, <2>1, ChainEmpty
  <2>3. m0.notional = Entry(c, a, m0.matched)
    BY <1>4, EntryNone
  <2>4. TakeInv(c, last, a, z, m0, a)
    BY <1>4, <2>1, <2>2, <2>3 DEF TakeInv
  <2> QED BY <1>2, <1>5, <2>1, <2>4
<1>9. ASSUME NEW j \in 1..n, j - 1 \in Q PROVE j \in Q
  <2>1. j \in 0..n /\ j - 1 \in 0..n /\ j # 0
    BY <1>2
  <2>2. PICK e \in Nat : e = EndOf(c, q, a, j - 1)
    BY <1>7, <2>1
  <2>3. TakeInv(c, last, a, z, P[j - 1], e)
    BY <1>9, <2>2
  <2>4. PICK lot : lot = q[j]
    OBVIOUS
  <2>5. IsLot(c, lot, last) /\ Opened(c, lot.time) = e + lot.sz
    BY <1>2, <2>2, <2>4
  <2>6. TakeInv(c, last, a, z, F!Take(P[j - 1], lot), e + lot.sz)
    BY <2>3, <2>5, TakeStep
  <2>7. EndOf(c, q, a, j) = e + lot.sz
    BY <2>1, <2>4, <2>5 DEF EndOf
  <2>8. P[j] = F!Take(P[j - 1], lot)
    BY <1>5, <2>4
  <2> QED BY <2>1, <2>6, <2>7, <2>8
<1>10. \A j \in 0..n : j \in Q
  <2> HIDE DEF Q
  <2> QED BY <1>2, <1>8, <1>9, EveryIndex
<1>11. TakeInv(c, last, a, z, m, b)
  <2>1. n \in 0..n
    BY <1>2
  <2> QED BY <1>2, <1>6, <1>10, <2>1
<1>12. /\ m \in Match /\ m.matched + m.remaining = z /\ m.notional = Entry(c, a, m.matched)
       /\ m.matched > 0 => m.open = F!OpenedBy(c, a + m.matched)
       /\ Chain(c, m.left, last, a + m.matched, b) /\ (m.remaining > 0 => m.left = <<>>)
  BY <1>11 DEF TakeInv
<1>13. m.matched = z
  <2>1. m.remaining \in Nat /\ m.matched \in Nat
    BY <1>12 DEF Match
  <2>2. m.remaining > 0 => a + m.matched = b
    BY <1>12, ChainNone
  <2> QED BY <1>12, <2>1, <2>2
<1> QED BY <1>12, <1>13

(***************************************************************************)
(* The walk over the fills that are answered with.                         *)
(***************************************************************************)
Trip == [asset : Coins, direction : {"long", "short"}, size : Nat, notional : Nat,
         matched : Nat, open_time : Nat, close_time : Nat]
Seen == [lots : [Coins -> Seq(Lot)], trades : Seq(Trip)]

LEMMA ConsumeType ==
    ASSUME NEW lots \in Seq(Lot), NEW sz \in Nat, NEW now \in Nat
    PROVE  F!Consume(lots, sz, now) \in Match
<1>1. PICK m : m = F!Unmatched(sz, now)
  OBVIOUS
<1>2. m \in Match
  <2>1. <<>> \in Seq(Lot)
    OBVIOUS
  <2> QED BY <1>1, <2>1 DEF F!Unmatched, Match
<1>3. PICK P \in [0..Len(lots) -> Match] : F!FoldLeft(F!Take, m, lots) = P[Len(lots)]
  BY <1>2, TakeFold
<1>4. F!FoldLeft(F!Take, m, lots) \in Match
  <2>1. Len(lots) \in 0..Len(lots)
    OBVIOUS
  <2> QED BY <1>3, <2>1
<1> QED BY <1>1, <1>4 DEF F!Consume

\* What an open and what a close does to the walk so far.
LEMMA WalkOpen ==
    ASSUME FillsOK, NEW i \in 1..Len(fills), NEW sofar \in Seen, fills[i].dir \in F!Open,
           NEW n, n = F!Walk(sofar, i)
    PROVE  /\ n \in Seen /\ n.trades = sofar.trades
           /\ n.lots = [sofar.lots EXCEPT ![fills[i].coin] =
                            Append(@, [px |-> fills[i].px, sz |-> fills[i].sz, time |-> i])]
<1>1. /\ fills[i].coin \in Coins /\ fills[i].sz \in Nat \ {0} /\ fills[i].px \in Nat /\ i \in Nat
  <2>1. i \in Nat
    BY LenLemma
  <2> QED BY <2>1, FillLemma
<1>2. PICK c, lot : c = fills[i].coin /\ lot = [px |-> fills[i].px, sz |-> fills[i].sz, time |-> i]
  OBVIOUS
<1>3. c \in Coins /\ lot \in Lot
  BY <1>1, <1>2 DEF Lot
<1>4. n = [sofar EXCEPT !.lots[c] = Append(@, lot)]
  BY <1>2 DEF F!Walk
<1>5. PICK ls, ts : ls = sofar.lots /\ ts = sofar.trades
  OBVIOUS
<1>6. ls \in [Coins -> Seq(Lot)] /\ ts \in Seq(Trip) /\ sofar = [lots |-> ls, trades |-> ts]
  BY <1>5 DEF Seen
<1>7. n = [lots |-> [ls EXCEPT ![c] = Append(@, lot)], trades |-> ts]
  BY <1>4, <1>6
<1>8. [ls EXCEPT ![c] = Append(@, lot)] \in [Coins -> Seq(Lot)]
  <2>1. Append(ls[c], lot) \in Seq(Lot)
    BY <1>3, <1>6
  <2> QED BY <1>3, <1>6, <2>1
<1>9. n.lots = [ls EXCEPT ![c] = Append(@, lot)] /\ n.trades = ts /\ n \in Seen
  <2>1. PICK new : new = [ls EXCEPT ![c] = Append(@, lot)]
    OBVIOUS
  <2>2. n = [lots |-> new, trades |-> ts] /\ new \in [Coins -> Seq(Lot)]
    BY <1>7, <1>8, <2>1
  <2>3. n.lots = new /\ n.trades = ts /\ n \in Seen
    BY <1>6, <2>2 DEF Seen
  <2> QED BY <2>1, <2>3
<1> QED BY <1>2, <1>5, <1>9

TripOf(i, m) ==
    [asset |-> fills[i].coin,
     direction |-> IF fills[i].dir = "Close Long" THEN "long" ELSE "short",
     size |-> fills[i].sz, notional |-> m.notional, matched |-> m.matched,
     open_time |-> m.open, close_time |-> i]

LEMMA WalkClose ==
    ASSUME FillsOK, NEW i \in 1..Len(fills), NEW sofar \in Seen, fills[i].dir \notin F!Open,
           NEW n, n = F!Walk(sofar, i),
           NEW m, m = F!Consume(sofar.lots[fills[i].coin], fills[i].sz, i)
    PROVE  /\ n \in Seen /\ m \in Match
           /\ n.lots = [sofar.lots EXCEPT ![fills[i].coin] = m.left]
           /\ n.trades = Append(sofar.trades, TripOf(i, m)) /\ TripOf(i, m) \in Trip
<1>1. /\ fills[i].coin \in Coins /\ fills[i].sz \in Nat /\ i \in Nat
  <2>1. i \in Nat
    BY LenLemma
  <2> QED BY <2>1, FillLemma
<1>2. PICK c, t : c = fills[i].coin /\ t = TripOf(i, m)
  OBVIOUS
<1>3. PICK ls, ts : ls = sofar.lots /\ ts = sofar.trades
  OBVIOUS
<1>4. ls \in [Coins -> Seq(Lot)] /\ ts \in Seq(Trip) /\ sofar = [lots |-> ls, trades |-> ts]
  BY <1>3 DEF Seen
<1>5. m \in Match
  <2>1. ls[c] \in Seq(Lot)
    BY <1>1, <1>2, <1>4
  <2> QED BY <1>1, <1>2, <1>3, <2>1, ConsumeType
<1>6. m.left \in Seq(Lot) /\ m.notional \in Nat /\ m.matched \in Nat /\ m.open \in Nat
  BY <1>5 DEF Match
<1>7. t \in Trip
  BY <1>1, <1>2, <1>6 DEF Trip, TripOf
<1>8. n = [sofar EXCEPT !.lots[c] = m.left, !.trades = Append(@, t)]
  BY <1>2 DEF F!Walk, TripOf
<1>9. n = [lots |-> [ls EXCEPT ![c] = m.left], trades |-> Append(ts, t)]
  BY <1>4, <1>8
<1>10. [ls EXCEPT ![c] = m.left] \in [Coins -> Seq(Lot)]
  BY <1>4, <1>6
<1>11. Append(ts, t) \in Seq(Trip)
  BY <1>4, <1>7
<1>12. n.lots = [ls EXCEPT ![c] = m.left] /\ n.trades = Append(ts, t) /\ n \in Seen
  BY <1>9, <1>10, <1>11 DEF Seen
<1> QED BY <1>2, <1>3, <1>5, <1>7, <1>12

Start == [lots |-> [c \in Coins |-> <<>>], trades |-> <<>>]

Walked(n, m, g) ==
    g = [s \in SUBSET (1..n) |->
            IF s = {} THEN m ELSE F!Walk(g[s \ {Highest(s)}], lost + Highest(s))]

\* The walk takes one fill after the other.
LEMMA WalkFold ==
    ASSUME FillsOK, NEW n, n = Len(fills) - lost
    PROVE  /\ n \in Nat
           /\ \E P \in [0..n -> Seen] :
                /\ P[0] = Start
                /\ \A j \in 1..n : P[j] = F!Walk(P[j - 1], lost + j)
                /\ F!Rebuilt = P[n]
<1> DEFINE step == [x \in (1..n) \X Seen |-> F!Walk(x[2], lost + x[1])]
           all  == CHOOSE g : Walked(n, Start, g)
<1>0. n \in Nat /\ \A j \in 1..n : lost + j \in 1..Len(fills)
  BY LenLemma DEF FillsOK
<1>1. step \in [(1..n) \X Seen -> Seen] /\ Start \in Seen
  <2>1. ASSUME NEW j \in 1..n, NEW sofar \in Seen PROVE F!Walk(sofar, lost + j) \in Seen
    <3>1. PICK i \in 1..Len(fills) : i = lost + j
      BY <1>0
    <3>2. PICK w, m : w = F!Walk(sofar, i) /\ m = F!Consume(sofar.lots[fills[i].coin], fills[i].sz, i)
      OBVIOUS
    <3>3. w \in Seen
      <4>1. CASE fills[i].dir \in F!Open
        BY <3>2, <4>1, WalkOpen
      <4>2. CASE fills[i].dir \notin F!Open
        BY <3>2, <4>2, WalkClose
      <4> QED BY <4>1, <4>2
    <3> QED BY <3>1, <3>2, <3>3
  <2>2. Start \in Seen
    BY DEF Start, Seen
  <2> QED BY <2>1, <2>2
<1>2. PICK g \in [SUBSET (1..n) -> Seen] : FoldsTo(n, Start, step, g)
  <2> HIDE DEF step
  <2> QED BY <1>0, <1>1, FoldExists
<1>3. Walked(n, Start, g)
  <2>1. ASSUME NEW s \in SUBSET (1..n)
        PROVE  g[s] = IF s = {} THEN Start ELSE F!Walk(g[s \ {Highest(s)}], lost + Highest(s))
    <3>1. CASE s = {}
      BY <1>2, <3>1 DEF FoldsTo
    <3>2. CASE s # {}
      <4>1. Highest(s) \in 1..n /\ g[s \ {Highest(s)}] \in Seen
        BY <1>0, <3>2, HighestLemma
      <4>2. g[s] = step[<<Highest(s), g[s \ {Highest(s)}]>>]
        BY <1>2, <3>2 DEF FoldsTo
      <4> QED BY <3>2, <4>1, <4>2
    <3> QED BY <3>1, <3>2
  <2>2. g = [s \in SUBSET (1..n) |-> g[s]]
    OBVIOUS
  <2> HIDE DEF step
  <2>3. g = [s \in SUBSET (1..n) |->
               IF s = {} THEN Start ELSE F!Walk(g[s \ {Highest(s)}], lost + Highest(s))]
    BY <2>1, <2>2, Zenon
  <2> QED BY <2>3 DEF Walked
<1>4. Walked(n, Start, all)
  BY <1>3
<1>5. F!Rebuilt = all[1..n]
  <2> DEFINE list == [i \in 1..n |-> lost + i]
             raw  == CHOOSE g2 : g2 = [s \in SUBSET (1..n) |->
                        IF s = {} THEN Start ELSE F!Walk(g2[s \ {Highest(s)}], list[Highest(s)])]
  <2>1. F!Rebuilt = F!FoldLeft(F!Walk, Start, list)
    BY DEF F!Rebuilt, Start
  <2>2. F!FoldLeft(F!Walk, Start, list) = raw[1..n]
    <3>1. DOMAIN list = 1..n
      OBVIOUS
    <3> HIDE DEF list
    <3> QED BY <3>1 DEF F!FoldLeft, F!MapThenFoldSet, F!Max, Highest
  <2>3. \A g2 : [s \in SUBSET (1..n) |->
                        IF s = {} THEN Start ELSE F!Walk(g2[s \ {Highest(s)}], list[Highest(s)])]
               = [s \in SUBSET (1..n) |->
                        IF s = {} THEN Start ELSE F!Walk(g2[s \ {Highest(s)}], lost + Highest(s))]
    <3>1. ASSUME NEW s \in SUBSET (1..n), s # {} PROVE list[Highest(s)] = lost + Highest(s)
      BY <1>0, <3>1, HighestLemma
    <3> HIDE DEF list
    <3> QED BY <3>1
  <2>4. raw = all
    <3> HIDE DEF list
    <3> QED BY <2>3 DEF Walked
  <2> QED BY <2>1, <2>2, <2>4
<1> HIDE DEF all, step
<1>6. \A s \in SUBSET (1..n) :
        all[s] = IF s = {} THEN Start ELSE F!Walk(all[s \ {Highest(s)}], lost + Highest(s))
  <2>1. all = [s \in SUBSET (1..n) |->
                 IF s = {} THEN Start ELSE F!Walk(all[s \ {Highest(s)}], lost + Highest(s))]
    BY <1>4 DEF Walked
  <2> QED BY <2>1, Zenon
<1>7. all[{}] = Start
  <2>1. {} \in SUBSET (1..n)
    OBVIOUS
  <2> QED BY <1>6, <2>1
<1>8. ASSUME NEW s \in SUBSET (1..n), s # {}, all[s \ {Highest(s)}] \in Seen
      PROVE  all[s] = step[<<Highest(s), all[s \ {Highest(s)}]>>]
  <2>1. Highest(s) \in 1..n
    BY <1>0, <1>8, HighestLemma
  <2>2. all[s] = F!Walk(all[s \ {Highest(s)}], lost + Highest(s))
    BY <1>6, <1>8
  <2> QED BY <1>8, <2>1, <2>2 DEF step
<1>9. PICK P \in [0..n -> Seen] :
        /\ P[0] = Start
        /\ \A j \in 1..n : P[j] = step[<<j, P[j - 1]>>]
        /\ all[1..n] = P[n]
  <2>1. \A s \in SUBSET (1..n) : s # {} /\ all[s \ {Highest(s)}] \in Seen =>
            all[s] = step[<<Highest(s), all[s \ {Highest(s)}]>>]
    BY <1>8
  <2>2. Recurs(n, Seen, Start, step, all)
    BY <1>0, <1>1, <1>7, <2>1 DEF Recurs
  <2> QED BY <2>2, Prefixes
<1>10. ASSUME NEW j \in 1..n PROVE P[j] = F!Walk(P[j - 1], lost + j)
  <2>1. j - 1 \in 0..n
    BY <1>0
  <2> QED BY <1>9, <2>1 DEF step
<1>11. \A j \in 1..n : P[j] = F!Walk(P[j - 1], lost + j)
  BY <1>10
<1> QED BY <1>0, <1>5, <1>9, <1>11

\* What a fill opens and closes.
LEMMA FillStep ==
    ASSUME FillsOK, NEW i \in 1..Len(fills), NEW c
    PROVE  /\ Opened(c, i - 1) \in Nat /\ Closed(c, i - 1) \in Nat
           /\ fills[i].coin # c => /\ Opened(c, i) = Opened(c, i - 1)
                                   /\ Closed(c, i) = Closed(c, i - 1)
           /\ fills[i].coin = c /\ fills[i].dir \in F!Open =>
                /\ Opened(c, i) = Opened(c, i - 1) + fills[i].sz
                /\ Closed(c, i) = Closed(c, i - 1)
           /\ fills[i].coin = c /\ fills[i].dir \notin F!Open =>
                /\ Opened(c, i) = Opened(c, i - 1)
                /\ Closed(c, i) = Closed(c, i - 1) + fills[i].sz
<1>1. /\ fills[i].dir \in F!Open => fills[i].dir \notin F!Close
      /\ fills[i].dir \notin F!Open => fills[i].dir \in F!Close
  <2>1. fills[i].dir \in {"Open Long", "Open Short", "Close Long", "Close Short"}
    BY FillLemma
  <2> QED BY <2>1 DEF F!Open, F!Close
<1>2. /\ fills[i].coin = c /\ fills[i].dir \in F!Open =>
            Opened(c, i) = Opened(c, i - 1) + fills[i].sz
      /\ ~ (fills[i].coin = c /\ fills[i].dir \in F!Open) => Opened(c, i) = Opened(c, i - 1)
      /\ Opened(c, i - 1) \in Nat
  BY SizeStep DEF Opened
<1>3. /\ fills[i].coin = c /\ fills[i].dir \in F!Close =>
            Closed(c, i) = Closed(c, i - 1) + fills[i].sz
      /\ ~ (fills[i].coin = c /\ fills[i].dir \in F!Close) => Closed(c, i) = Closed(c, i - 1)
      /\ Closed(c, i - 1) \in Nat
  BY SizeStep DEF Closed
<1> QED BY <1>1, <1>2, <1>3

\* What the walk has after the fill t: of the coins it has all the lots of, the
\* queue is the units opened and not closed, and a trade is the units it closed.
GoodTrip(d) ==
    LET a == Closed(d.asset, d.close_time - 1)
    IN  /\ d.matched = d.size
        /\ d.notional = Entry(d.asset, a, d.size)
        /\ d.open_time = F!OpenedBy(d.asset, a + d.size)

WalkInv(w, t) ==
    /\ w \in Seen
    /\ \A c \in Coins : F!Complete(c) => Chain(c, w.lots[c], t, Closed(c, t), Opened(c, t))
    /\ \A k \in 1..Len(w.trades) :
          /\ w.trades[k].close_time \in 1..t
          /\ F!Complete(w.trades[k].asset) => GoodTrip(w.trades[k])
    /\ \A k, l \in 1..Len(w.trades) : k < l => w.trades[k].close_time < w.trades[l].close_time

LEMMA WalkInvOpen ==
    ASSUME FillsInv, NEW i \in 1..Len(fills), NEW w, WalkInv(w, i - 1), fills[i].dir \in F!Open
    PROVE  WalkInv(F!Walk(w, i), i)
<1>1. PICK n : n = F!Walk(w, i)
  OBVIOUS
<1>2. PICK c, lot : c = fills[i].coin /\ lot = [px |-> fills[i].px, sz |-> fills[i].sz, time |-> i]
  OBVIOUS
<1>3. FillsOK /\ w \in Seen
  BY DEF FillsInv, WalkInv
<1>4. n \in Seen /\ n.trades = w.trades /\ n.lots = [w.lots EXCEPT ![c] = Append(@, lot)]
  BY <1>1, <1>2, <1>3, WalkOpen
<1>5. i \in Nat /\ i - 1 \in Nat /\ i - 1 <= i
  BY <1>3, LenLemma
<1>6. ASSUME NEW d \in Coins, F!Complete(d)
      PROVE  Chain(d, n.lots[d], i, Closed(d, i), Opened(d, i))
  <2>1. Chain(d, w.lots[d], i, Closed(d, i - 1), Opened(d, i - 1))
    <3>1. Chain(d, w.lots[d], i - 1, Closed(d, i - 1), Opened(d, i - 1))
      BY <1>6 DEF WalkInv
    <3> QED BY <1>5, <3>1, ChainLater
  <2>2. w.lots \in [Coins -> Seq(Lot)]
    BY <1>3 DEF Seen
  <2>3. CASE d # c
    <3>1. n.lots[d] = w.lots[d]
      BY <1>4, <2>2, <2>3
    <3>2. Opened(d, i) = Opened(d, i - 1) /\ Closed(d, i) = Closed(d, i - 1)
      BY <1>2, <1>3, <2>3, FillStep
    <3> QED BY <2>1, <3>1, <3>2
  <2>4. CASE d = c
    <3>1. n.lots[d] = Append(w.lots[d], lot)
      BY <1>4, <2>2, <2>4
    <3>2. Opened(d, i) = Opened(d, i - 1) + lot.sz /\ Closed(d, i) = Closed(d, i - 1)
      BY <1>2, <1>3, <2>4, FillStep
    <3>3. IsLot(d, lot, i) /\ lot.time = i
      <4>1. fills[i].sz \in Nat \ {0} /\ fills[i].px \in Nat /\ i \in 1..i
        <5>1. i \in 1..i
          BY <1>5
        <5> QED BY <1>3, <5>1, FillLemma
      <4>2. lot \in Lot
        BY <1>2, <1>5, <4>1 DEF Lot
      <4>3. lot.sz <= fills[i].sz
        BY <1>2, <4>1
      <4> QED BY <1>2, <2>4, <4>1, <4>2, <4>3 DEF IsLot
    <3>4. Chain(d, Append(w.lots[d], lot), i, Closed(d, i - 1), Opened(d, i - 1) + lot.sz)
      BY <2>1, <3>2, <3>3, ChainAppend
    <3> QED BY <3>1, <3>2, <3>4
  <2> QED BY <2>3, <2>4
<1>7. ASSUME NEW k \in 1..Len(n.trades)
      PROVE  /\ n.trades[k].close_time \in 1..i
             /\ F!Complete(n.trades[k].asset) => GoodTrip(n.trades[k])
  <2>1. w.trades[k].close_time \in 1..(i - 1)
    BY <1>4 DEF WalkInv
  <2>2. w.trades[k].close_time \in 1..i
    BY <1>5, <2>1
  <2> QED BY <1>4, <2>2 DEF WalkInv
<1>8. \A k, l \in 1..Len(n.trades) : k < l => n.trades[k].close_time < n.trades[l].close_time
  BY <1>4 DEF WalkInv
<1>9. WalkInv(n, i)
  BY <1>4, <1>6, <1>7, <1>8 DEF WalkInv
<1> QED BY <1>1, <1>9

LEMMA WalkInvClose ==
    ASSUME FillsInv, NEW i \in 1..Len(fills), NEW w, WalkInv(w, i - 1), fills[i].dir \notin F!Open
    PROVE  WalkInv(F!Walk(w, i), i)
<1>1. PICK n, m : n = F!Walk(w, i) /\ m = F!Consume(w.lots[fills[i].coin], fills[i].sz, i)
  OBVIOUS
<1>2. PICK c, z, t : c = fills[i].coin /\ z = fills[i].sz /\ t = TripOf(i, m)
  OBVIOUS
<1>3. FillsOK /\ w \in Seen
  BY DEF FillsInv, WalkInv
<1>4. /\ n \in Seen /\ m \in Match /\ n.lots = [w.lots EXCEPT ![c] = m.left]
      /\ n.trades = Append(w.trades, t) /\ t \in Trip
  BY <1>1, <1>2, <1>3, WalkClose
<1>5. i \in Nat /\ i - 1 \in Nat /\ i - 1 <= i /\ i - 1 \in 0..Len(fills) /\ i \in 0..Len(fills)
  BY <1>3, LenLemma
<1>6. c \in Coins /\ z \in Nat /\ z > 0
  <2>1. c \in Coins /\ z \in Nat \ {0}
    BY <1>2, <1>3, FillLemma
  <2> QED BY <2>1
<1>7. /\ Opened(c, i) = Opened(c, i - 1) /\ Closed(c, i) = Closed(c, i - 1) + z
      /\ Opened(c, i - 1) \in Nat /\ Closed(c, i - 1) \in Nat
  BY <1>2, <1>3, FillStep
<1>8. ASSUME F!Complete(c)
      PROVE  /\ m.matched = z /\ m.notional = Entry(c, Closed(c, i - 1), z)
             /\ m.open = F!OpenedBy(c, Closed(c, i - 1) + z)
             /\ Chain(c, m.left, i, Closed(c, i), Opened(c, i))
  <2>1. PICK a \in Nat, b \in Nat : a = Closed(c, i - 1) /\ b = Opened(c, i - 1)
    BY <1>7
  <2>2. PICK q : q = w.lots[c]
    OBVIOUS
  <2>3. Chain(c, q, i - 1, a, b)
    BY <1>6, <1>8, <2>1, <2>2 DEF WalkInv
  <2>4. a + z <= b
    <3>1. Closed(c, i) <= Opened(c, i)
      BY <1>5, <1>6, Balance DEF Opened, Closed
    <3> QED BY <1>7, <2>1, <3>1
  <2>5. m = F!Consume(q, z, i)
    BY <1>1, <1>2, <2>2
  <2>6. PICK last \in 0..Len(fills) : last = i - 1
    BY <1>5
  <2>7. /\ m.matched = z /\ m.notional = Entry(c, a, z) /\ m.open = F!OpenedBy(c, a + z)
        /\ Chain(c, m.left, last, a + z, b)
    <3>1. i \in Nat /\ Chain(c, q, last, a, b)
      BY <1>5, <2>3, <2>6
    <3> QED BY <1>3, <1>6, <2>4, <2>5, <3>1, ConsumeLemma
  <2>8. Chain(c, m.left, i, a + z, b)
    BY <1>5, <2>6, <2>7, ChainLater
  <2> QED BY <1>7, <2>1, <2>7, <2>8
<1>9. ASSUME NEW d \in Coins, F!Complete(d)
      PROVE  Chain(d, n.lots[d], i, Closed(d, i), Opened(d, i))
  <2>1. w.lots \in [Coins -> Seq(Lot)]
    BY <1>3 DEF Seen
  <2>2. CASE d # c
    <3>1. n.lots[d] = w.lots[d]
      BY <1>4, <2>1, <2>2
    <3>2. Opened(d, i) = Opened(d, i - 1) /\ Closed(d, i) = Closed(d, i - 1)
      BY <1>2, <1>3, <2>2, FillStep
    <3>3. Chain(d, w.lots[d], i - 1, Closed(d, i - 1), Opened(d, i - 1))
      BY <1>9 DEF WalkInv
    <3>4. Chain(d, w.lots[d], i, Closed(d, i - 1), Opened(d, i - 1))
      BY <1>5, <3>3, ChainLater
    <3> QED BY <3>1, <3>2, <3>4
  <2>3. CASE d = c
    <3>1. n.lots[d] = m.left
      BY <1>4, <2>1, <2>3
    <3> QED BY <1>8, <1>9, <2>3, <3>1
  <2> QED BY <2>2, <2>3
<1>10. PICK len, ts : len = Len(w.trades) /\ ts = w.trades
  OBVIOUS
<1>11. /\ len \in Nat /\ Len(n.trades) = len + 1 /\ n.trades[len + 1] = t
       /\ \A k \in 1..len : n.trades[k] = ts[k]
  <2>1. ts \in Seq(Trip)
    BY <1>3, <1>10 DEF Seen
  <2> QED BY <1>4, <1>10, <2>1
<1>12. \A k \in 1..len : /\ ts[k].close_time \in 1..(i - 1)
                         /\ F!Complete(ts[k].asset) => GoodTrip(ts[k])
  BY <1>10 DEF WalkInv
<1>13. t.close_time = i /\ t.asset = c /\ (F!Complete(c) => GoodTrip(t))
  <2>1. /\ t.close_time = i /\ t.asset = c /\ t.size = z /\ t.matched = m.matched
        /\ t.notional = m.notional /\ t.open_time = m.open
    BY <1>2 DEF TripOf
  <2> QED BY <1>8, <2>1 DEF GoodTrip
<1>14. ASSUME NEW k \in 1..(len + 1)
       PROVE  /\ n.trades[k].close_time \in 1..i
              /\ F!Complete(n.trades[k].asset) => GoodTrip(n.trades[k])
  <2>1. CASE k \in 1..len
    <3>1. ts[k].close_time \in 1..i
      BY <1>5, <1>12, <2>1
    <3> QED BY <1>11, <1>12, <2>1, <3>1
  <2>2. CASE k = len + 1
    <3>1. i \in 1..i
      BY <1>5
    <3> QED BY <1>11, <1>13, <2>2, <3>1
  <2> QED BY <1>11, <2>1, <2>2
<1>15. ASSUME NEW k \in 1..(len + 1), NEW l \in 1..(len + 1), k < l
       PROVE  n.trades[k].close_time < n.trades[l].close_time
  <2>1. k \in 1..len
    BY <1>11, <1>15
  <2>2. CASE l \in 1..len
    <3>1. ts[k].close_time < ts[l].close_time
      BY <1>10, <1>15, <2>1, <2>2 DEF WalkInv
    <3> QED BY <1>11, <2>1, <2>2, <3>1
  <2>3. CASE l = len + 1
    <3>1. PICK x \in 1..(i - 1) : x = ts[k].close_time
      BY <1>12, <2>1
    <3>2. x < i
      BY <1>5
    <3> QED BY <1>11, <1>13, <2>1, <2>3, <3>1, <3>2
  <2> QED BY <1>11, <2>2, <2>3
<1>16. WalkInv(n, i)
  BY <1>4, <1>9, <1>11, <1>14, <1>15 DEF WalkInv
<1> QED BY <1>1, <1>16

\* What is rebuilt is what the walk has after the last fill.
LEMMA WalkedLemma == ASSUME FillsInv PROVE WalkInv(F!Rebuilt, Len(fills))
<1>0. FillsOK
  BY DEF FillsInv
<1>1. PICK n : n = Len(fills) - lost
  OBVIOUS
<1>2. n \in Nat
  BY <1>0, <1>1, WalkFold
<1>3. PICK P \in [0..n -> Seen] : /\ P[0] = Start
                                  /\ \A j \in 1..n : P[j] = F!Walk(P[j - 1], lost + j)
                                  /\ F!Rebuilt = P[n]
  BY <1>0, <1>1, WalkFold
<1>4. lost \in 0..Len(fills) /\ Len(fills) \in Nat /\ lost + n = Len(fills)
  BY <1>0, <1>1, LenLemma DEF FillsOK
<1> DEFINE Q == {j \in 0..n : WalkInv(P[j], lost + j)}
<1>5. 0 \in Q
  <2>1. Start \in Seen /\ Start.trades = <<>> /\ \A c \in Coins : Start.lots[c] = <<>>
    BY DEF Start, Seen
  <2>2. ASSUME NEW c \in Coins, F!Complete(c)
        PROVE  Chain(c, Start.lots[c], lost, Closed(c, lost), Opened(c, lost))
    <3>1. F!LongAt(c, lost) = 0 /\ F!ShortAt(c, lost) = 0
      BY <2>2 DEF F!Complete
    <3>2. Closed(c, lost) = Opened(c, lost)
      <4>1. /\ Opened(c, lost) \in Nat /\ Closed(c, lost) \in Nat
            /\ Opened(c, lost) - Closed(c, lost) = F!LongAt(c, lost) + F!ShortAt(c, lost)
        BY <1>4, Balance DEF Opened, Closed
      <4> QED BY <3>1, <4>1
    <3> QED BY <2>1, <3>2, ChainEmpty
  <2>3. Len(Start.trades) = 0
    BY <2>1
  <2>4. WalkInv(Start, lost)
    BY <2>1, <2>2, <2>3 DEF WalkInv
  <2>5. lost + 0 = lost /\ 0 \in 0..n
    BY <1>2, <1>4
  <2> QED BY <1>3, <2>4, <2>5
<1>6. ASSUME NEW j \in 1..n, j - 1 \in Q PROVE j \in Q
  <2>1. PICK i, w : i = lost + j /\ w = P[j - 1]
    OBVIOUS
  <2>2. i \in 1..Len(fills) /\ i - 1 = lost + (j - 1) /\ j \in 0..n
    BY <1>2, <1>4, <2>1
  <2>3. WalkInv(w, i - 1)
    BY <1>6, <2>1, <2>2
  <2>4. WalkInv(F!Walk(w, i), i)
    BY <2>2, <2>3, WalkInvOpen, WalkInvClose
  <2>5. P[j] = F!Walk(w, i)
    BY <1>3, <2>1
  <2> QED BY <2>1, <2>2, <2>4, <2>5
<1>7. \A j \in 0..n : j \in Q
  <2> HIDE DEF Q
  <2> QED BY <1>2, <1>5, <1>6, EveryIndex
<1>8. WalkInv(P[n], lost + n)
  <2>1. n \in 0..n
    BY <1>2
  <2> QED BY <1>7, <2>1
<1> QED BY <1>3, <1>4, <1>8

\* The lots of a chain add up to its units.
LEMMA ChainSum ==
    ASSUME FillsOK, NEW c, NEW last \in 0..Len(fills), NEW a \in Nat, NEW b, NEW q,
           Chain(c, q, last, a, b)
    PROVE  b = a + F!Sum([k \in DOMAIN q |-> q[k].sz]) /\ F!Sum([k \in DOMAIN q |-> q[k].sz]) \in Nat
<1> DEFINE part(j) == [k \in 1..j |-> q[k].sz]
<1>1. PICK n : n = Len(q)
  OBVIOUS
<1>2. /\ n \in Nat /\ q \in Seq(Lot) /\ DOMAIN q = 1..n /\ EndOf(c, q, a, n) = b
      /\ \A k \in 1..n : Opened(c, q[k].time) = EndOf(c, q, a, k - 1) + q[k].sz
  BY <1>1 DEF Chain
<1>3. \A k \in 1..n : q[k].sz \in Nat
  <2>1. \A k \in 1..n : q[k] \in Lot
    BY <1>2
  <2> QED BY <2>1 DEF Lot
<1>4. ASSUME NEW j \in 0..n PROVE part(j) \in [1..j -> Nat] /\ F!Sum(part(j)) \in Nat
  <2>1. \A k \in 1..j : q[k].sz \in Nat
    BY <1>2, <1>3
  <2>2. part(j) \in [1..j -> Nat] /\ j \in Nat
    BY <1>2, <2>1
  <2> HIDE DEF part
  <2> QED BY <2>2, PrefixSum
<1> DEFINE Q == {j \in 0..n : EndOf(c, q, a, j) = a + F!Sum(part(j))}
<1>5. 0 \in Q
  <2>1. 0 \in 0..n /\ EndOf(c, q, a, 0) = a
    BY <1>2 DEF EndOf
  <2>2. part(0) \in [1..0 -> Nat]
    BY <1>4, <2>1
  <2> HIDE DEF part
  <2>3. F!Sum(part(0)) = 0
    BY <2>2, PrefixSum
  <2> QED BY <2>1, <2>3
<1>6. ASSUME NEW j \in 1..n, j - 1 \in Q PROVE j \in Q
  <2>1. j \in 0..n /\ j - 1 \in 0..n /\ j # 0
    BY <1>2
  <2>2. PICK f \in [1..j -> Nat], h \in [1..(j - 1) -> Nat] : f = part(j) /\ h = part(j - 1)
    BY <1>4, <2>1
  <2>3. F!Sum(f) = F!Sum(h) + f[j]
    <3>1. (\A k \in 1..(j - 1) : h[k] = f[k]) /\ j \in Nat /\ j > 0
      BY <1>2, <2>2
    <3> QED BY <3>1, PrefixSum
  <2>4. f[j] = q[j].sz
    BY <2>2
  <2>5. EndOf(c, q, a, j) = EndOf(c, q, a, j - 1) + q[j].sz
    BY <1>2, <2>1 DEF EndOf
  <2>6. PICK s \in Nat, x \in Nat : s = F!Sum(h) /\ x = q[j].sz
    BY <1>3, <1>4, <2>1, <2>2
  <2>7. EndOf(c, q, a, j - 1) = a + s
    BY <1>6, <2>2, <2>6
  <2>8. EndOf(c, q, a, j) = a + F!Sum(part(j))
    <3>1. F!Sum(part(j)) = s + x
      BY <2>2, <2>3, <2>4, <2>6
    <3> HIDE DEF part
    <3> QED BY <2>5, <2>6, <2>7, <3>1
  <2> HIDE DEF part
  <2> QED BY <2>1, <2>8
<1>7. \A j \in 0..n : j \in Q
  <2> HIDE DEF Q
  <2> QED BY <1>2, <1>5, <1>6, EveryIndex
<1>8. n \in 0..n /\ part(n) = [k \in DOMAIN q |-> q[k].sz]
  BY <1>2
<1>9. b = a + F!Sum(part(n)) /\ F!Sum(part(n)) \in Nat
  <2> HIDE DEF part
  <2> QED BY <1>2, <1>4, <1>7, <1>8
<1> HIDE DEF part
<1> QED BY <1>8, <1>9

LEMMA LotsLemma == ASSUME FillsInv PROVE F!LotsAreThePosition
<1>0. FillsOK /\ Len(fills) \in 0..Len(fills)
  BY LenLemma DEF FillsInv
<1>1. ASSUME NEW c \in Coins, F!Complete(c), NEW q, q = F!Rebuilt.lots[c]
      PROVE  F!Sum([i \in DOMAIN q |-> q[i].sz]) = F!Long(c) + F!Short(c)
  <2>1. PICK a \in Nat, b \in Nat : a = Closed(c, Len(fills)) /\ b = Opened(c, Len(fills))
    BY <1>0, SizeType DEF Opened, Closed
  <2>2. Chain(c, q, Len(fills), a, b)
    BY <1>1, <2>1, WalkedLemma DEF WalkInv
  <2>3. b = a + F!Sum([i \in DOMAIN q |-> q[i].sz]) /\ F!Sum([i \in DOMAIN q |-> q[i].sz]) \in Nat
    BY <1>0, <2>2, ChainSum
  <2>4. b - a = F!Long(c) + F!Short(c)
    BY <1>0, <2>1, Balance DEF Opened, Closed, F!Long, F!Short
  <2> QED BY <2>3, <2>4
<1> QED BY <1>1 DEF F!LotsAreThePosition

LEMMA EntryLemma == ASSUME FillsInv PROVE F!EntryIsFirstIn
<1>1. PICK ts : ts = F!Rebuilt.trades
  OBVIOUS
<1>2. ts \in Seq(Trip) /\ \A k \in 1..Len(ts) : F!Complete(ts[k].asset) => GoodTrip(ts[k])
  BY <1>1, WalkedLemma DEF WalkInv, Seen
<1>3. ASSUME NEW k \in DOMAIN ts, F!Complete(ts[k].asset), NEW t, t = ts[k],
             NEW prior, prior = F!SizeOf(t.asset, F!Close, t.close_time - 1)
      PROVE  /\ t.matched = t.size
             /\ t.notional = F!Sum([u \in 1..t.size |-> fills[F!OpenedBy(t.asset, prior + u)].px])
             /\ t.open_time = F!OpenedBy(t.asset, prior + t.size)
  <2>1. GoodTrip(t)
    BY <1>2, <1>3
  <2> QED BY <1>3, <2>1 DEF GoodTrip, Entry, PriceOf, Closed
<1> QED BY <1>1, <1>3 DEF F!EntryIsFirstIn

(***************************************************************************)
(* The report: the closes of a window, newest first.                       *)
(***************************************************************************)
Put(out, t, since, until) == IF t.close_time \in since..until THEN <<t>> \o out ELSE out

Picked(ts, since, until, g) ==
    g = [s \in SUBSET (DOMAIN ts) |->
            IF s = {} THEN <<>>
            ELSE Put(g[s \ {Highest(s)}], ts[Highest(s)], since, until)]

LEMMA PutType ==
    ASSUME NEW out \in Seq(Trip), NEW t \in Trip, NEW since, NEW until
    PROVE  /\ Put(out, t, since, until) \in Seq(Trip)
           /\ t.close_time \in since..until =>
                /\ Len(Put(out, t, since, until)) = Len(out) + 1
                /\ Put(out, t, since, until)[1] = t
                /\ \A k \in 1..Len(out) : Put(out, t, since, until)[k + 1] = out[k]
           /\ t.close_time \notin since..until => Put(out, t, since, until) = out
<1>1. PICK o : o = <<t>> \o out
  OBVIOUS
<1>2. /\ o \in Seq(Trip) /\ Len(o) = Len(out) + 1 /\ o[1] = t
      /\ \A k \in 1..Len(out) : o[k + 1] = out[k]
  BY <1>1
<1> QED BY <1>1, <1>2 DEF Put

Picking(ts, since, until, P) ==
    /\ P \in [0..Len(ts) -> Seq(Trip)]
    /\ P[0] = <<>>
    /\ \A j \in 1..Len(ts) : P[j] = Put(P[j - 1], ts[j], since, until)
    /\ F!InWindow(ts, since, until) = P[Len(ts)]

LEMMA WindowFold ==
    ASSUME NEW ts \in Seq(Trip), NEW since, NEW until
    PROVE  \E P : Picking(ts, since, until, P)
<1> DEFINE n    == Len(ts)
           V    == Seq(Trip)
           step == [x \in (1..n) \X V |-> Put(x[2], ts[x[1]], since, until)]
           all  == CHOOSE g : Picked(ts, since, until, g)
<1>0. n \in Nat /\ DOMAIN ts = 1..n /\ \A j \in 1..n : ts[j] \in Trip
  OBVIOUS
<1>1. step \in [(1..n) \X V -> V] /\ <<>> \in V
  <2>1. \A j \in 1..n, out \in V : Put(out, ts[j], since, until) \in V
    BY <1>0, PutType
  <2> QED BY <2>1
<1>2. PICK g \in [SUBSET (1..n) -> V] : FoldsTo(n, <<>>, step, g)
  <2> HIDE DEF step, n, V
  <2> QED BY <1>0, <1>1, FoldExists
<1>3. Picked(ts, since, until, g)
  <2>1. ASSUME NEW s \in SUBSET (1..n)
        PROVE  g[s] = IF s = {} THEN <<>>
                      ELSE Put(g[s \ {Highest(s)}], ts[Highest(s)], since, until)
    <3>1. CASE s = {}
      BY <1>2, <3>1 DEF FoldsTo
    <3>2. CASE s # {}
      <4> HIDE DEF V
      <4>1. Highest(s) \in 1..n /\ g[s \ {Highest(s)}] \in V
        BY <1>0, <3>2, HighestLemma
      <4>2. g[s] = step[<<Highest(s), g[s \ {Highest(s)}]>>]
        BY <1>2, <3>2 DEF FoldsTo
      <4> QED BY <3>2, <4>1, <4>2
    <3> QED BY <3>1, <3>2
  <2> HIDE DEF V, n, step
  <2>2. g = [s \in SUBSET (1..n) |-> g[s]]
    OBVIOUS
  <2>3. g = [s \in SUBSET (1..n) |->
               IF s = {} THEN <<>> ELSE Put(g[s \ {Highest(s)}], ts[Highest(s)], since, until)]
    BY <2>1, <2>2, Zenon
  <2> QED BY <1>0, <2>3 DEF Picked
<1>4. Picked(ts, since, until, all)
  BY <1>3
<1>5. F!InWindow(ts, since, until) = all[1..n]
  <2>1. F!InWindow(ts, since, until) = all[DOMAIN ts]
    BY DEF F!InWindow, F!FoldLeft, F!MapThenFoldSet, F!Max, Picked, Highest, Put
  <2> HIDE DEF all, n
  <2> QED BY <1>0, <2>1
<1> HIDE DEF all, step, n, V
<1>6. \A s \in SUBSET (1..n) :
        all[s] = IF s = {} THEN <<>> ELSE Put(all[s \ {Highest(s)}], ts[Highest(s)], since, until)
  <2>1. all = [s \in SUBSET (1..n) |->
                 IF s = {} THEN <<>> ELSE Put(all[s \ {Highest(s)}], ts[Highest(s)], since, until)]
    BY <1>0, <1>4 DEF Picked
  <2> QED BY <2>1, Zenon
<1>7. all[{}] = <<>>
  <2>1. {} \in SUBSET (1..n)
    OBVIOUS
  <2> QED BY <1>6, <2>1
<1>8. ASSUME NEW s \in SUBSET (1..n), s # {}, all[s \ {Highest(s)}] \in V
      PROVE  all[s] = step[<<Highest(s), all[s \ {Highest(s)}]>>]
  <2>1. Highest(s) \in 1..n
    BY <1>0, <1>8, HighestLemma
  <2>2. all[s] = Put(all[s \ {Highest(s)}], ts[Highest(s)], since, until)
    BY <1>6, <1>8
  <2> QED BY <1>8, <2>1, <2>2 DEF step
<1>9. PICK P \in [0..n -> V] :
        /\ P[0] = <<>>
        /\ \A j \in 1..n : P[j] = step[<<j, P[j - 1]>>]
        /\ all[1..n] = P[n]
  <2>1. \A s \in SUBSET (1..n) : s # {} /\ all[s \ {Highest(s)}] \in V =>
            all[s] = step[<<Highest(s), all[s \ {Highest(s)}]>>]
    BY <1>8
  <2>2. Recurs(n, V, <<>>, step, all)
    BY <1>0, <1>1, <1>7, <2>1 DEF Recurs
  <2> QED BY <2>2, Prefixes
<1>10. ASSUME NEW j \in 1..n PROVE P[j] = Put(P[j - 1], ts[j], since, until)
  <2>1. j - 1 \in 0..n
    BY <1>0
  <2> QED BY <1>9, <2>1 DEF step
<1>11. \A j \in 1..n : P[j] = Put(P[j - 1], ts[j], since, until)
  BY <1>10
<1>12. F!InWindow(ts, since, until) = P[n]
  BY <1>5, <1>9
<1> QED BY <1>9, <1>11, <1>12 DEF Picking, n, V

\* The close times of the trades ascend, so those of the window descend.
Ascending(ts) == \A k, l \in 1..Len(ts) : k < l => ts[k].close_time < ts[l].close_time

IsPick(out, ts, last, since, until) ==
    /\ out \in Seq(Trip)
    /\ \A i \in 1..Len(out) : \E k \in 1..last : out[i] = ts[k] /\ ts[k].close_time \in since..until
    /\ \A k \in 1..last : ts[k].close_time \in since..until => \E i \in 1..Len(out) : out[i] = ts[k]
    /\ \A i, l \in 1..Len(out) : i < l => out[i].close_time > out[l].close_time

LEMMA WindowLemma ==
    ASSUME NEW ts \in Seq(Trip), Ascending(ts), NEW since, NEW until
    PROVE  IsPick(F!InWindow(ts, since, until), ts, Len(ts), since, until)
<1>1. PICK n : n = Len(ts)
  OBVIOUS
<1>2. n \in Nat /\ \A j \in 1..n : ts[j] \in Trip
  BY <1>1
<1>3. PICK P : Picking(ts, since, until, P)
  BY WindowFold
<1>4. /\ P \in [0..n -> Seq(Trip)] /\ P[0] = <<>>
      /\ \A j \in 1..n : P[j] = Put(P[j - 1], ts[j], since, until)
      /\ F!InWindow(ts, since, until) = P[n]
  BY <1>1, <1>3 DEF Picking
<1> DEFINE Q == {j \in 0..n : IsPick(P[j], ts, j, since, until)}
<1>5. 0 \in Q
  <2>1. IsPick(<<>>, ts, 0, since, until)
    BY DEF IsPick
  <2> QED BY <1>2, <1>4, <2>1
<1>6. ASSUME NEW j \in 1..n, j - 1 \in Q PROVE j \in Q
  <2>1. PICK old, new, t : old = P[j - 1] /\ new = P[j] /\ t = ts[j]
    OBVIOUS
  <2>2. /\ t \in Trip /\ new = Put(old, t, since, until)
        /\ IsPick(old, ts, j - 1, since, until) /\ j \in 0..n /\ j \in Nat
    BY <1>2, <1>4, <1>6, <2>1
  <2>3. old \in Seq(Trip) /\ new \in Seq(Trip)
    BY <2>2, PutType DEF IsPick
  <2>4. CASE t.close_time \notin since..until
    <3>1. new = old
      BY <2>2, <2>3, <2>4, PutType
    <3>2. \A k \in 1..j : k \in 1..(j - 1) \/ k = j
      BY <2>2
    <3>3. \A k \in 1..(j - 1) : k \in 1..j
      BY <2>2
    <3>4. IsPick(new, ts, j, since, until)
      BY <2>1, <2>2, <2>4, <3>1, <3>2, <3>3 DEF IsPick
    <3> QED BY <2>1, <2>2, <3>4
  <2>5. CASE t.close_time \in since..until
    <3>1. PICK m \in Nat : m = Len(old)
      BY <2>3
    <3>2. /\ Len(new) = m + 1 /\ new[1] = t /\ \A k \in 1..m : new[k + 1] = old[k]
      BY <2>2, <2>3, <2>5, <3>1, PutType
    <3>3. ASSUME NEW i \in 1..(m + 1) PROVE i = 1 \/ (i - 1 \in 1..m /\ new[i] = old[i - 1])
      BY <3>1, <3>2
    <3>4. ASSUME NEW i \in 1..(m + 1)
          PROVE  \E k \in 1..j : new[i] = ts[k] /\ ts[k].close_time \in since..until
      <4>1. CASE i = 1
        <5>1. j \in 1..j
          BY <2>2
        <5> QED BY <2>1, <2>5, <3>2, <4>1, <5>1
      <4>2. CASE i - 1 \in 1..m /\ new[i] = old[i - 1]
        <5>1. PICK k \in 1..(j - 1) : old[i - 1] = ts[k] /\ ts[k].close_time \in since..until
          BY <2>2, <3>1, <4>2 DEF IsPick
        <5>2. k \in 1..j
          BY <2>2
        <5> QED BY <4>2, <5>1, <5>2
      <4> QED BY <3>3, <4>1, <4>2
    <3>5. ASSUME NEW k \in 1..j, ts[k].close_time \in since..until
          PROVE  \E i \in 1..(m + 1) : new[i] = ts[k]
      <4>1. CASE k = j
        <5>1. 1 \in 1..(m + 1)
          OBVIOUS
        <5> QED BY <2>1, <3>2, <4>1, <5>1
      <4>2. CASE k # j
        <5>1. k \in 1..(j - 1)
          BY <2>2, <4>2
        <5>2. PICK i \in 1..m : old[i] = ts[k]
          BY <2>2, <3>1, <3>5, <5>1 DEF IsPick
        <5>3. i + 1 \in 1..(m + 1) /\ new[i + 1] = old[i]
          BY <3>2
        <5> QED BY <5>2, <5>3
      <4> QED BY <4>1, <4>2
    <3>6. ASSUME NEW i \in 1..(m + 1), NEW l \in 1..(m + 1), i < l
          PROVE  new[i].close_time > new[l].close_time
      <4>1. l - 1 \in 1..m /\ new[l] = old[l - 1]
        BY <3>3, <3>6
      <4>2. CASE i = 1
        <5>1. PICK k \in 1..(j - 1) : old[l - 1] = ts[k]
          BY <2>2, <3>1, <4>1 DEF IsPick
        <5>2. k \in 1..n /\ k < j
          BY <1>2
        <5>3. ts[k].close_time < ts[j].close_time
          BY <1>1, <5>2 DEF Ascending
        <5>4. ts[k].close_time \in Nat /\ ts[j].close_time \in Nat
          BY <1>2, <5>2 DEF Trip
        <5> QED BY <2>1, <3>2, <4>1, <4>2, <5>1, <5>3, <5>4
      <4>3. CASE i - 1 \in 1..m /\ new[i] = old[i - 1]
        <5>1. i - 1 < l - 1
          BY <3>6
        <5> QED BY <2>2, <3>1, <4>1, <4>3, <5>1 DEF IsPick
      <4> QED BY <3>3, <4>2, <4>3
    <3>7. IsPick(new, ts, j, since, until)
      BY <2>3, <3>2, <3>4, <3>5, <3>6 DEF IsPick
    <3> QED BY <2>1, <2>2, <3>7
  <2> QED BY <2>4, <2>5
<1>7. \A j \in 0..n : j \in Q
  <2> HIDE DEF Q
  <2> QED BY <1>2, <1>5, <1>6, EveryIndex
<1>8. IsPick(P[n], ts, n, since, until)
  <2>1. n \in 0..n
    BY <1>2
  <2> QED BY <1>7, <2>1
<1> QED BY <1>1, <1>4, <1>8

\* What is shown of the window, and what of it is not.
NewestOf(ts, since, until, cap) ==
    LET out  == F!Newest(ts, since, until, cap)
        some == {t \in F!ToSet(ts) : t.close_time \in since..until}
    IN  /\ F!ToSet(out) \subseteq some
        /\ \A i \in 1..(Len(out) - 1) : out[i].close_time > out[i + 1].close_time
        /\ \A t \in some \ F!ToSet(out) :
                /\ Len(out) = cap
                /\ \A i \in DOMAIN out : out[i].close_time > t.close_time

LEMMA NewestLemma ==
    ASSUME NEW ts \in Seq(Trip), Ascending(ts), NEW since, NEW until, NEW cap \in Nat
    PROVE  NewestOf(ts, since, until, cap)
<1>0. PICK out, some : /\ out = F!Newest(ts, since, until, cap)
                       /\ some = {t \in F!ToSet(ts) : t.close_time \in since..until}
  OBVIOUS
<1>1. PICK kept : kept = F!InWindow(ts, since, until)
  OBVIOUS
<1>2. IsPick(kept, ts, Len(ts), since, until)
  BY <1>1, WindowLemma
<1>3. PICK n \in Nat : n = Len(kept)
  BY <1>2 DEF IsPick
<1>4. /\ kept \in Seq(Trip) /\ DOMAIN kept = 1..n
      /\ \A i, l \in 1..n : i < l => kept[i].close_time > kept[l].close_time
  BY <1>2, <1>3 DEF IsPick
<1>5. PICK m \in Nat : /\ m <= n /\ out \in Seq(Trip) /\ Len(out) = m /\ DOMAIN out = 1..m
                       /\ \A i \in 1..m : out[i] = kept[i]
                       /\ m < n => m = cap
  <2>1. CASE cap = 0 \/ cap > n
    <3>1. out = kept
      BY <1>0, <1>1, <1>3, <2>1 DEF F!Newest
    <3> QED BY <1>3, <1>4, <3>1
  <2>2. CASE ~ (cap = 0 \/ cap > n)
    <3>1. out = SubSeq(kept, 1, cap)
      BY <1>0, <1>1, <1>3, <2>2 DEF F!Newest
    <3>2. /\ out \in Seq(Trip) /\ Len(out) = cap /\ \A i \in 1..cap : out[i] = kept[i]
      BY <1>3, <1>4, <2>2, <3>1
    <3>3. cap <= n /\ DOMAIN out = 1..cap
      BY <2>2, <3>2
    <3> QED BY <3>2, <3>3
  <2> QED BY <2>1, <2>2
<1>6. F!ToSet(out) \subseteq some
  <2>1. ASSUME NEW i \in 1..m PROVE out[i] \in some
    <3>1. i \in 1..Len(kept) /\ out[i] = kept[i]
      BY <1>3, <1>5
    <3>2. PICK k \in 1..Len(ts) : kept[i] = ts[k] /\ ts[k].close_time \in since..until
      BY <1>2, <3>1 DEF IsPick
    <3>3. ts[k] \in F!ToSet(ts)
      BY DEF F!ToSet
    <3> QED BY <1>0, <3>1, <3>2, <3>3
  <2> QED BY <1>5, <2>1 DEF F!ToSet
<1>7. ASSUME NEW i \in 1..(m - 1) PROVE out[i].close_time > out[i + 1].close_time
  <2>1. i \in 1..n /\ i + 1 \in 1..n /\ i < i + 1 /\ i \in 1..m /\ i + 1 \in 1..m
    BY <1>5
  <2> QED BY <1>4, <1>5, <2>1
<1>8. ASSUME NEW t \in some \ F!ToSet(out)
      PROVE  m = cap /\ \A i \in 1..m : out[i].close_time > t.close_time
  <2>1. PICK k \in 1..Len(ts) : t = ts[k] /\ ts[k].close_time \in since..until
    BY <1>0 DEF F!ToSet
  <2>2. PICK l \in 1..n : kept[l] = t
    BY <1>2, <1>3, <2>1 DEF IsPick
  <2>3. ~ l \in 1..m
    <3>1. l \in 1..m => out[l] = t /\ out[l] \in F!ToSet(out)
      BY <1>5, <2>2 DEF F!ToSet
    <3> QED BY <3>1
  <2>4. m < l /\ m < n
    BY <1>5, <2>3
  <2>5. \A i \in 1..m : out[i] = kept[i] /\ i \in 1..n /\ i < l
    BY <1>5, <2>4
  <2> QED BY <1>4, <1>5, <2>2, <2>4, <2>5
<1> QED BY <1>0, <1>5, <1>6, <1>7, <1>8 DEF NewestOf

LEMMA ReportLemma == ASSUME FillsInv PROVE F!ReportIsNewest
<1>1. PICK ts : ts = F!Rebuilt.trades
  OBVIOUS
<1>2. ts \in Seq(Trip) /\ Ascending(ts)
  BY <1>1, WalkedLemma DEF WalkInv, Seen, Ascending
<1>3. \A cap \in 0..Len(ts) : cap \in Nat
  BY <1>2
<1>4. \A since, until \in 1..Len(fills), cap \in 0..Len(ts) : NewestOf(ts, since, until, cap)
  <2> SUFFICES ASSUME NEW since \in 1..Len(fills), NEW until \in 1..Len(fills),
                      NEW cap \in 0..Len(ts)
               PROVE  NewestOf(ts, since, until, cap)
    OBVIOUS
  <2>1. PICK n \in Nat : n = cap
    BY <1>3
  <2>2. NewestOf(ts, since, until, n)
    BY <1>2, NewestLemma
  <2> QED BY <2>1, <2>2
<1> QED BY <1>1, <1>4 DEF F!ReportIsNewest, NewestOf

\* Of a coin that was flat where the answered fills begin, the lots still open
\* when the walk over the fills ends are the position the wallet holds.
THEOREM LotsTheorem == Spec => []LotsAreThePosition
BY FillsAlways, LotsLemma, PTL DEF LotsAreThePosition

\* Its k-th closed unit is its k-th opened one: the entry of a trade is the price
\* of the units it closes, and its opening time that of the last of them.
THEOREM EntryTheorem == Spec => []EntryIsFirstIn
BY FillsAlways, EntryLemma, PTL DEF EntryIsFirstIn

\* Whatever the window and the cap, the trades reported are the newest closes of
\* the window, newest first.
THEOREM ReportNewestTheorem == Spec => []ReportIsNewest
BY FillsAlways, ReportLemma, PTL DEF ReportIsNewest
=============================================================================
