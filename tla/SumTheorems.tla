----------------------------- MODULE SumTheorems -----------------------------
(***************************************************************************)
(* Facts about folds: sums over finite sets, for the modules that count    *)
(* money, and folds along a sequence, for the one that replays fills.      *)
(***************************************************************************)
EXTENDS Integers, FiniteSetTheorems, WellFoundedInduction, TLAPS

\* A set of natural numbers has a smallest.
LEMMA Smallest ==
    ASSUME NEW T \in SUBSET Nat, T # {}
    PROVE  \E x \in T : \A y \in T : x <= y
<1>1. PICK x \in T : \A y \in T : ~ (<<y, x>> \in OpToRel(<, Nat))
  BY NatLessThanWellFounded, WFMin
<1>2. \A y \in T : ~ (y < x)
  BY <1>1 DEF OpToRel
<1> QED BY <1>2

(***************************************************************************)
(* Sums.  The folds of the community modules run over a domain, one element*)
(* at a time: a recursive function on the sets of what is still to be      *)
(* added.  It is defined, and adds up, where the domain is finite.         *)
(***************************************************************************)
Some(s) == CHOOSE x \in s : TRUE

\* One step of the sum over a set, by the sum over the rest of it.
AddStep(f, g, s) == IF s = {} THEN 0 ELSE f[Some(s)] + g[s \ {Some(s)}]

Adds(f, g) == g = [s \in SUBSET (DOMAIN f) |-> AddStep(f, g, s)]

PartSums(f) == CHOOSE g : Adds(f, g)

\* What is left of a finite set without one of its elements.
LEMMA Rest ==
    ASSUME NEW S, IsFiniteSet(S), NEW s \in SUBSET S, s # {}
    PROVE  /\ Some(s) \in s /\ s \ {Some(s)} \in SUBSET S
           /\ Cardinality(s) \in Nat \ {0}
           /\ Cardinality(s \ {Some(s)}) = Cardinality(s) - 1
<1>1. Some(s) \in s
  BY DEF Some
<1>2. IsFiniteSet(s)
  BY FS_Subset
<1>3. Cardinality(s) \in Nat /\ Cardinality(s) # 0
  BY <1>2, FS_CardinalityType, FS_EmptySet
<1>4. Cardinality(s \ {Some(s)}) = Cardinality(s) - 1
  BY <1>1, <1>2, FS_RemoveElement
<1> QED BY <1>1, <1>3, <1>4

\* A set of sets that has a set whenever it has the smaller ones has every subset
\* of a finite set.
LEMMA EverySubset ==
    ASSUME NEW S, IsFiniteSet(S), NEW P,
           \A s \in SUBSET S : (\A t \in SUBSET s : t # s => t \in P) => s \in P
    PROVE  \A s \in SUBSET S : s \in P
<1> DEFINE Bad == {s \in SUBSET S : s \notin P}
           T   == {Cardinality(s) : s \in Bad}
<1> SUFFICES ASSUME Bad # {} PROVE FALSE
  OBVIOUS
<1>0. \A s \in SUBSET S : IsFiniteSet(s) /\ Cardinality(s) \in Nat
  BY FS_Subset, FS_CardinalityType
<1>1. T \in SUBSET Nat /\ T # {}
  BY <1>0
<1>2. PICK n \in T : \A y \in T : n <= y
  BY <1>1, Smallest
<1>3. PICK s \in Bad : Cardinality(s) = n
  BY <1>2
<1>4. PICK t \in SUBSET s : t # s /\ t \notin P
  BY <1>3
<1>5. t \in Bad
  BY <1>3, <1>4
<1>6. n <= Cardinality(t)
  BY <1>2, <1>5
<1>7. /\ Cardinality(t) <= Cardinality(s) /\ Cardinality(t) # Cardinality(s)
      /\ Cardinality(t) \in Nat /\ Cardinality(s) \in Nat
  BY <1>0, <1>3, <1>4, <1>5, FS_Subset
<1> QED BY <1>3, <1>6, <1>7

\* Or that has the empty set, and each set of which it has the rest.
LEMMA EveryRest ==
    ASSUME NEW S, IsFiniteSet(S), NEW P, {} \in P,
           \A s \in SUBSET S : s # {} /\ s \ {Some(s)} \in P => s \in P
    PROVE  \A s \in SUBSET S : s \in P
<1>1. ASSUME NEW s \in SUBSET S, \A t \in SUBSET s : t # s => t \in P PROVE s \in P
  <2>1. CASE s = {}
    BY <2>1
  <2>2. CASE s # {}
    <3>1. Some(s) \in s
      BY <2>2, Rest
    <3>2. s \ {Some(s)} \in SUBSET s /\ s \ {Some(s)} # s
      BY <3>1
    <3> QED BY <1>1, <2>2, <3>2
  <2> QED BY <2>1, <2>2
<1> QED BY <1>1, EverySubset

\* The recursion of the fold has a solution: one on the sets of at most n
\* elements gives one on the sets of at most n + 1.
LEMMA SumsExist == ASSUME NEW f, IsFiniteSet(DOMAIN f) PROVE \E g : Adds(f, g)
<1> DEFINE S        == DOMAIN f
           Level(n) == {s \in SUBSET S : Cardinality(s) <= n}
           Has(n)   == \E g : g = [s \in Level(n) |-> AddStep(f, g, s)]
           Bad      == {n \in Nat : ~ Has(n)}
<1>1. \A s \in SUBSET S : Cardinality(s) \in Nat /\ (Cardinality(s) = 0 <=> s = {})
  BY FS_Subset, FS_CardinalityType, FS_EmptySet
<1>2. Has(0)
  <2> DEFINE g == [s \in Level(0) |-> 0]
  <2>1. \A s \in Level(0) : s = {}
    BY <1>1
  <2>2. \A s \in Level(0) : AddStep(f, g, s) = 0
    BY <2>1 DEF AddStep
  <2>3. g = [s \in Level(0) |-> AddStep(f, g, s)]
    BY <2>2, Zenon
  <2> QED BY <2>3
<1>3. ASSUME NEW n \in Nat \ {0}, Has(n - 1) PROVE Has(n)
  <2>1. PICK g : g = [s \in Level(n - 1) |-> AddStep(f, g, s)]
    BY <1>3
  <2> DEFINE h == [s \in Level(n) |-> AddStep(f, g, s)]
  <2>2. ASSUME NEW s \in Level(n), s # {} PROVE h[s \ {Some(s)}] = g[s \ {Some(s)}]
    <3> DEFINE t == s \ {Some(s)}
    <3>1. s \in SUBSET S /\ Cardinality(s) <= n
      OBVIOUS
    <3>2. t \in SUBSET S /\ Cardinality(t) = Cardinality(s) - 1 /\ Cardinality(s) \in Nat
      BY <2>2, <3>1, Rest
    <3> HIDE DEF t
    <3>3. t \in Level(n - 1) /\ t \in Level(n)
      BY <3>1, <3>2
    <3>4. h[t] = AddStep(f, g, t) /\ g[t] = AddStep(f, g, t)
      <4> HIDE DEF Level
      <4> QED BY <2>1, <3>3
    <3> QED BY <3>4 DEF t
  <2>3. \A s \in Level(n) : AddStep(f, g, s) = AddStep(f, h, s)
    <3> HIDE DEF h, Level
    <3> QED BY <2>2 DEF AddStep
  <2>4. h = [s \in Level(n) |-> AddStep(f, h, s)]
    <3>1. h = [s \in Level(n) |-> AddStep(f, g, s)]
      OBVIOUS
    <3> HIDE DEF h, Level
    <3> QED BY <2>3, <3>1, Zenon
  <2> QED BY <2>4
<1>4. Bad = {}
  <2> SUFFICES ASSUME Bad # {} PROVE FALSE
    OBVIOUS
  <2> HIDE DEF Has
  <2>1. Bad \in SUBSET Nat
    OBVIOUS
  <2>2. PICK n \in Bad : \A y \in Bad : n <= y
    BY <2>1, Smallest
  <2>3. n \in Nat \ {0} /\ ~ Has(n)
    BY <1>2
  <2>4. n - 1 \in Nat /\ ~ (n <= n - 1)
    BY <2>3
  <2>5. Has(n - 1)
    BY <2>2, <2>4
  <2> QED BY <1>3, <2>3, <2>5
<1>5. Cardinality(S) \in Nat /\ \A s \in SUBSET S : Cardinality(s) <= Cardinality(S)
  BY FS_Subset, FS_CardinalityType
<1>6. Level(Cardinality(S)) = SUBSET S
  BY <1>5
<1>7. Has(Cardinality(S))
  <2> HIDE DEF Has
  <2> QED BY <1>4, <1>5
<1>8. PICK g : g = [s \in Level(Cardinality(S)) |-> AddStep(f, g, s)]
  BY <1>7
<1>9. g = [s \in SUBSET S |-> AddStep(f, g, s)]
  <2> HIDE DEF Level
  <2> QED BY <1>6, <1>8
<1> QED BY <1>9 DEF Adds

\* So the sum over a set is the sum over the rest of it and one more.
LEMMA SumStep ==
    ASSUME NEW f, IsFiniteSet(DOMAIN f)
    PROVE  \A s \in SUBSET (DOMAIN f) : PartSums(f)[s] = AddStep(f, PartSums(f), s)
<1>1. Adds(f, PartSums(f))
  BY SumsExist DEF PartSums
<1> DEFINE g == PartSums(f)
<1>2. g = [s \in SUBSET (DOMAIN f) |-> AddStep(f, g, s)]
  BY <1>1 DEF Adds
<1> HIDE DEF g
<1>3. \A s \in SUBSET (DOMAIN f) : g[s] = AddStep(f, g, s)
  BY <1>2, Zenon
<1> QED BY <1>3 DEF g

\* A sum of integers is an integer.
LEMMA SumsInt ==
    ASSUME NEW S, IsFiniteSet(S), NEW f \in [S -> Int]
    PROVE  \A s \in SUBSET S : PartSums(f)[s] \in Int
<1> DEFINE g == PartSums(f)
           P == {s \in SUBSET S : g[s] \in Int}
<1>1. \A s \in SUBSET S : g[s] = AddStep(f, g, s)
  BY SumStep
<1> HIDE DEF g
<1>2. {} \in P
  <2>1. {} \in SUBSET S
    OBVIOUS
  <2>2. AddStep(f, g, {}) = 0
    BY DEF AddStep
  <2>3. g[{}] \in Int
    BY <1>1, <2>1, <2>2
  <2> QED BY <2>1, <2>3
<1>3. ASSUME NEW s \in SUBSET S, s # {}, s \ {Some(s)} \in P PROVE s \in P
  <2>1. g[s] = f[Some(s)] + g[s \ {Some(s)}] /\ Some(s) \in s
    BY <1>1, <1>3, Rest DEF AddStep
  <2> QED BY <1>3, <2>1
<1>4. \A s \in SUBSET S : s \in P
  <2> HIDE DEF P
  <2> QED BY <1>2, <1>3, EveryRest
<1>5. \A s \in SUBSET S : g[s] \in Int
  BY <1>4
<1> QED BY <1>5 DEF g

\* Where every element of two functions meets a linear bound, so do their sums.
LEMMA SumsBound ==
    ASSUME NEW S, IsFiniteSet(S), NEW f \in [S -> Int], NEW h \in [S -> Int],
           NEW a \in Int, NEW b \in Int, NEW w \in Int,
           \A i \in S : a * f[i] + b * h[i] <= w
    PROVE  a * PartSums(f)[S] + b * PartSums(h)[S] <= w * Cardinality(S)
<1> DEFINE F == PartSums(f)
           H == PartSums(h)
           P == {s \in SUBSET S : a * F[s] + b * H[s] <= w * Cardinality(s)}
<1>1. /\ \A s \in SUBSET S : F[s] = AddStep(f, F, s) /\ F[s] \in Int
      /\ \A s \in SUBSET S : H[s] = AddStep(h, H, s) /\ H[s] \in Int
  BY SumStep, SumsInt
<1> HIDE DEF F, H
<1>3. {} \in P
  <2>1. F[{}] = 0 /\ H[{}] = 0 /\ Cardinality({}) = 0
    BY <1>1, FS_EmptySet DEF AddStep
  <2>2. a * 0 + b * 0 <= w * 0
    OBVIOUS
  <2>3. a * F[{}] + b * H[{}] <= w * Cardinality({})
    BY <2>1, <2>2
  <2>4. {} \in SUBSET S
    OBVIOUS
  <2> QED BY <2>3, <2>4, Zenon
<1>4. ASSUME NEW s \in SUBSET S, s # {}, s \ {Some(s)} \in P PROVE s \in P
  <2> DEFINE x == Some(s)
             t == s \ {x}
  <2>1. x \in S /\ t \in SUBSET S /\ Cardinality(s) \in Nat /\ Cardinality(t) = Cardinality(s) - 1
    BY <1>4, Rest
  <2>2. F[s] = f[x] + F[t] /\ H[s] = h[x] + H[t]
    BY <1>1, <1>4 DEF AddStep
  <2>3. a * F[t] + b * H[t] <= w * Cardinality(t) /\ a * f[x] + b * h[x] <= w
    BY <1>4, <2>1
  <2>4. f[x] \in Int /\ h[x] \in Int /\ F[t] \in Int /\ H[t] \in Int
    BY <1>1, <2>1
  <2> HIDE DEF x, t
  <2>5. a * (f[x] + F[t]) + b * (h[x] + H[t]) <= w * Cardinality(s)
    <3>1. PICK c \in Int : c = Cardinality(t)
      BY <2>1
    <3>0. Cardinality(s) = c + 1
      BY <2>1, <3>1
    <3>2. a * (f[x] + F[t]) = a * f[x] + a * F[t] /\ b * (h[x] + H[t]) = b * h[x] + b * H[t]
          /\ w * (c + 1) = w * c + w
      BY <2>4, <3>1
    <3>3. a * f[x] \in Int /\ a * F[t] \in Int /\ b * h[x] \in Int /\ b * H[t] \in Int /\ w * c \in Int
      BY <2>4, <3>1
    <3> QED BY <2>3, <3>0, <3>1, <3>2, <3>3
  <2> QED BY <2>2, <2>5
<1>5. \A s \in SUBSET S : s \in P
  <2> HIDE DEF P
  <2> QED BY <1>3, <1>4, EveryRest
<1>6. S \in P
  BY <1>5
<1> QED BY <1>6 DEF F, H

\* It does not matter which element is added last.
LEMMA SumsWithout ==
    ASSUME NEW S, IsFiniteSet(S), NEW f \in [S -> Int]
    PROVE  \A s \in SUBSET S : \A x \in s : PartSums(f)[s] = f[x] + PartSums(f)[s \ {x}]
<1> DEFINE F == PartSums(f)
           P == {s \in SUBSET S : \A x \in s : F[s] = f[x] + F[s \ {x}]}
<1>1. \A s \in SUBSET S : F[s] = AddStep(f, F, s) /\ F[s] \in Int
  BY SumStep, SumsInt
<1> HIDE DEF F
<1>2. ASSUME NEW s \in SUBSET S, \A t \in SUBSET s : t # s => t \in P,
             NEW x \in s
      PROVE  F[s] = f[x] + F[s \ {x}]
  <2>1. PICK y : y = Some(s)
    OBVIOUS
  <2>2. y \in s /\ F[s] = f[y] + F[s \ {y}]
    BY <1>1, <2>1, Rest DEF AddStep
  <2>3. CASE x = y
    BY <2>2, <2>3
  <2>4. CASE x # y
    <3>1. s \ {y} \in P /\ s \ {x} \in P /\ x \in s \ {y} /\ y \in s \ {x}
      BY <1>2, <2>2, <2>4
    <3>2. /\ F[s \ {y}] = f[x] + F[(s \ {y}) \ {x}]
          /\ F[s \ {x}] = f[y] + F[(s \ {x}) \ {y}]
      BY <3>1
    <3>3. (s \ {y}) \ {x} = (s \ {x}) \ {y} /\ (s \ {x}) \ {y} \in SUBSET S
      OBVIOUS
    <3>4. PICK r \in Int : r = F[(s \ {x}) \ {y}]
      BY <1>1, <3>3
    <3>5. f[x] \in Int /\ f[y] \in Int
      BY <2>2
    <3>6. F[s] = f[y] + (f[x] + r)
      BY <2>2, <3>2, <3>3, <3>4
    <3>7. F[s \ {x}] = f[y] + r
      BY <3>2, <3>4
    <3> QED BY <3>5, <3>6, <3>7
  <2> QED BY <2>3, <2>4
<1>3. \A s \in SUBSET S : (\A t \in SUBSET s : t # s => t \in P) => s \in P
  BY <1>2
<1>4. \A s \in SUBSET S : s \in P
  <2> HIDE DEF P
  <2> QED BY <1>3, EverySubset
<1> QED BY <1>4 DEF F

\* Functions that agree on a set have the same sum over it.
LEMMA SumsAgree ==
    ASSUME NEW S, IsFiniteSet(S), NEW T, IsFiniteSet(T),
           NEW f \in [S -> Int], NEW h \in [T -> Int],
           NEW u \in (SUBSET S) \cap (SUBSET T), \A x \in u : f[x] = h[x]
    PROVE  PartSums(f)[u] = PartSums(h)[u]
<1> DEFINE F == PartSums(f)
           H == PartSums(h)
           P == {s \in SUBSET u : F[s] = H[s]}
<1>1. /\ \A s \in SUBSET S : F[s] = AddStep(f, F, s)
      /\ \A s \in SUBSET T : H[s] = AddStep(h, H, s)
  BY SumStep
<1>2. IsFiniteSet(u) /\ u \in SUBSET S /\ u \in SUBSET T
  BY FS_Subset
<1> HIDE DEF F, H
<1>3. {} \in P
  <2>1. {} \in SUBSET S /\ {} \in SUBSET T /\ {} \in SUBSET u
    OBVIOUS
  <2>2. AddStep(f, F, {}) = 0 /\ AddStep(h, H, {}) = 0
    BY DEF AddStep
  <2>3. F[{}] = H[{}]
    BY <1>1, <2>1, <2>2
  <2> QED BY <2>1, <2>3
<1>4. ASSUME NEW s \in SUBSET u, s # {}, s \ {Some(s)} \in P PROVE s \in P
  <2>1. s \in SUBSET S /\ s \in SUBSET T
    BY <1>2
  <2>2. F[s] = f[Some(s)] + F[s \ {Some(s)}] /\ H[s] = h[Some(s)] + H[s \ {Some(s)}]
    BY <1>1, <1>4, <2>1 DEF AddStep
  <2>3. Some(s) \in u
    BY <1>2, <1>4, Rest
  <2> QED BY <1>4, <2>2, <2>3
<1>5. \A s \in SUBSET u : s \in P
  <2> HIDE DEF P
  <2> QED BY <1>2, <1>3, <1>4, EveryRest
<1> QED BY <1>5 DEF F, H

\* Changing one element changes the sum by as much.
LEMMA SumsUpdate ==
    ASSUME NEW S, IsFiniteSet(S), NEW f \in [S -> Int], NEW h \in [S -> Int],
           NEW x \in S, \A y \in S \ {x} : h[y] = f[y]
    PROVE  PartSums(h)[S] = PartSums(f)[S] - f[x] + h[x]
<1>1. S \ {x} \in SUBSET S /\ S \in SUBSET S
  OBVIOUS
<1>2. PartSums(f)[S \ {x}] = PartSums(h)[S \ {x}]
  BY <1>1, SumsAgree
<1>3. /\ PartSums(f)[S] = f[x] + PartSums(f)[S \ {x}]
      /\ PartSums(h)[S] = h[x] + PartSums(h)[S \ {x}]
  BY <1>1, SumsWithout
<1>4. PartSums(f)[S \ {x}] \in Int /\ f[x] \in Int /\ h[x] \in Int
  BY <1>1, SumsInt
<1> QED BY <1>2, <1>3, <1>4

\* What is zero need not be added.
LEMMA SumsZero ==
    ASSUME NEW S, IsFiniteSet(S), NEW f \in [S -> Int],
           NEW T \in SUBSET S, \A x \in S \ T : f[x] = 0
    PROVE  PartSums(f)[S] = PartSums(f)[T]
<1> DEFINE F == PartSums(f)
           P == {s \in SUBSET S : F[s] = F[s \cap T]}
<1>1. \A s \in SUBSET S : F[s] \in Int /\ \A x \in s : F[s] = f[x] + F[s \ {x}]
  BY SumsInt, SumsWithout
<1> HIDE DEF F
<1>2. {} \in P
  <2>1. {} \in SUBSET S /\ {} \cap T = {}
    OBVIOUS
  <2> QED BY <2>1
<1>3. ASSUME NEW s \in SUBSET S, s # {}, s \ {Some(s)} \in P PROVE s \in P
  <2>1. PICK x : x = Some(s)
    OBVIOUS
  <2>2. x \in s /\ x \in S /\ s \cap T \in SUBSET S
    BY <1>3, <2>1, Rest
  <2>3. F[s] = f[x] + F[s \ {x}] /\ F[s \ {x}] = F[(s \ {x}) \cap T]
    BY <1>1, <1>3, <2>1, <2>2
  <2>4. CASE x \in T
    <3>1. (s \cap T) \ {x} = (s \ {x}) \cap T /\ x \in s \cap T
      BY <2>2, <2>4
    <3>2. F[s \cap T] = f[x] + F[(s \cap T) \ {x}]
      BY <1>1, <2>2, <3>1
    <3> QED BY <2>3, <3>1, <3>2
  <2>5. CASE x \notin T
    <3>1. (s \ {x}) \cap T = s \cap T /\ f[x] = 0 /\ F[s \cap T] \in Int
      BY <1>1, <2>2, <2>5
    <3>2. F[s \ {x}] = F[s \cap T]
      BY <2>3, <3>1
    <3>3. F[s] = F[s \cap T]
      BY <2>3, <3>1, <3>2
    <3> QED BY <3>3
  <2> QED BY <2>4, <2>5
<1>4. \A s \in SUBSET S : s \in P
  <2> HIDE DEF P
  <2> QED BY <1>2, <1>3, EveryRest
<1>5. S \in P /\ S \cap T = T
  BY <1>4
<1> QED BY <1>5 DEF F

\* A sum of numbers that are not negative is one, and no less than any of them.
LEMMA SumsNat ==
    ASSUME NEW S, IsFiniteSet(S), NEW f \in [S -> Nat]
    PROVE  PartSums(f)[S] \in Nat /\ \A x \in S : f[x] <= PartSums(f)[S]
<1> DEFINE F == PartSums(f)
           P == {s \in SUBSET S : F[s] \in Nat}
<1>0. f \in [S -> Int]
  OBVIOUS
<1>1. \A s \in SUBSET S : F[s] = AddStep(f, F, s) /\ \A x \in s : F[s] = f[x] + F[s \ {x}]
  BY <1>0, SumStep, SumsWithout
<1> HIDE DEF F
<1>2. {} \in P
  <2>1. {} \in SUBSET S
    OBVIOUS
  <2>2. AddStep(f, F, {}) = 0
    BY DEF AddStep
  <2>3. F[{}] = 0
    BY <1>1, <2>1, <2>2
  <2> QED BY <2>1, <2>3
<1>3. ASSUME NEW s \in SUBSET S, s # {}, s \ {Some(s)} \in P PROVE s \in P
  <2>1. F[s] = f[Some(s)] + F[s \ {Some(s)}] /\ Some(s) \in S
    BY <1>1, <1>3, Rest DEF AddStep
  <2> QED BY <1>3, <2>1
<1>4. \A s \in SUBSET S : s \in P
  <2> HIDE DEF P
  <2> QED BY <1>2, <1>3, EveryRest
<1>5. F[S] \in Nat
  BY <1>4
<1>6. ASSUME NEW x \in S PROVE f[x] <= F[S]
  <2>1. S \in SUBSET S /\ S \ {x} \in SUBSET S
    OBVIOUS
  <2>2. F[S] = f[x] + F[S \ {x}] /\ F[S \ {x}] \in Nat
    BY <1>1, <1>4, <2>1
  <2> QED BY <2>2
<1> QED BY <1>5, <1>6 DEF F

\* A function that is nowhere greater than another of the same sum is the other.
LEMMA SumsEqual ==
    ASSUME NEW S, IsFiniteSet(S), NEW f \in [S -> Nat], NEW h \in [S -> Nat],
           \A x \in S : h[x] <= f[x], PartSums(h)[S] = PartSums(f)[S]
    PROVE  \A x \in S : h[x] = f[x]
<1>1. f \in [S -> Int] /\ h \in [S -> Int]
  OBVIOUS
<1>2. PICK d : d = [x \in S |-> f[x] - h[x]]
  OBVIOUS
<1>3. d \in [S -> Nat]
  BY <1>2
<1>4. PartSums(d)[S] = PartSums(f)[S] - PartSums(h)[S]
  <2> DEFINE F == PartSums(f)
             H == PartSums(h)
             D == PartSums(d)
             P == {s \in SUBSET S : D[s] = F[s] - H[s]}
  <2>0. d \in [S -> Int]
    BY <1>3
  <2>1. \A s \in SUBSET S : /\ F[s] = AddStep(f, F, s) /\ F[s] \in Int
                            /\ H[s] = AddStep(h, H, s) /\ H[s] \in Int
                            /\ D[s] = AddStep(d, D, s) /\ D[s] \in Int
    BY <1>1, <2>0, SumStep, SumsInt
  <2> HIDE DEF F, H, D
  <2>2. {} \in P
    <3>1. {} \in SUBSET S
      OBVIOUS
    <3>2. AddStep(f, F, {}) = 0 /\ AddStep(h, H, {}) = 0 /\ AddStep(d, D, {}) = 0
      BY DEF AddStep
    <3>3. F[{}] = 0 /\ H[{}] = 0 /\ D[{}] = 0
      BY <2>1, <3>1, <3>2
    <3> QED BY <3>1, <3>3
  <2>3. ASSUME NEW s \in SUBSET S, s # {}, s \ {Some(s)} \in P PROVE s \in P
    <3>1. PICK x \in S : x = Some(s)
      BY <2>3, Rest
    <3>2. PICK t \in SUBSET S : t = s \ {x}
      OBVIOUS
    <3>3. F[s] = f[x] + F[t] /\ H[s] = h[x] + H[t] /\ D[s] = d[x] + D[t]
      BY <2>1, <2>3, <3>1, <3>2 DEF AddStep
    <3>4. D[t] = F[t] - H[t] /\ d[x] = f[x] - h[x]
      BY <1>2, <2>3, <3>1, <3>2
    <3>5. f[x] \in Nat /\ h[x] \in Nat /\ F[t] \in Int /\ H[t] \in Int
      BY <2>1
    <3>6. D[s] = F[s] - H[s]
      BY <3>3, <3>4, <3>5
    <3> QED BY <3>6
  <2>4. \A s \in SUBSET S : s \in P
    <3> HIDE DEF P
    <3> QED BY <2>2, <2>3, EveryRest
  <2>5. S \in P
    BY <2>4
  <2> QED BY <2>5 DEF F, H, D
<1>5. PartSums(f)[S] \in Nat
  BY SumsNat
<1>6. PartSums(d)[S] = 0
  BY <1>4, <1>5
<1>7. \A x \in S : d[x] <= 0
  BY <1>3, <1>6, SumsNat
<1> QED BY <1>2, <1>3, <1>7

(***************************************************************************)
(* Folds along a sequence.  FoldLeft takes the last place off the set of   *)
(* places; what it computes is found on the prefixes.                      *)
(***************************************************************************)

\* A set of numbers that has 0, and each one whose predecessor it has.
LEMMA EveryIndex ==
    ASSUME NEW n \in Nat, NEW P, 0 \in P, \A j \in 1..n : j - 1 \in P => j \in P
    PROVE  \A j \in 0..n : j \in P
<1> DEFINE Bad == {j \in 0..n : j \notin P}
<1> SUFFICES ASSUME Bad # {} PROVE FALSE
  OBVIOUS
<1>1. PICK j \in Bad : \A k \in Bad : j <= k
  <2>1. Bad \in SUBSET Nat
    OBVIOUS
  <2> HIDE DEF Bad
  <2> QED BY <2>1, Smallest
<1>2. j \in 1..n /\ j - 1 \in 0..n /\ ~ j <= j - 1
  OBVIOUS
<1>3. j - 1 \in P
  BY <1>1, <1>2
<1> QED BY <1>2, <1>3

Highest(s) == CHOOSE x \in s : \A y \in s : x >= y

\* The last place of a set of places, and the prefix below a place.
LEMMA HighestLemma ==
    ASSUME NEW n \in Nat
    PROVE  /\ \A s \in SUBSET (1..n) : s # {} => Highest(s) \in s /\ Highest(s) \in 1..n
           /\ \A j \in 1..n : Highest(1..j) = j /\ (1..j) \ {j} = 1..(j - 1)
                              /\ 1..j \in SUBSET (1..n)
<1>1. ASSUME NEW s \in SUBSET (1..n), s # {} PROVE Highest(s) \in s
  <2> DEFINE T == {n - x : x \in s}
  <2>1. T \in SUBSET Nat /\ T # {}
    <3>1. \A x \in s : n - x \in Nat
      OBVIOUS
    <3>2. PICK x \in s : TRUE
      BY <1>1
    <3>3. n - x \in T
      BY <3>2
    <3> QED BY <3>1, <3>3
  <2>2. PICK t \in T : \A u \in T : t <= u
    <3> HIDE DEF T
    <3> QED BY <2>1, Smallest
  <2>3. PICK x \in s : t = n - x
    OBVIOUS
  <2>4. ASSUME NEW y \in s PROVE x >= y
    <3>1. n - y \in T
      OBVIOUS
    <3>2. t <= n - y
      BY <2>2, <3>1
    <3> QED BY <2>3, <3>2
  <2>5. \E z \in s : \A y \in s : z >= y
    BY <2>4
  <2> QED BY <2>5, Zenon DEF Highest
<1>2. ASSUME NEW j \in 1..n PROVE Highest(1..j) = j
  <2>1. 1..j \in SUBSET (1..n) /\ 1..j # {} /\ j \in 1..j
    OBVIOUS
  <2>2. \A y \in 1..j : j >= y
    OBVIOUS
  <2>3. Highest(1..j) \in 1..j /\ \A y \in 1..j : Highest(1..j) >= y
    BY <2>1, <2>2 DEF Highest
  <2> QED BY <2>1, <2>3
<1>3. \A j \in 1..n : (1..j) \ {j} = 1..(j - 1) /\ 1..j \in SUBSET (1..n)
  OBVIOUS
<1> QED BY <1>1, <1>2, <1>3

FoldsTo(n, base, step, g) ==
    \A s \in SUBSET (1..n) :
        g[s] = IF s = {} THEN base ELSE step[<<Highest(s), g[s \ {Highest(s)}]>>]

\* The recursion of the fold has a solution, in any set its steps stay in.
LEMMA FoldExists ==
    ASSUME NEW n \in Nat, NEW V, NEW base \in V, NEW step \in [(1..n) \X V -> V]
    PROVE  \E g \in [SUBSET (1..n) -> V] : FoldsTo(n, base, step, g)
<1> DEFINE S        == 1..n
           Level(k) == {s \in SUBSET S : Cardinality(s) <= k}
           Next1(g, s) == IF s = {} THEN base ELSE step[<<Highest(s), g[s \ {Highest(s)}]>>]
           Has(k)   == \E g \in [Level(k) -> V] : \A s \in Level(k) : g[s] = Next1(g, s)
           P        == {k \in Nat : Has(k)}
<1>1. IsFiniteSet(S) /\ Cardinality(S) = n
  BY FS_Interval
<1>2. \A s \in SUBSET S : Cardinality(s) \in Nat /\ (Cardinality(s) = 0 <=> s = {})
  BY <1>1, FS_Subset, FS_CardinalityType, FS_EmptySet
<1>3. ASSUME NEW s \in SUBSET S, s # {}
      PROVE  /\ Highest(s) \in S /\ s \ {Highest(s)} \in SUBSET S
             /\ Cardinality(s \ {Highest(s)}) = Cardinality(s) - 1
  <2>1. Highest(s) \in s /\ Highest(s) \in S
    BY <1>3, HighestLemma
  <2>2. IsFiniteSet(s)
    BY <1>1, FS_Subset
  <2> QED BY <2>1, <2>2, FS_RemoveElement
<1>4. Has(0)
  <2> DEFINE g == [s \in Level(0) |-> base]
  <2>1. \A s \in Level(0) : s = {}
    BY <1>2
  <2>2. g \in [Level(0) -> V] /\ \A s \in Level(0) : g[s] = base
    OBVIOUS
  <2> HIDE DEF g, Level
  <2>3. \A s \in Level(0) : g[s] = Next1(g, s)
    BY <2>1, <2>2
  <2> QED BY <2>2, <2>3
<1>5. ASSUME NEW k \in 1..n, Has(k - 1) PROVE Has(k)
  <2>1. PICK g \in [Level(k - 1) -> V] : \A s \in Level(k - 1) : g[s] = Next1(g, s)
    BY <1>5
  <2> DEFINE h == [s \in Level(k) |-> Next1(g, s)]
  <2>2. ASSUME NEW s \in Level(k), s # {}
        PROVE  /\ s \ {Highest(s)} \in Level(k - 1) /\ s \ {Highest(s)} \in Level(k)
               /\ Highest(s) \in S
    <3>1. s \in SUBSET S /\ Cardinality(s) <= k
      OBVIOUS
    <3>2. /\ Highest(s) \in S /\ s \ {Highest(s)} \in SUBSET S
          /\ Cardinality(s \ {Highest(s)}) = Cardinality(s) - 1 /\ Cardinality(s) \in Nat
      BY <1>2, <1>3, <2>2, <3>1
    <3> QED BY <3>1, <3>2
  <2>3. \A s \in Level(k - 1) : s \in Level(k)
    <3>1. \A s \in Level(k - 1) : s \in SUBSET S /\ Cardinality(s) <= k - 1 /\ Cardinality(s) \in Nat
      BY <1>2
    <3> QED BY <3>1
  <2>4. \A s \in Level(k) : h[s] \in V
    <3> HIDE DEF Level
    <3>1. ASSUME NEW s \in Level(k) PROVE h[s] \in V
      <4>1. CASE s = {}
        BY <4>1
      <4>2. CASE s # {}
        <5>1. g[s \ {Highest(s)}] \in V /\ Highest(s) \in 1..n
          BY <2>2, <4>2
        <5> QED BY <4>2, <5>1
      <4> QED BY <4>1, <4>2
    <3> QED BY <3>1
  <2>5. h \in [Level(k) -> V]
    <3> HIDE DEF Level, Next1
    <3> QED BY <2>4
  <2>6. \A s \in Level(k - 1) : h[s] = g[s]
    <3> HIDE DEF Level, Next1
    <3> QED BY <2>1, <2>3
  <2>7. \A s \in Level(k) : h[s] = Next1(h, s)
    <3>1. ASSUME NEW s \in Level(k) PROVE h[s] = Next1(h, s)
      <4>1. h[s] = Next1(g, s)
        BY <3>1
      <4> HIDE DEF h, Level
      <4>2. s # {} => h[s \ {Highest(s)}] = g[s \ {Highest(s)}]
        BY <2>2, <2>6
      <4> QED BY <4>1, <4>2
    <3> HIDE DEF h, Level, Next1
    <3> QED BY <3>1
  <2> HIDE DEF h, Level, Next1
  <2> QED BY <2>5, <2>7
<1>6. \A k \in 0..n : k \in P
  <2> HIDE DEF Has
  <2>1. 0 \in P
    BY <1>4
  <2>2. \A k \in 1..n : k - 1 \in P => k \in P
    BY <1>5
  <2> HIDE DEF P
  <2> QED BY <2>1, <2>2, EveryIndex
<1>7. Has(n)
  <2> HIDE DEF Has
  <2> QED BY <1>6
<1>8. Level(n) = SUBSET S
  <2>1. \A s \in SUBSET S : Cardinality(s) <= Cardinality(S)
    BY <1>1, FS_Subset
  <2> QED BY <1>1, <2>1
<1>9. PICK g \in [Level(n) -> V] : \A s \in Level(n) : g[s] = Next1(g, s)
  BY <1>7
<1> QED
  <2> HIDE DEF Level
  <2> QED BY <1>8, <1>9 DEF FoldsTo

\* What any solution has on the prefixes.
Recurs(n, V, base, step, g) ==
    /\ n \in Nat /\ base \in V /\ step \in [(1..n) \X V -> V]
    /\ g[{}] = base
    /\ \A s \in SUBSET (1..n) : s # {} /\ g[s \ {Highest(s)}] \in V =>
            g[s] = step[<<Highest(s), g[s \ {Highest(s)}]>>]

LEMMA Prefixes ==
    ASSUME NEW n, NEW V, NEW base, NEW step, NEW g, Recurs(n, V, base, step, g)
    PROVE  \E P \in [0..n -> V] :
              /\ P[0] = base
              /\ \A j \in 1..n : P[j] = step[<<j, P[j - 1]>>]
              /\ g[1..n] = P[n]
<1>0. /\ n \in Nat /\ base \in V /\ step \in [(1..n) \X V -> V] /\ g[{}] = base
      /\ \A s \in SUBSET (1..n) : s # {} /\ g[s \ {Highest(s)}] \in V =>
            g[s] = step[<<Highest(s), g[s \ {Highest(s)}]>>]
  BY DEF Recurs
<1>1. ASSUME NEW j \in 1..n, g[1..(j - 1)] \in V
      PROVE  g[1..j] = step[<<j, g[1..(j - 1)]>>] /\ g[1..j] \in V
  <2>1. /\ Highest(1..j) = j /\ (1..j) \ {j} = 1..(j - 1)
        /\ 1..j \in SUBSET (1..n) /\ 1..j # {}
    BY <1>0, HighestLemma
  <2>2. g[1..j] = step[<<j, g[1..(j - 1)]>>]
    BY <1>0, <1>1, <2>1
  <2> QED BY <1>0, <1>1, <2>2
<1> DEFINE P == [j \in 0..n |-> g[1..j]]
           Q == {j \in 0..n : P[j] \in V}
<1>2. P[0] = base
  <2>1. 1..0 = {} /\ 0 \in 0..n
    BY <1>0
  <2> QED BY <1>0, <2>1
<1>3. 0 \in Q
  BY <1>0, <1>2
<1>4. ASSUME NEW j \in 1..n, j - 1 \in Q PROVE j \in Q
  <2>1. j \in 0..n /\ j - 1 \in 0..n
    BY <1>0
  <2> QED BY <1>1, <1>4, <2>1
<1>5. \A j \in 0..n : j \in Q
  <2> HIDE DEF Q
  <2> QED BY <1>0, <1>3, <1>4, EveryIndex
<1>6. P \in [0..n -> V]
  <2>1. \A j \in 0..n : g[1..j] \in V
    BY <1>5
  <2> QED BY <2>1
<1>7. ASSUME NEW j \in 1..n PROVE P[j] = step[<<j, P[j - 1]>>]
  <2>1. j \in 0..n /\ j - 1 \in 0..n
    BY <1>0
  <2> QED BY <1>1, <1>5, <2>1
<1>8. g[1..n] = P[n]
  BY <1>0
<1> HIDE DEF P, Q
<1> QED BY <1>2, <1>6, <1>7, <1>8
=============================================================================
