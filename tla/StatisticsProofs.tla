-------------------------- MODULE StatisticsProofs --------------------------
(***************************************************************************)
(* The process's counters, for any set of handlers, transports, outcomes   *)
(* and latencies.                                                          *)
(***************************************************************************)
EXTENDS Statistics, FiniteSetTheorems, WellFoundedInduction, TLAPS

(***************************************************************************)
(* The inductive invariant                                                 *)
(***************************************************************************)
\* The positions of a handler, and those in recordLatencyInto.
Recording == {"add", "count", "min", "casmin", "max", "casmax"}
Positions == Recording \union {"free", "resolve", "reply", "done", "dropped"}
Past == {"reply", "done", "dropped"}

CountersTyped ==
  /\ hpc \in [Handlers -> Positions] /\ hvia \in [Handlers -> Transports \union {"none"}]
  /\ rcode \in [Handlers -> Rcodes \union {"none"}] /\ us \in [Handlers -> Samples \union {NoSample}]
  /\ seen \in [Handlers -> Nat] /\ queries \in Nat /\ bucket \in [Rcodes -> Nat]
  /\ lat \in [{1, 2} -> [total : Nat, count : Nat, min : Nat, max : Nat]]
  /\ spc \in Nat \ {0} /\ snap \in [total : Nat, count : Nat, queries : Nat, open : Nat, buckets : Nat]

\* What goes with a handler's position.
Fits(h) ==
  /\ hpc[h] \in {"free", "resolve"} => us[h] = NoSample
  /\ hpc[h] \notin {"free", "resolve"} => rcode[h] \in Rcodes
  /\ hpc[h] \in Recording => us[h] # NoSample
  /\ M(h) = 2 => (us[h] = NoSample <=> hpc[h] \in {"free", "resolve", "reply", "dropped"})
  /\ hpc[h] = "casmin" => seen[h] = 0 \/ us[h] < seen[h]
  /\ hpc[h] = "casmax" => seen[h] < us[h]

Began == {h \in Handlers : Begun(h)}
CountedNow == {h \in Handlers : Counted(h)}
CountedAs(r) == {h \in CountedNow : rcode[h] = r}
InCount(m) == {h \in Added(m) : hpc[h] # "count"}

\* TotalQueries and the response counters.
Books ==
  /\ IsFiniteSet(Began) /\ queries = Cardinality(Began)
  /\ SumFunctionOnSet(bucket, Rcodes) = Cardinality(CountedNow)
  /\ \A r \in Rcodes : bucket[r] = Cardinality(CountedAs(r))

\* The sum and the count of a mode, and its extremes so far.
Sums(m) ==
  /\ lat[m].count = Cardinality(InCount(m))
  /\ lat[m].total = SumFunctionOnSet(us, Added(m))
Extremes(m) ==
  /\ lat[m].max # 0 => \E h \in Added(m) : lat[m].max = us[h]
  /\ \A h \in Added(m) : hpc[h] \in Past => us[h] <= lat[m].max
  /\ (\A h \in Added(m) : us[h] # 0) =>
       /\ lat[m].min # 0 => \E h \in Added(m) : lat[m].min = us[h]
       /\ \A h \in Added(m) : hpc[h] \in Past \union {"max", "casmax"} => lat[m].min # 0 /\ lat[m].min <= us[h]

\* What a report has read: a count that the sum is not behind, and responses
\* that, with those still to read, cover the queries read before.
Left == {Replies[i] : i \in (spc - 3) .. Len(Replies)}
Reported ==
  /\ spc <= Len(Reads) + 1
  /\ spc >= 2 => snap.count <= lat[1].count
  /\ spc >= 3 /\ snap.count > 0 => \E h \in Added(1) : snap.total >= snap.count * us[h]
  /\ spc <= 4 => snap.buckets = 0
  /\ spc >= 4 => snap.queries - snap.open <= snap.buckets + SumFunctionOnSet(bucket, Left)

CountersInv ==
  /\ CountersTyped /\ (\A h \in Handlers : Fits(h)) /\ Books
  /\ (\A m \in {1, 2} : Sums(m) /\ Extremes(m)) /\ Reported

(***************************************************************************)
(* Sums                                                                    *)
(***************************************************************************)
\* A set of numbers that is not empty has a least one.
LEMMA LeastExists ==
  ASSUME NEW S, S \subseteq Nat, S # {}
  PROVE  \E k \in S : \A j \in S : k <= j
<1> DEFINE R == OpToRel(<, Nat)
<1>2. IsWellFoundedOn(R, Nat)
  BY NatLessThanWellFounded, Zenon
<1>3. \A x, y \in Nat : x < y => <<x, y>> \in R
  BY Zenon DEF OpToRel
<1> HIDE DEF R
<1>4. PICK k \in S : \A j \in S : ~(<<j, k>> \in R)
  BY <1>2, WFMin, Zenon
<1>5. \A j \in S : k <= j
  <2> TAKE j \in S
  <2>1. j \in Nat /\ k \in Nat
    BY Zenon
  <2>2. ~(j < k)
    BY <1>3, <1>4, <2>1, Zenon
  <2> QED BY <2>1, <2>2, SMT, SMTT(30)
<1> QED BY <1>5, Zenon

\* The element a fold takes out of a set first.
One(s) == CHOOSE x \in s : TRUE

\* One level of the sum of f over the subsets of S.
Level(g, f, S) == [s \in SUBSET S |-> IF s = {} THEN 0 ELSE f[One(s)] + g[s \ {One(s)}]]

\* What SumFunctionOnSet computes.
LEMMA SumIs ==
  ASSUME NEW f, NEW S
  PROVE  SumFunctionOnSet(f, S) = (CHOOSE g : g = Level(g, f, S))[S]
BY Zenon DEF SumFunctionOnSet, FoldFunctionOnSet, MapThenFoldSet, Level, One

\* Induction on finite sets: among some of them one is smallest.
LEMMA SmallestSet ==
  ASSUME NEW C, C # {}, \A T \in C : IsFiniteSet(T)
  PROVE  \E T \in C : \A x \in T : T \ {x} \notin C
<1> DEFINE N == {Cardinality(T) : T \in C}
<1>1. N \subseteq Nat /\ N # {}
  BY FS_CardinalityType, Zenon
<1>2. PICK k \in N : \A j \in N : k <= j
  BY <1>1, LeastExists, Zenon
<1>3. PICK T \in C : k = Cardinality(T)
  BY Zenon
<1>4. ASSUME NEW x \in T, T \ {x} \in C PROVE FALSE
  <2>1. IsFiniteSet(T)
    BY Zenon
  <2>2. Cardinality(T \ {x}) = Cardinality(T) - 1
    BY <2>1, FS_RemoveElement, Zenon
  <2>3. k <= Cardinality(T \ {x}) /\ k \in Nat
    BY <1>1, <1>2, <1>4, Zenon
  <2> QED BY <1>3, <2>2, <2>3, SMT, SMTT(30)
<1> QED BY <1>4, Zenon

\* The element taken out is one of the set, and the rest is smaller.
LEMMA OneIn ==
  ASSUME NEW s, s # {}
  PROVE  One(s) \in s
BY Zenon DEF One

\* The recursion of a sum over a finite set has a solution.
LEMMA LevelSolved ==
  ASSUME NEW f, NEW S, IsFiniteSet(S)
  PROVE  \E g : g = Level(g, f, S)
<1> DEFINE upto(n) == \E g : \A s \in SUBSET S : Cardinality(s) <= n => g[s] = Level(g, f, S)[s]
<1>0. \A s \in SUBSET S : IsFiniteSet(s) /\ Cardinality(s) \in Nat
  BY FS_Subset, FS_CardinalityType, Zenon
<1>1. upto(0)
  <2> DEFINE g == [s \in SUBSET S |-> 0]
  <2>1. ASSUME NEW s \in SUBSET S, Cardinality(s) <= 0 PROVE g[s] = Level(g, f, S)[s]
    <3>1. Cardinality(s) = 0
      BY <1>0, <2>1, SMT, SMTT(30)
    <3>2. s = {}
      BY <1>0, <3>1, FS_EmptySet, Zenon
    <3> QED BY <3>2, Zenon DEF Level
  <2> QED BY <2>1, Zenon
<1>2. ASSUME NEW n \in Nat, upto(n) PROVE upto(n + 1)
  <2>1. PICK g : \A s \in SUBSET S : Cardinality(s) <= n => g[s] = Level(g, f, S)[s]
    BY <1>2, Zenon
  <2> DEFINE h == Level(g, f, S)
  <2>2. ASSUME NEW s \in SUBSET S, Cardinality(s) <= n + 1 PROVE h[s] = Level(h, f, S)[s]
    <3>1. CASE s = {}
      BY <3>1, Zenon DEF Level
    <3>2. CASE s # {}
      <4> DEFINE r == s \ {One(s)}
      <4>1. One(s) \in s /\ r \in SUBSET S
        BY <3>2, OneIn, Zenon
      <4>2. Cardinality(r) = Cardinality(s) - 1
        BY <1>0, <4>1, FS_RemoveElement, Zenon
      <4>3. Cardinality(r) <= n
        BY <1>0, <2>2, <4>2, SMT, SMTT(30)
      <4>4. g[r] = h[r]
        BY <2>1, <4>1, <4>3, Zenon
      <4>5. h[s] = f[One(s)] + g[r]
        BY <3>2, Zenon DEF Level
      <4>6. Level(h, f, S)[s] = f[One(s)] + h[r]
        BY <3>2, Zenon DEF Level
      <4> QED BY <4>4, <4>5, <4>6, Zenon
    <3> QED BY <3>1, <3>2, Zenon
  <2> HIDE DEF h
  <2> QED BY <2>2, Zenon
<1>3. \A n \in Nat : upto(n)
  <2> DEFINE bad == {n \in Nat : ~upto(n)}
  <2> HIDE DEF upto
  <2>1. ASSUME bad # {} PROVE FALSE
    <3>1. PICK k \in bad : \A j \in bad : k <= j
      BY <2>1, LeastExists, Zenon
    <3>2. k # 0
      BY <1>1, Zenon
    <3>3. k - 1 \in Nat /\ k - 1 \notin bad /\ k = (k - 1) + 1
      BY <3>1, <3>2, SMT, SMTT(30)
    <3>4. upto(k - 1)
      BY <3>3, Zenon
    <3>5. upto((k - 1) + 1)
      BY <1>2, <3>3, <3>4, Zenon
    <3> QED BY <3>3, <3>5, Zenon
  <2> QED BY <2>1, Zenon
<1>4. PICK g : \A s \in SUBSET S : Cardinality(s) <= Cardinality(S) => g[s] = Level(g, f, S)[s]
  BY <1>0, <1>3, Zenon
<1>5. \A s \in SUBSET S : g[s] = Level(g, f, S)[s]
  BY <1>4, FS_Subset, Zenon
<1> DEFINE h == Level(g, f, S)
<1>6. \A s \in SUBSET S : h[s] = Level(h, f, S)[s]
  <2> TAKE s \in SUBSET S
  <2>1. CASE s = {}
    BY <2>1, Zenon DEF Level
  <2>2. CASE s # {}
    <3>1. s \ {One(s)} \in SUBSET S
      BY Zenon
    <3>2. g[s \ {One(s)}] = h[s \ {One(s)}]
      BY <1>5, <3>1, Zenon
    <3>3. h[s] = f[One(s)] + g[s \ {One(s)}]
      BY <2>2, Zenon DEF Level
    <3>4. Level(h, f, S)[s] = f[One(s)] + h[s \ {One(s)}]
      BY <2>2, Zenon DEF Level
    <3> QED BY <3>2, <3>3, <3>4, Zenon
  <2> QED BY <2>1, <2>2, Zenon
<1>7. h = [s \in SUBSET S |-> h[s]] /\ Level(h, f, S) = [s \in SUBSET S |-> Level(h, f, S)[s]]
  BY Zenon DEF Level
<1>8. h = Level(h, f, S)
  <2> HIDE DEF h
  <2> QED BY <1>6, <1>7, Zenon
<1> QED BY <1>8, Zenon

\* Two sums over a set agree if what they add does, also if the recursion of
\* one started on a larger set.
LEMMA LevelsAgree ==
  ASSUME NEW f, NEW g, NEW S, NEW T \in SUBSET S, IsFiniteSet(S), \A x \in T : f[x] = g[x],
         NEW a, a = Level(a, f, S), NEW b, b = Level(b, g, T)
  PROVE  a[T] = b[T]
<1> DEFINE C == {s \in SUBSET T : a[s] # b[s]}
<1>1. ASSUME NEW s \in SUBSET T
      PROVE  /\ a[s] = IF s = {} THEN 0 ELSE f[One(s)] + a[s \ {One(s)}]
             /\ b[s] = IF s = {} THEN 0 ELSE g[One(s)] + b[s \ {One(s)}]
  <2>1. s \in SUBSET S
    BY Zenon
  <2>2. Level(a, f, S)[s] = IF s = {} THEN 0 ELSE f[One(s)] + a[s \ {One(s)}]
    BY <2>1, Zenon DEF Level
  <2>3. Level(b, g, T)[s] = IF s = {} THEN 0 ELSE g[One(s)] + b[s \ {One(s)}]
    BY Zenon DEF Level
  <2> QED BY <2>2, <2>3, Zenon
<1>2. \A s \in C : IsFiniteSet(s)
  <2>1. \A s \in SUBSET S : IsFiniteSet(s)
    BY FS_Subset, Zenon
  <2> QED BY <2>1, Zenon
<1>3. ASSUME C # {} PROVE FALSE
  <2>1. PICK s \in C : \A x \in s : s \ {x} \notin C
    BY <1>2, <1>3, SmallestSet, Zenon
  <2>2. s \in SUBSET T /\ a[s] # b[s]
    BY Zenon
  <2>3. CASE s = {}
    BY <1>1, <2>2, <2>3, Zenon
  <2>4. CASE s # {}
    <3>1. One(s) \in s
      BY <2>4, OneIn, Zenon
    <3>2. s \ {One(s)} \in SUBSET T /\ s \ {One(s)} \notin C
      BY <2>1, <2>2, <3>1, Zenon
    <3>3. a[s \ {One(s)}] = b[s \ {One(s)}]
      BY <3>2, Zenon
    <3>4. f[One(s)] = g[One(s)]
      BY <2>2, <3>1, Zenon
    <3>5. a[s] = f[One(s)] + a[s \ {One(s)}] /\ b[s] = g[One(s)] + b[s \ {One(s)}]
      BY <1>1, <2>2, <2>4, Zenon
    <3> QED BY <2>2, <3>3, <3>4, <3>5, Zenon
  <2> QED BY <2>3, <2>4, Zenon
<1>4. T \in SUBSET T
  BY Zenon
<1> QED BY <1>3, <1>4, Zenon

\* A sum is the value at the whole set of a solution of its recursion.
LEMMA SumSolves ==
  ASSUME NEW f, NEW S, IsFiniteSet(S)
  PROVE  \E g : g = Level(g, f, S) /\ SumFunctionOnSet(f, S) = g[S]
<1> DEFINE g == CHOOSE g : g = Level(g, f, S)
<1>1. g = Level(g, f, S)
  BY LevelSolved, Zenon
<1>2. SumFunctionOnSet(f, S) = g[S]
  BY SumIs, Zenon
<1> HIDE DEF g
<1> QED BY <1>1, <1>2, Zenon

\* A sum depends on the values it adds and on nothing else.
LEMMA SumAgree ==
  ASSUME NEW f, NEW g, NEW S, IsFiniteSet(S), \A x \in S : f[x] = g[x]
  PROVE  SumFunctionOnSet(f, S) = SumFunctionOnSet(g, S)
<1>1. PICK a : a = Level(a, f, S) /\ SumFunctionOnSet(f, S) = a[S]
  BY SumSolves, Zenon
<1>2. PICK b : b = Level(b, g, S) /\ SumFunctionOnSet(g, S) = b[S]
  BY SumSolves, Zenon
<1>3. S \in SUBSET S
  BY Zenon
<1>4. a[S] = b[S]
  BY <1>1, <1>2, <1>3, LevelsAgree, SMT, SMTT(30)
<1> QED BY <1>1, <1>2, <1>4, Zenon

\* The sum over no element.
LEMMA SumEmpty ==
  ASSUME NEW f
  PROVE  SumFunctionOnSet(f, {}) = 0
<1>0. IsFiniteSet({})
  BY FS_EmptySet, Zenon
<1>1. PICK a : a = Level(a, f, {}) /\ SumFunctionOnSet(f, {}) = a[{}]
  BY <1>0, SumSolves, Zenon
<1>2. Level(a, f, {})[{}] = 0
  BY Zenon DEF Level
<1> QED BY <1>1, <1>2, Zenon

\* The first step of a sum.
LEMMA SumStep ==
  ASSUME NEW f, NEW S, IsFiniteSet(S), S # {}
  PROVE  SumFunctionOnSet(f, S) = f[One(S)] + SumFunctionOnSet(f, S \ {One(S)})
<1> DEFINE T == S \ {One(S)}
<1>0. T \in SUBSET S /\ IsFiniteSet(T)
  BY FS_RemoveElement, Zenon
<1>1. PICK a : a = Level(a, f, S) /\ SumFunctionOnSet(f, S) = a[S]
  BY SumSolves, Zenon
<1>2. PICK b : b = Level(b, f, T) /\ SumFunctionOnSet(f, T) = b[T]
  BY <1>0, SumSolves, Zenon
<1>3. a[T] = b[T]
  <2> HIDE DEF T
  <2>1. \A x \in T : f[x] = f[x]
    BY Zenon
  <2> QED BY <1>0, <1>1, <1>2, <2>1, LevelsAgree, SMT, SMTT(30)
<1>4. S \in SUBSET S
  BY Zenon
<1>5. Level(a, f, S)[S] = f[One(S)] + a[T]
  BY <1>4, Zenon DEF Level
<1> QED BY <1>1, <1>2, <1>3, <1>5, Zenon

\* A sum of integers is one, and of natural numbers one that is at least as
\* many times each lower bound as there are numbers.
LEMMA SumType ==
  ASSUME NEW f, NEW S, IsFiniteSet(S), \A x \in S : f[x] \in Int
  PROVE  SumFunctionOnSet(f, S) \in Int
<1> DEFINE C == {s \in SUBSET S : SumFunctionOnSet(f, s) \notin Int}
<1>1. \A s \in SUBSET S : IsFiniteSet(s)
  BY FS_Subset, Zenon
<1>2. ASSUME C # {} PROVE FALSE
  <2>1. PICK s \in C : \A x \in s : s \ {x} \notin C
    BY <1>1, <1>2, SmallestSet, Zenon
  <2>2. s \in SUBSET S /\ SumFunctionOnSet(f, s) \notin Int /\ IsFiniteSet(s)
    BY <1>1, Zenon
  <2>3. s # {}
    BY <2>2, SumEmpty, SMT, SMTT(30)
  <2>4. One(s) \in s
    BY <2>3, OneIn, Zenon
  <2>5. s \ {One(s)} \in SUBSET S /\ s \ {One(s)} \notin C /\ One(s) \in S
    BY <2>1, <2>2, <2>4, Zenon
  <2>6. SumFunctionOnSet(f, s \ {One(s)}) \in Int
    BY <2>5, Zenon
  <2>7. SumFunctionOnSet(f, s) = f[One(s)] + SumFunctionOnSet(f, s \ {One(s)})
    BY <2>2, <2>3, SumStep, Zenon
  <2> QED BY <2>2, <2>5, <2>6, <2>7, SMT, SMTT(30)
<1>3. S \in SUBSET S
  BY Zenon
<1> QED BY <1>2, <1>3, Zenon

\* (n - 1) * m and m make n * m.
LEMMA OneLess ==
  ASSUME NEW n \in Int, NEW m \in Int, NEW a \in Int, NEW b \in Int, a >= m, b >= (n - 1) * m
  PROVE  a + b >= n * m
BY SMT, SMTT(30)

\* A sum of numbers none of which is below m is not below their count times m.
LEMMA SumAtLeast ==
  ASSUME NEW f, NEW S, IsFiniteSet(S), NEW m \in Int, \A x \in S : f[x] \in Int /\ f[x] >= m
  PROVE  SumFunctionOnSet(f, S) >= Cardinality(S) * m
<1> DEFINE C == {s \in SUBSET S : ~(SumFunctionOnSet(f, s) >= Cardinality(s) * m)}
<1>1. \A s \in SUBSET S : IsFiniteSet(s) /\ Cardinality(s) \in Int
  <2>1. \A s \in SUBSET S : IsFiniteSet(s)
    BY FS_Subset, Zenon
  <2>2. \A s \in SUBSET S : Cardinality(s) \in Nat
    BY <2>1, FS_CardinalityType, Zenon
  <2> QED BY <2>1, <2>2, SMT, SMTT(30)
<1>2. ASSUME C # {} PROVE FALSE
  <2>1. PICK s \in C : \A x \in s : s \ {x} \notin C
    BY <1>1, <1>2, SmallestSet, Zenon
  <2>2. s \in SUBSET S /\ ~(SumFunctionOnSet(f, s) >= Cardinality(s) * m) /\ IsFiniteSet(s)
    BY <1>1, Zenon
  <2>3. s # {}
    <3>1. 0 >= 0 * m
      BY SMT, SMTT(30)
    <3>2. SumFunctionOnSet(f, {}) = 0 /\ Cardinality({}) = 0
      BY SumEmpty, FS_EmptySet, Zenon
    <3> QED BY <2>2, <3>1, <3>2, Zenon
  <2>4. One(s) \in s
    BY <2>3, OneIn, Zenon
  <2> DEFINE r == s \ {One(s)}
  <2>5. r \in SUBSET S /\ r \notin C /\ One(s) \in S
    BY <2>1, <2>2, <2>4, Zenon
  <2>6. SumFunctionOnSet(f, r) >= Cardinality(r) * m
    BY <2>5, Zenon
  <2>7. Cardinality(r) = Cardinality(s) - 1
    BY <2>2, <2>4, FS_RemoveElement, Zenon
  <2>8. SumFunctionOnSet(f, s) = f[One(s)] + SumFunctionOnSet(f, r)
    BY <2>2, <2>3, SumStep, Zenon
  <2>9. SumFunctionOnSet(f, r) \in Int
    <3>1. IsFiniteSet(r) /\ \A x \in r : f[x] \in Int
      BY <1>1, <2>5, Zenon
    <3> QED BY <3>1, SumType, Zenon
  <2>10. f[One(s)] \in Int /\ f[One(s)] >= m /\ Cardinality(s) \in Int
    BY <1>1, <2>2, <2>5, Zenon
  <2>11. SumFunctionOnSet(f, r) >= (Cardinality(s) - 1) * m
    BY <2>6, <2>7, Zenon
  <2> HIDE DEF r
  <2>12. f[One(s)] + SumFunctionOnSet(f, r) >= Cardinality(s) * m
    BY <2>9, <2>10, <2>11, OneLess, Zenon
  <2> QED BY <2>2, <2>8, <2>12, Zenon
<1>3. S \in SUBSET S
  BY Zenon
<1> QED BY <1>2, <1>3, Zenon

\* Two numbers add in either order.
LEMMA EitherFirst ==
  ASSUME NEW a \in Int, NEW b \in Int, NEW c \in Int
  PROVE  a + (b + c) = b + (a + c)
BY SMT, SMTT(30)

\* What one element adds to a sum, whichever the fold takes first.
LEMMA SumAdds ==
  ASSUME NEW f, NEW S, IsFiniteSet(S), NEW x \in S, \A y \in S : f[y] \in Int
  PROVE  SumFunctionOnSet(f, S) = f[x] + SumFunctionOnSet(f, S \ {x})
<1> DEFINE sum(s) == SumFunctionOnSet(f, s)
           C == {s \in SUBSET S : \E y \in s : sum(s) # f[y] + sum(s \ {y})}
<1>1. \A s \in SUBSET S : IsFiniteSet(s) /\ sum(s) \in Int
  <2>1. \A s \in SUBSET S : IsFiniteSet(s)
    BY FS_Subset, Zenon
  <2>2. ASSUME NEW s \in SUBSET S PROVE sum(s) \in Int
    <3>1. IsFiniteSet(s) /\ \A y \in s : f[y] \in Int
      BY <2>1, Zenon
    <3> QED BY <3>1, SumType, Zenon
  <2> QED BY <2>1, <2>2, Zenon
<1> HIDE DEF sum
<1>2. ASSUME C # {} PROVE FALSE
  <2>1. PICK s \in C : \A y \in s : s \ {y} \notin C
    BY <1>1, <1>2, SmallestSet, Zenon
  <2>2. PICK y \in s : sum(s) # f[y] + sum(s \ {y})
    BY Zenon
  <2>3. s \in SUBSET S /\ s # {} /\ IsFiniteSet(s)
    BY <1>1, Zenon
  <2> DEFINE o == One(s)
  <2>4. o \in s /\ sum(s) = f[o] + sum(s \ {o})
    BY <2>3, OneIn, SumStep, Zenon DEF sum
  <2> HIDE DEF o
  <2>5. o # y
    BY <2>2, <2>4, Zenon
  <2>6. /\ s \ {o} \in SUBSET S /\ s \ {y} \in SUBSET S /\ (s \ {o}) \ {y} \in SUBSET S
        /\ y \in s \ {o} /\ o \in s \ {y} /\ s \ {o} \notin C /\ s \ {y} \notin C
        /\ (s \ {o}) \ {y} = (s \ {y}) \ {o}
    BY <2>1, <2>3, <2>4, <2>5, Zenon
  <2>7. sum(s \ {o}) = f[y] + sum((s \ {o}) \ {y}) /\ sum(s \ {y}) = f[o] + sum((s \ {y}) \ {o})
    BY <2>6, Zenon
  <2>8. f[y] \in Int /\ f[o] \in Int /\ sum((s \ {o}) \ {y}) \in Int
    BY <1>1, <2>3, <2>4, <2>6, Zenon
  <2>9. sum(s) = f[o] + (f[y] + sum((s \ {o}) \ {y})) /\ sum(s) # f[y] + (f[o] + sum((s \ {o}) \ {y}))
    BY <2>2, <2>4, <2>6, <2>7, Zenon
  <2> QED BY <2>8, <2>9, EitherFirst, ZenonT(40)
<1>3. S \in SUBSET S
  BY ZenonT(40)
<1>4. sum(S) = f[x] + sum(S \ {x})
  BY <1>2, <1>3, Zenon
<1> QED BY <1>4, Zenon DEF sum

\* Counting one more adds one to a sum that counts it.
LEMMA SumBump ==
  ASSUME NEW S, IsFiniteSet(S), NEW f, NEW g, NEW r \in S,
         \A x \in S : f[x] \in Int, \A x \in S : g[x] \in Int
  PROVE  (\A x \in S \ {r} : g[x] = f[x]) /\ g[r] = f[r] + 1
           => SumFunctionOnSet(g, S) = SumFunctionOnSet(f, S) + 1
<1>1. SumFunctionOnSet(g, S) = g[r] + SumFunctionOnSet(g, S \ {r})
  BY SumAdds, SMT, SMTT(20)
<1>2. SumFunctionOnSet(f, S) = f[r] + SumFunctionOnSet(f, S \ {r})
  BY SumAdds, SMT, SMTT(20)
<1>3. IsFiniteSet(S \ {r}) /\ \A x \in S \ {r} : f[x] \in Int
  BY FS_RemoveElement, Zenon
<1>4. (\A x \in S \ {r} : g[x] = f[x]) => SumFunctionOnSet(g, S \ {r}) = SumFunctionOnSet(f, S \ {r})
  BY <1>3, SumAgree, ZenonT(40)
<1>5. SumFunctionOnSet(f, S \ {r}) \in Int /\ f[r] \in Int
  BY <1>3, SumType, ZenonT(40)
<1> QED BY <1>1, <1>2, <1>4, <1>5, SMT, SMTT(30)

(***************************************************************************)
(* The sets a handler enters                                               *)
(***************************************************************************)
\* A set that at most one element enters or leaves.
LEMMA SameSet ==
  ASSUME NEW S, NEW T, NEW h, S \ {h} = T \ {h}, h \in S <=> h \in T
  PROVE  T = S
BY SMT, SMTT(30)

\* A set that one element enters.
LEMMA Gains ==
  ASSUME NEW S, NEW T, NEW h, S \ {h} = T \ {h}, h \notin S, h \in T, IsFiniteSet(S)
  PROVE  IsFiniteSet(T) /\ Cardinality(T) = Cardinality(S) + 1 /\ T \ {h} = S
<1>1. T = S \union {h} /\ T \ {h} = S
  BY Zenon
<1> QED BY <1>1, FS_AddElement, Zenon

\* The step of one handler, in what the others have.
Moves(h) ==
  \/ \E t \in Transports : Ingress(h, t)
  \/ \E r \in Rcodes : Answer(h, r) \/ \E d \in Samples : Fetched(h, r, d)
  \/ \E d \in Samples : Sent(h, d)
  \/ Drop(h) \/ Record(h)

Alone(h) ==
  \A g \in Handlers \ {h} : /\ hpc'[g] = hpc[g] /\ hvia'[g] = hvia[g] /\ rcode'[g] = rcode[g]
                            /\ us'[g] = us[g] /\ seen'[g] = seen[g]

\* A handler changes nothing of another, nor the snapshot.
LEMMA MovesAlone ==
  ASSUME CountersTyped, NEW h \in Handlers, Moves(h)
  PROVE  Alone(h) /\ spc' = spc /\ snap' = snap
<1>1. CASE \E t \in Transports : Ingress(h, t)
  BY <1>1, Zenon DEF Ingress, At, Alone, CountersTyped
<1>2. CASE \E r \in Rcodes : Answer(h, r) \/ \E d \in Samples : Fetched(h, r, d)
  BY <1>2, SMT, ZenonT(40) DEF Answer, Fetched, At, Alone, CountersTyped
<1>3. CASE \E d \in Samples : Sent(h, d)
  BY <1>3, ZenonT(40) DEF Sent, At, Alone, CountersTyped
<1>4. CASE Drop(h) \/ AddTotal(h) \/ AddCount(h)
  BY <1>4, ZenonT(40) DEF Drop, AddTotal, AddCount, At, Alone, CountersTyped
<1>5. CASE LoadMin(h) \/ LoadMax(h)
  BY <1>5, ZenonT(40) DEF LoadMin, LoadMax, At, Alone, CountersTyped
<1>6. CASE CasMin(h) \/ CasMax(h)
  BY <1>6, ZenonT(40) DEF CasMin, CasMax, At, Alone, CountersTyped
<1> QED BY <1>1, <1>2, <1>3, <1>4, <1>5, <1>6, ZenonT(40) DEF Moves, Record

\* Only the handler itself can enter or leave the sets that are counted.
LEMMA AloneInSets ==
  ASSUME NEW h \in Handlers, Alone(h)
  PROVE  /\ Began \ {h} = Began' \ {h} /\ CountedNow \ {h} = CountedNow' \ {h}
         /\ \A r : CountedAs(r) \ {h} = CountedAs(r)' \ {h}
         /\ \A m : Added(m) \ {h} = Added(m)' \ {h} /\ InCount(m) \ {h} = InCount(m)' \ {h}
<1>1. \A g \in Handlers \ {h} : (Begun(g) <=> Begun(g)') /\ (Counted(g) <=> Counted(g)') /\ M(g)' = M(g)
  BY Zenon DEF Alone, Begun, Counted, M
<1>2. Began \ {h} = Began' \ {h}
  BY <1>1, Zenon DEF Began
<1>3. CountedNow \ {h} = CountedNow' \ {h}
  BY <1>1, Zenon DEF CountedNow
<1>4. ASSUME NEW r PROVE CountedAs(r) \ {h} = CountedAs(r)' \ {h}
  BY <1>3, Zenon DEF CountedAs, CountedNow, Alone
<1>5. ASSUME NEW m PROVE Added(m) \ {h} = Added(m)' \ {h}
  BY <1>1, ZenonT(40) DEF Added, Alone
<1>6. ASSUME NEW m PROVE InCount(m) \ {h} = InCount(m)' \ {h}
  BY <1>5, SMT, SMTT(30) DEF InCount, Added, Alone
<1> QED BY <1>2, <1>3, <1>4, <1>5, <1>6, Zenon

\* What is counted has begun, so it is finite, and open is what is left.
LEMMA FiniteSets1 ==
  ASSUME CountersTyped, \A h \in Handlers : Fits(h), Books
  PROVE  /\ IsFiniteSet(CountedNow) /\ CountedNow \subseteq Began
         /\ \A r : IsFiniteSet(CountedAs(r))
         /\ \A m : IsFiniteSet(Added(m)) /\ IsFiniteSet(InCount(m)) /\ InCount(m) \subseteq Added(m)
         /\ Open = Cardinality(Began) - Cardinality(CountedNow)
         /\ Open \in Nat
<1>0. IsFiniteSet(Began)
  BY Zenon DEF Books
<1>1. CountedNow \subseteq Began
  BY Zenon DEF CountedNow, Began, Counted, Begun
<1>2. IsFiniteSet(CountedNow)
  BY <1>0, <1>1, FS_Subset, Zenon
<1>3. ASSUME NEW r PROVE IsFiniteSet(CountedAs(r))
  <2>1. CountedAs(r) \in SUBSET CountedNow
    BY Zenon DEF CountedAs
  <2> QED BY <1>2, <2>1, FS_Subset, Zenon
<1>4. ASSUME NEW m PROVE IsFiniteSet(Added(m)) /\ IsFiniteSet(InCount(m)) /\ InCount(m) \subseteq Added(m)
  <2>1. Added(m) \in SUBSET Began /\ InCount(m) \in SUBSET Began /\ InCount(m) \subseteq Added(m)
    BY Zenon DEF Added, InCount, Began, Begun
  <2> QED BY <1>0, <2>1, FS_Subset, Zenon
<1>5. {h \in Handlers : Begun(h) /\ ~Counted(h)} = Began \ CountedNow
  BY Zenon DEF Began, CountedNow
<1>6. IsFiniteSet(Began \ CountedNow) /\ Began \cap CountedNow = CountedNow
  BY <1>0, <1>1, FS_Difference, Zenon
<1>7. Cardinality(Began \ CountedNow) = Cardinality(Began) - Cardinality(Began \cap CountedNow)
  BY <1>0, FS_Difference, Zenon
<1>8. Cardinality(Began \ CountedNow) \in Nat
  BY <1>6, FS_CardinalityType, Zenon
<1> QED BY <1>1, <1>2, <1>3, <1>4, <1>5, <1>6, <1>7, <1>8, Zenon DEF Open

(***************************************************************************)
(* The steps of a handler                                                  *)
(***************************************************************************)
\* What a load that is not enough says of the sample.
LEMMA NotEnough ==
  ASSUME NEW a \in Nat, NEW b \in Nat
  PROVE  /\ ~(a # 0 /\ a <= b) => a = 0 \/ b < a
         /\ ~(a >= b) => a < b
BY SMT, SMTT(30)

\* Everything but the books, the sums and the report: the types, and what
\* goes with the handler's position.
LEMMA TypedStep ==
  ASSUME CountersTyped, NEW h \in Handlers, Fits(h), Moves(h)
  PROVE  CountersTyped' /\ Fits(h)'
<1> USE DEF CountersTyped, Recording, Positions, Fits, M, Mode, NoSample
<1>0. M(h) \in {1, 2} /\ us[h] \in Samples \union {NoSample} /\ Samples \subseteq Nat
  BY CountersAssumption, Zenon
<1>00. hpc[h] \in Recording => us[h] \in Nat
  BY <1>0, Zenon
<1>1. CASE \E t \in Transports : Ingress(h, t)
  BY <1>0, <1>1, SMT, SMTT(30) DEF Ingress, At
<1>2. CASE \E r \in Rcodes : Answer(h, r)
  BY <1>0, <1>2, SMT, SMTT(30) DEF Answer, At, counters
<1>3. CASE \E r \in Rcodes : \E d \in Samples : Fetched(h, r, d)
  BY <1>0, <1>3, SMT, SMTT(30) DEF Fetched, At, counters
<1>4. CASE \E d \in Samples : Sent(h, d)
  BY <1>0, <1>4, SMT, SMTT(30) DEF Sent
<1>5. CASE Drop(h)
  BY <1>0, <1>5, Zenon DEF Drop, At, counters
<1>6. CASE AddTotal(h)
  BY <1>0, <1>6, SMT, SMTT(30) DEF AddTotal, At
<1>7. CASE AddCount(h)
  BY <1>0, <1>7, SMT, SMTT(30) DEF AddCount, At
<1>8. CASE LoadMin(h)
  <2>1. /\ hpc[h] = "min" /\ hvia' = hvia /\ rcode' = rcode /\ us' = us /\ queries' = queries
        /\ bucket' = bucket /\ lat' = lat /\ spc' = spc /\ snap' = snap /\ lat[M(h)].min \in Nat
    BY <1>0, <1>8, Zenon DEF LoadMin, At, counters
  <2>2. CASE lat[M(h)].min # 0 /\ lat[M(h)].min <= us[h]
    <3>1. hpc' = [hpc EXCEPT ![h] = "max"] /\ seen' = [seen EXCEPT ![h] = 0]
      BY <1>8, <2>2, Zenon DEF LoadMin, At, Recorded
    <3> QED BY <1>0, <2>1, <3>1, Zenon DEF Recorded
  <2>3. CASE ~(lat[M(h)].min # 0 /\ lat[M(h)].min <= us[h])
    <3>1. hpc' = [hpc EXCEPT ![h] = "casmin"] /\ seen' = [seen EXCEPT ![h] = lat[M(h)].min]
      BY <1>8, <2>3, Zenon DEF LoadMin, At
    <3>2. us[h] \in Nat /\ (lat[M(h)].min = 0 \/ us[h] < lat[M(h)].min)
      <4>1. us[h] \in Nat /\ lat[M(h)].min \in Nat
        BY <1>00, <2>1, Zenon
      <4> HIDE DEF M
      <4> QED BY <2>3, <4>1, NotEnough, Zenon
    <3>3. CountersTyped'
      BY <2>1, <3>1, Zenon
    <3>4. hpc'[h] = "casmin" /\ seen'[h] = lat[M(h)].min /\ us'[h] = us[h] /\ rcode'[h] = rcode[h] /\ M(h)' = M(h)
      BY <2>1, <3>1, Zenon
    <3>5. Fits(h)'
      BY <2>1, <3>2, <3>4, ZenonT(40)
    <3> QED BY <3>3, <3>5, Zenon
  <2> QED BY <2>2, <2>3, Zenon
<1>9. CASE CasMin(h)
  BY <1>0, <1>9, SMT, SMTT(30) DEF CasMin, At
<1>10. CASE LoadMax(h)
  <2>1. /\ hpc[h] = "max" /\ hvia' = hvia /\ rcode' = rcode /\ us' = us /\ queries' = queries
        /\ bucket' = bucket /\ lat' = lat /\ spc' = spc /\ snap' = snap /\ lat[M(h)].max \in Nat
    BY <1>0, <1>10, ZenonT(40) DEF LoadMax, At, counters
  <2>2. CASE lat[M(h)].max >= us[h]
    <3>1. hpc' = [hpc EXCEPT ![h] = Recorded(h)] /\ seen' = [seen EXCEPT ![h] = 0]
      BY <1>10, <2>2, ZenonT(40) DEF LoadMax, At, Recorded
    <3> QED BY <1>0, <2>1, <3>1, SMT, SMTT(30) DEF Recorded
  <2>3. CASE ~(lat[M(h)].max >= us[h])
    <3>1. hpc' = [hpc EXCEPT ![h] = "casmax"] /\ seen' = [seen EXCEPT ![h] = lat[M(h)].max]
      BY <1>10, <2>3, Zenon DEF LoadMax, At
    <3>2. us[h] \in Nat /\ (lat[M(h)].max < us[h])
      <4>1. us[h] \in Nat /\ lat[M(h)].max \in Nat
        BY <1>00, <2>1, Zenon
      <4> HIDE DEF M
      <4> QED BY <2>3, <4>1, NotEnough, Zenon
    <3>3. CountersTyped'
      BY <2>1, <3>1, Zenon
    <3>4. hpc'[h] = "casmax" /\ seen'[h] = lat[M(h)].max /\ us'[h] = us[h] /\ rcode'[h] = rcode[h] /\ M(h)' = M(h)
      BY <2>1, <3>1, Zenon
    <3>5. Fits(h)'
      BY <2>1, <3>2, <3>4, Zenon
    <3> QED BY <3>3, <3>5, Zenon
  <2> QED BY <2>2, <2>3, Zenon
<1>11. CASE CasMax(h)
  BY <1>0, <1>11, SMT, SMTT(30) DEF CasMax, At, Recorded
<1> QED BY <1>1, <1>2, <1>3, <1>4, <1>5, <1>6, <1>7, <1>8, <1>9, <1>10, <1>11, Zenon DEF Moves, Record

\* A step that leaves the books alone, one that leaves the samples of both
\* modes alone, and one that leaves their extremes alone too.
KeepsBooks(h) ==
  /\ Begun(h) /\ Begun(h)' /\ (Counted(h)' <=> Counted(h)) /\ (Counted(h) => rcode'[h] = rcode[h])
  /\ queries' = queries /\ bucket' = bucket
KeepsSums(h) ==
  \A m \in {1, 2} :
    /\ (h \in Added(m)' <=> h \in Added(m)) /\ (h \in InCount(m)' <=> h \in InCount(m))
    /\ h \in Added(m) => us'[h] = us[h]
    /\ lat'[m].total = lat[m].total /\ lat'[m].count = lat[m].count
KeepsExtremes(h) ==
  /\ lat' = lat
  /\ \A m \in {1, 2} : h \in Added(m) =>
       /\ hpc'[h] \in Past => hpc[h] \in Past
       /\ hpc'[h] \in Past \union {"max", "casmax"} => hpc[h] \in Past \union {"max", "casmax"}

\* A query comes in.
LEMMA IngressKeeps ==
  ASSUME CountersTyped, NEW h \in Handlers, Fits(h), NEW t \in Transports, Ingress(h, t)
  PROVE  /\ ~Begun(h) /\ Begun(h)' /\ ~Counted(h) /\ ~Counted(h)' /\ queries' = queries + 1 /\ bucket' = bucket
         /\ KeepsSums(h) /\ KeepsExtremes(h)
<1>1. /\ hpc[h] = "free" /\ hpc'[h] = "resolve" /\ us'[h] = us[h] /\ us[h] = NoSample
      /\ lat' = lat /\ queries' = queries + 1 /\ bucket' = bucket
  BY Zenon DEF Ingress, At, CountersTyped, Fits
<1>2. ~Counted(h) /\ ~Counted(h)'
  BY <1>1, Zenon DEF Counted
<1>3. \A m : h \notin Added(m) /\ h \notin Added(m)'
  BY <1>1, Zenon DEF Added
<1>4. KeepsSums(h) /\ KeepsExtremes(h)
  BY <1>1, <1>3, Zenon DEF KeepsSums, KeepsExtremes, InCount
<1> QED BY <1>1, <1>2, <1>4, Zenon DEF Begun

\* An answer or a timed fetch before the reply.
LEMMA AnswerKeeps ==
  ASSUME CountersTyped, NEW h \in Handlers, Fits(h), NEW r \in Rcodes,
         Answer(h, r) \/ \E d \in Samples : Fetched(h, r, d)
  PROVE  KeepsBooks(h) /\ KeepsSums(h) /\ KeepsExtremes(h)
<1>1. /\ hpc[h] = "resolve" /\ (hpc'[h] = "reply" \/ (hpc'[h] = "add" /\ M(h) = 1))
      /\ us[h] = NoSample /\ (hpc'[h] = "reply" => us'[h] = NoSample) /\ hvia' = hvia
      /\ lat' = lat /\ queries' = queries /\ bucket' = bucket
  BY Zenon DEF Answer, Fetched, At, CountersTyped, Fits, counters
<1>2. M(h)' = M(h) /\ 1 # 2
  BY <1>1, SMT, SMTT(30) DEF M
<1>3. ~Counted(h) /\ ~Counted(h)'
  BY <1>1, <1>2, Zenon DEF Counted
<1>4. \A m : h \notin Added(m) /\ h \notin Added(m)'
  BY <1>1, Zenon DEF Added
<1>5. KeepsSums(h) /\ KeepsExtremes(h)
  BY <1>1, <1>4, Zenon DEF KeepsSums, KeepsExtremes, InCount
<1> QED BY <1>1, <1>3, <1>5, Zenon DEF KeepsBooks, Begun

\* A reply that cannot be sent.
LEMMA DropKeeps ==
  ASSUME CountersTyped, NEW h \in Handlers, Fits(h), Drop(h)
  PROVE  KeepsBooks(h) /\ KeepsSums(h) /\ KeepsExtremes(h)
<1>1. /\ hpc[h] = "reply" /\ hpc'[h] = "dropped" /\ us' = us /\ hvia' = hvia
      /\ lat' = lat /\ queries' = queries /\ bucket' = bucket
  BY Zenon DEF Drop, At, CountersTyped, counters
<1>2. M(h)' = M(h)
  BY <1>1, Zenon DEF M
<1>3. ~Counted(h) /\ ~Counted(h)'
  BY <1>1, <1>2, Zenon DEF Counted
<1>4. \A m : h \in Added(m)' <=> h \in Added(m)
  BY <1>1, <1>2, <1>3, Zenon DEF Added
<1>5. \A m : h \in InCount(m)' <=> h \in InCount(m)
  BY <1>1, <1>4, Zenon DEF InCount
<1>6. KeepsSums(h) /\ KeepsExtremes(h)
  BY <1>1, <1>4, <1>5, Zenon DEF KeepsSums, KeepsExtremes, Past
<1> QED BY <1>1, <1>3, <1>6, Zenon DEF KeepsBooks, Begun

\* A reply that is sent.
LEMMA SentKeeps ==
  ASSUME CountersTyped, NEW h \in Handlers, Fits(h), NEW d \in Samples, Sent(h, d)
  PROVE  /\ Begun(h) /\ Begun(h)' /\ ~Counted(h) /\ Counted(h)' /\ queries' = queries
         /\ rcode[h] \in Rcodes /\ rcode' = rcode /\ bucket' = [bucket EXCEPT ![rcode[h]] = @ + 1]
         /\ KeepsSums(h) /\ KeepsExtremes(h)
<1>1. /\ hpc[h] = "reply" /\ hvia' = hvia /\ rcode' = rcode /\ rcode[h] \in Rcodes
      /\ lat' = lat /\ queries' = queries /\ bucket' = [bucket EXCEPT ![rcode[h]] = @ + 1]
  BY Zenon DEF Sent, Fits
<1>2. M(h)' = M(h) /\ M(h) \in {1, 2} /\ 1 # 2
  BY <1>1, SMT, SMTT(30) DEF M, Mode
<1>3. M(h) = 1 => hpc'[h] = "done" /\ us'[h] = us[h]
  BY <1>2, Zenon DEF Sent, CountersTyped
<1>4. M(h) = 2 => hpc'[h] = "add" /\ us[h] = NoSample
  BY <1>1, <1>2, Zenon DEF Sent, CountersTyped, Fits
<1>5. ~Counted(h) /\ Counted(h)' /\ Begun(h) /\ Begun(h)'
  BY <1>1, <1>2, <1>3, <1>4, Zenon DEF Counted, Begun
<1>6. \A m : (h \in Added(m)' <=> h \in Added(m)) /\ (h \in Added(m) => us'[h] = us[h])
  BY <1>1, <1>2, <1>3, <1>4, Zenon DEF Added
<1>7. \A m : h \in InCount(m)' <=> h \in InCount(m)
  BY <1>1, <1>2, <1>3, <1>4, <1>6, Zenon DEF InCount
<1>8. KeepsSums(h) /\ KeepsExtremes(h)
  BY <1>1, <1>6, <1>7, Zenon DEF KeepsSums, KeepsExtremes, Past
<1> QED BY <1>1, <1>5, <1>8, Zenon

\* The sum of a mode takes a sample.
LEMMA AddTotalKeeps ==
  ASSUME CountersTyped, NEW h \in Handlers, Fits(h), AddTotal(h)
  PROVE  /\ KeepsBooks(h) /\ us' = us /\ hpc'[h] = "count"
         /\ h \notin Added(M(h)) /\ h \in Added(M(h))'
         /\ \A m : h \notin InCount(m) /\ h \notin InCount(m)'
         /\ \A m : m # M(h) => h \notin Added(m) /\ h \notin Added(m)'
         /\ lat' = [lat EXCEPT ![M(h)].total = @ + us[h]]
<1>1. /\ hpc[h] = "add" /\ hpc'[h] = "count" /\ hvia' = hvia /\ rcode' = rcode /\ us' = us
      /\ us[h] # NoSample /\ lat' = [lat EXCEPT ![M(h)].total = @ + us[h]]
      /\ queries' = queries /\ bucket' = bucket
  BY Zenon DEF AddTotal, At, CountersTyped, Fits, Recording
<1>2. M(h)' = M(h) /\ M(h) \in {1, 2}
  BY <1>1, Zenon DEF M, Mode
<1>3. (Counted(h) <=> M(h) = 2) /\ (Counted(h)' <=> M(h) = 2)
  BY <1>1, <1>2, Zenon DEF Counted
<1>4. \A m : h \notin Added(m) /\ (h \in Added(m)' <=> m = M(h))
  BY <1>1, <1>2, <1>3, Zenon DEF Added
<1>5. \A m : h \notin InCount(m) /\ h \notin InCount(m)'
  BY <1>1, <1>4, Zenon DEF InCount
<1> QED BY <1>1, <1>2, <1>3, <1>4, <1>5, Zenon DEF KeepsBooks, Begun

\* The count of a mode takes a sample.
LEMMA AddCountKeeps ==
  ASSUME CountersTyped, NEW h \in Handlers, Fits(h), AddCount(h)
  PROVE  /\ KeepsBooks(h) /\ us' = us /\ hpc'[h] = "min"
         /\ h \notin InCount(M(h)) /\ h \in InCount(M(h))'
         /\ \A m : h \in Added(m) <=> h \in Added(m)'
         /\ \A m : m # M(h) => h \notin InCount(m) /\ h \notin InCount(m)'
         /\ lat' = [lat EXCEPT ![M(h)].count = @ + 1]
<1>1. /\ hpc[h] = "count" /\ hpc'[h] = "min" /\ hvia' = hvia /\ rcode' = rcode /\ us' = us
      /\ us[h] # NoSample /\ lat' = [lat EXCEPT ![M(h)].count = @ + 1]
      /\ queries' = queries /\ bucket' = bucket
  BY Zenon DEF AddCount, At, CountersTyped, Fits, Recording
<1>2. M(h)' = M(h) /\ M(h) \in {1, 2}
  BY <1>1, Zenon DEF M, Mode
<1>3. (Counted(h) <=> M(h) = 2) /\ (Counted(h)' <=> M(h) = 2)
  BY <1>1, <1>2, Zenon DEF Counted
<1>4. \A m : (h \in Added(m) <=> m = M(h)) /\ (h \in Added(m)' <=> m = M(h))
  BY <1>1, <1>2, <1>3, Zenon DEF Added
<1>5. \A m : h \notin InCount(m) /\ (h \in InCount(m)' <=> m = M(h))
  BY <1>1, <1>4, Zenon DEF InCount
<1> QED BY <1>1, <1>2, <1>3, <1>4, <1>5, Zenon DEF KeepsBooks, Begun

\* The loops that keep the extremes.
LEMMA LoopsKeep ==
  ASSUME CountersTyped, NEW h \in Handlers, Fits(h), LoadMin(h) \/ CasMin(h) \/ LoadMax(h) \/ CasMax(h)
  PROVE  /\ KeepsBooks(h) /\ KeepsSums(h) /\ us' = us /\ M(h)' = M(h) /\ M(h) \in {1, 2}
         /\ \A m : h \in Added(m) <=> m = M(h)
<1>1. /\ hpc[h] \in {"min", "casmin", "max", "casmax"}
      /\ hpc'[h] \in {"min", "casmin", "max", "casmax", Recorded(h)}
      /\ hvia' = hvia /\ rcode' = rcode /\ us' = us /\ queries' = queries /\ bucket' = bucket
  <2>1. CASE LoadMin(h)
    BY <2>1, Zenon DEF LoadMin, At, CountersTyped, counters
  <2>2. CASE CasMin(h)
    BY <2>2, Zenon DEF CasMin, At, CountersTyped
  <2>3. CASE LoadMax(h)
    BY <2>3, Zenon DEF LoadMax, At, CountersTyped, counters
  <2>4. CASE CasMax(h)
    BY <2>4, Zenon DEF CasMax, At, CountersTyped
  <2> QED BY <2>1, <2>2, <2>3, <2>4, ZenonT(40)
<1>2. M(h)' = M(h) /\ M(h) \in {1, 2} /\ 1 # 2
  BY <1>1, SMT, SMTT(30) DEF M, Mode
<1>3. (M(h) = 1 => Recorded(h) = "reply") /\ (M(h) = 2 => Recorded(h) = "done") /\ us[h] # NoSample
  BY <1>1, <1>2, Zenon DEF Recorded, Fits, Recording
<1>4. (Counted(h) <=> M(h) = 2) /\ (Counted(h)' <=> M(h) = 2) /\ Begun(h) /\ Begun(h)'
  BY <1>1, <1>2, <1>3, Zenon DEF Counted, Begun
<1>5. \A m : (h \in Added(m) <=> m = M(h)) /\ (h \in Added(m)' <=> m = M(h))
  <2>1. hpc'[h] \notin {"free", "resolve", "add"} /\ hpc[h] \notin {"free", "resolve", "add"}
    BY <1>1, <1>2, <1>3, Zenon
  <2> QED BY <1>1, <1>2, <1>3, <1>4, <2>1, Zenon DEF Added
<1>6. hpc[h] # "count" /\ hpc'[h] # "count"
  BY <1>1, <1>2, <1>3, Zenon
<1>7. \A m : (h \in InCount(m)' <=> m = M(h)) /\ (h \in InCount(m) <=> m = M(h))
  BY <1>5, <1>6, Zenon DEF InCount
<1>8. \A m \in {1, 2} : lat'[m].total = lat[m].total /\ lat'[m].count = lat[m].count
  <2>1. CASE LoadMin(h) \/ LoadMax(h)
    BY <2>1, Zenon DEF LoadMin, LoadMax, counters
  <2>2. CASE CasMin(h)
    BY <1>2, <2>2, Zenon DEF CasMin, CountersTyped
  <2>3. CASE CasMax(h)
    BY <1>2, <2>3, Zenon DEF CasMax, CountersTyped
  <2> QED BY <2>1, <2>2, <2>3, Zenon
<1>9. KeepsBooks(h)
  BY <1>1, <1>4, Zenon DEF KeepsBooks
<1>10. KeepsSums(h)
  BY <1>1, <1>5, <1>7, <1>8, Zenon DEF KeepsSums
<1> QED BY <1>1, <1>2, <1>5, <1>9, <1>10, ZenonT(40)

\* The books after a step that leaves them alone.
LEMMA BooksKept ==
  ASSUME NEW h \in Handlers, Alone(h), Books, KeepsBooks(h)
  PROVE  Books'
<1>1. Began' = Began
  <2>1. h \in Began <=> h \in Began'
    BY Zenon DEF KeepsBooks, Began
  <2> QED BY <2>1, AloneInSets, SameSet, Zenon
<1>2. CountedNow' = CountedNow
  <2>1. h \in CountedNow <=> h \in CountedNow'
    BY Zenon DEF KeepsBooks, CountedNow
  <2> QED BY <2>1, AloneInSets, SameSet, Zenon
<1>3. ASSUME NEW r \in Rcodes PROVE CountedAs(r)' = CountedAs(r)
  <2>1. h \in CountedAs(r) <=> h \in CountedAs(r)'
    BY Zenon DEF KeepsBooks, CountedNow, CountedAs
  <2> QED BY <2>1, AloneInSets, SameSet, ZenonT(30)
<1> QED BY <1>1, <1>2, <1>3, ZenonT(40) DEF Books, KeepsBooks

\* The books when a query comes in.
LEMMA IngressBooks ==
  ASSUME CountersTyped, NEW h \in Handlers, Fits(h), Alone(h), Books, NEW t \in Transports, Ingress(h, t)
  PROVE  Books'
<1>0. /\ ~Begun(h) /\ Begun(h)' /\ ~Counted(h) /\ ~Counted(h)' /\ queries' = queries + 1 /\ bucket' = bucket
  BY IngressKeeps, Zenon
<1>1. h \notin Began /\ h \in Began' /\ Began \ {h} = Began' \ {h} /\ IsFiniteSet(Began)
  BY <1>0, AloneInSets, Zenon DEF Began, Books
<1>2. IsFiniteSet(Began') /\ Cardinality(Began') = Cardinality(Began) + 1
  BY <1>1, Gains, Zenon
<1>3. CountedNow' = CountedNow
  <2>1. h \in CountedNow <=> h \in CountedNow'
    BY <1>0, Zenon DEF CountedNow
  <2> QED BY <2>1, AloneInSets, SameSet, ZenonT(40)
<1>4. ASSUME NEW r \in Rcodes PROVE CountedAs(r)' = CountedAs(r)
  <2>1. h \in CountedAs(r) <=> h \in CountedAs(r)'
    BY <1>0, Zenon DEF CountedNow, CountedAs
  <2>2. CountedAs(r) \ {h} = CountedAs(r)' \ {h}
    BY AloneInSets, Zenon
  <2> QED BY <2>1, <2>2, SameSet, ZenonT(60)
<1> QED BY <1>0, <1>2, <1>3, <1>4, ZenonT(40) DEF Books

\* The rcodes are few.
LEMMA RcodesFinite == IsFiniteSet(Rcodes)
<1>1. IsFiniteSet({"servfail"} \union {"nxdomain"} \union {"success"} \union {"other"})
  BY FS_Singleton, FS_Union, Zenon
<1>2. Rcodes \in SUBSET ({"servfail"} \union {"nxdomain"} \union {"success"} \union {"other"})
  BY CountersAssumption, Zenon
<1> QED BY <1>1, <1>2, FS_Subset, Zenon

\* What the counters of some rcodes sum to before and after one more reply.
LEMMA BucketBump ==
  ASSUME CountersTyped, NEW r \in Rcodes, NEW S \in SUBSET Rcodes
  PROVE  bucket' = [bucket EXCEPT ![r] = @ + 1] =>
           /\ r \in S => SumFunctionOnSet(bucket', S) = SumFunctionOnSet(bucket, S) + 1
           /\ r \notin S => SumFunctionOnSet(bucket', S) = SumFunctionOnSet(bucket, S)
<1>1. IsFiniteSet(S)
  BY RcodesFinite, FS_Subset, Zenon
<1>2. ASSUME NEW g, \A x \in S : g[x] = bucket[x]
      PROVE  SumFunctionOnSet(g, S) = SumFunctionOnSet(bucket, S)
  BY <1>1, <1>2, SumAgree, Zenon
<1>3. \A x \in S : bucket[x] \in Int
  BY SMT, SMTT(30) DEF CountersTyped
<1>4. ASSUME r \in S, NEW g, \A x \in S : g[x] \in Int, \A x \in S \ {r} : g[x] = bucket[x], g[r] = bucket[r] + 1
      PROVE  SumFunctionOnSet(g, S) = SumFunctionOnSet(bucket, S) + 1
  BY <1>1, <1>3, <1>4, SumBump, ZenonT(30)
<1> SUFFICES ASSUME bucket' = [bucket EXCEPT ![r] = @ + 1]
    PROVE  /\ r \in S => SumFunctionOnSet(bucket', S) = SumFunctionOnSet(bucket, S) + 1
           /\ r \notin S => SumFunctionOnSet(bucket', S) = SumFunctionOnSet(bucket, S)
  BY Zenon
<1>5. /\ \A x \in S : bucket'[x] \in Int
      /\ \A x \in S \ {r} : bucket'[x] = bucket[x]
      /\ bucket'[r] = bucket[r] + 1
      /\ r \notin S => \A x \in S : bucket'[x] = bucket[x]
  BY SMT, SMTT(30) DEF CountersTyped
<1> QED BY <1>2, <1>4, <1>5, Zenon

\* The books when a reply is sent.
LEMMA SentBooks ==
  ASSUME CountersTyped, \A g \in Handlers : Fits(g), NEW h \in Handlers, Alone(h), Books,
         NEW d \in Samples, Sent(h, d)
  PROVE  Books'
<1>0. /\ Begun(h) /\ Begun(h)' /\ ~Counted(h) /\ Counted(h)' /\ queries' = queries
      /\ rcode[h] \in Rcodes /\ rcode' = rcode /\ bucket' = [bucket EXCEPT ![rcode[h]] = @ + 1]
  BY SentKeeps, Zenon
<1>1. Began' = Began
  <2>1. h \in Began <=> h \in Began'
    BY <1>0, Zenon DEF Began
  <2> QED BY <2>1, AloneInSets, SameSet, Zenon
<1>2. Cardinality(CountedNow') = Cardinality(CountedNow) + 1
  <2>1. h \notin CountedNow /\ h \in CountedNow' /\ CountedNow \ {h} = CountedNow' \ {h}
    BY <1>0, AloneInSets, Zenon DEF CountedNow
  <2>2. IsFiniteSet(CountedNow)
    BY FiniteSets1, Zenon
  <2> QED BY <2>1, <2>2, Gains, Zenon
<1>3. SumFunctionOnSet(bucket', Rcodes) = SumFunctionOnSet(bucket, Rcodes) + 1
  BY <1>0, BucketBump, Zenon
<1>4. ASSUME NEW r \in Rcodes PROVE bucket'[r] = Cardinality(CountedAs(r)')
  <2>1. CASE r = rcode[h]
    <3>1. h \notin CountedAs(r) /\ h \in CountedAs(r)' /\ CountedAs(r) \ {h} = CountedAs(r)' \ {h}
      BY <1>0, <2>1, AloneInSets, Zenon DEF CountedNow, CountedAs
    <3>2. IsFiniteSet(CountedAs(r))
      BY FiniteSets1, Zenon
    <3>3. Cardinality(CountedAs(r)') = Cardinality(CountedAs(r)) + 1
      BY <3>1, <3>2, Gains, Zenon
    <3>4. bucket'[r] = bucket[r] + 1 /\ bucket[r] = Cardinality(CountedAs(r))
      BY <1>0, <2>1, Zenon DEF CountersTyped, Books
    <3> QED BY <3>3, <3>4, Zenon
  <2>2. CASE r # rcode[h]
    <3>1. h \in CountedAs(r) <=> h \in CountedAs(r)'
      BY <1>0, <2>2, Zenon DEF CountedNow, CountedAs
    <3>2. CountedAs(r)' = CountedAs(r)
      <4>1. CountedAs(r) \ {h} = CountedAs(r)' \ {h}
        BY AloneInSets, Zenon
      <4> QED BY <3>1, <4>1, SMT, SMTT(30)
    <3>3. bucket'[r] = bucket[r] /\ bucket[r] = Cardinality(CountedAs(r))
      BY <1>0, <2>2, Zenon DEF CountersTyped, Books
    <3> QED BY <3>2, <3>3, Zenon
  <2> QED BY <2>1, <2>2, Zenon
<1>5. queries' = Cardinality(Began') /\ IsFiniteSet(Began')
  BY <1>0, <1>1, Zenon DEF Books
<1>6. SumFunctionOnSet(bucket', Rcodes) = Cardinality(CountedNow')
  BY <1>2, <1>3, Zenon DEF Books
<1> QED BY <1>4, <1>5, <1>6, Zenon DEF Books

\* A latency is a number, or none was taken.
LEMMA SamplesAre ==
  ASSUME CountersTyped
  PROVE  \A h \in Handlers : us[h] \in Int /\ (us[h] # NoSample => us[h] \in Nat)
<1> TAKE h \in Handlers
<1>1. us[h] \in Samples \/ us[h] = NoSample
  BY Zenon DEF CountersTyped
<1>2. us[h] \in Samples => us[h] \in Nat
  BY CountersAssumption, Zenon
<1>3. us[h] = NoSample => us[h] \in Int
  BY SMT, SMTT(30) DEF NoSample
<1>4. us[h] \in Nat => us[h] \in Int
  BY SMT, SMTT(30)
<1> QED BY <1>1, <1>2, <1>3, <1>4, Zenon

\* The samples after a step that leaves them alone.
LEMMA SumsKept ==
  ASSUME NEW h \in Handlers, Alone(h), NEW m \in {1, 2}, IsFiniteSet(Added(m)), Sums(m), KeepsSums(h)
  PROVE  Sums(m)' /\ Added(m)' = Added(m) /\ \A g \in Added(m) : us'[g] = us[g]
<1>0. ASSUME NEW f, \A g \in Added(m) : f[g] = us[g]
      PROVE  SumFunctionOnSet(f, Added(m)) = SumFunctionOnSet(us, Added(m))
  BY <1>0, SumAgree, Zenon
<1>1. Added(m) \ {h} = Added(m)' \ {h} /\ InCount(m) \ {h} = InCount(m)' \ {h}
  BY AloneInSets, Zenon
<1>2. Added(m)' = Added(m)
  <2>1. h \in Added(m) <=> h \in Added(m)'
    BY Zenon DEF KeepsSums
  <2> QED BY <1>1, <2>1, SameSet, Zenon
<1>3. InCount(m)' = InCount(m)
  <2>1. h \in InCount(m) <=> h \in InCount(m)'
    BY Zenon DEF KeepsSums
  <2> QED BY <1>1, <2>1, SameSet, Zenon
<1>4. \A g \in Added(m) : us'[g] = us[g]
  <2>1. Added(m) \subseteq Handlers
    BY Zenon DEF Added
  <2> QED BY <2>1, Zenon DEF KeepsSums, Alone
<1>5. SumFunctionOnSet(us', Added(m)) = SumFunctionOnSet(us, Added(m))
  BY <1>0, <1>4, Zenon
<1>6. lat'[m].total = lat[m].total /\ lat'[m].count = lat[m].count
  BY Zenon DEF KeepsSums
<1> QED BY <1>2, <1>3, <1>4, <1>5, <1>6, ZenonT(40) DEF Sums

\* The extremes after a step that leaves them alone.
LEMMA ExtremesKept ==
  ASSUME NEW h \in Handlers, Alone(h), NEW m \in {1, 2}, Extremes(m), KeepsExtremes(h),
         Added(m)' = Added(m), \A g \in Added(m) : us'[g] = us[g]
  PROVE  Extremes(m)'
<1>1. Added(m) \subseteq Handlers
  BY Zenon DEF Added
<1>2. \A g \in Added(m) : /\ hpc'[g] \in Past => hpc[g] \in Past
                          /\ hpc'[g] \in Past \union {"max", "casmax"} => hpc[g] \in Past \union {"max", "casmax"}
  BY <1>1, Zenon DEF KeepsExtremes, Alone
<1>3. lat' = lat
  BY Zenon DEF KeepsExtremes
<1> QED BY <1>2, <1>3, Zenon DEF Extremes

\* The samples when the sum takes one.
LEMMA AddTotalSums ==
  ASSUME CountersTyped, NEW h \in Handlers, Fits(h), Alone(h), AddTotal(h), NEW m \in {1, 2},
         IsFiniteSet(Added(m)), Sums(m), Extremes(m)
  PROVE  Sums(m)' /\ Extremes(m)' /\ Added(m) \subseteq Added(m)'
<1>0. /\ us' = us /\ hpc'[h] = "count" /\ h \notin Added(M(h)) /\ h \in Added(M(h))'
      /\ \A n : h \notin InCount(n) /\ h \notin InCount(n)'
      /\ \A n : n # M(h) => h \notin Added(n) /\ h \notin Added(n)'
      /\ lat' = [lat EXCEPT ![M(h)].total = @ + us[h]]
  BY AddTotalKeeps, Zenon
<1>1. Added(m) \ {h} = Added(m)' \ {h} /\ InCount(m) \ {h} = InCount(m)' \ {h}
  BY AloneInSets, Zenon
<1>2. InCount(m)' = InCount(m)
  BY <1>0, <1>1, SameSet, Zenon
<1>3. M(h)' = M(h) /\ M(h) \in {1, 2} /\ lat'[m].count = lat[m].count
  <2>1. hvia' = hvia
    BY Zenon DEF AddTotal
  <2>2. M(h)' = M(h) /\ M(h) \in {1, 2}
    BY <2>1, Zenon DEF M, Mode
  <2> QED BY <1>0, <2>2, ZenonT(40) DEF CountersTyped
<1>4. h \notin Added(m) /\ Added(m) \subseteq Added(m)' /\ (m = M(h) <=> h \in Added(m)')
  BY <1>0, <1>1, <1>3, ZenonT(40)
<1>5. lat'[m].total = SumFunctionOnSet(us, Added(m)')
  <2>1. CASE m # M(h)
    <3>1. Added(m)' = Added(m)
      BY <1>1, <1>4, <2>1, SameSet, ZenonT(40)
    <3>2. lat'[m].total = lat[m].total
      BY <1>0, <1>3, <2>1, ZenonT(40) DEF CountersTyped
    <3> QED BY <3>1, <3>2, Zenon DEF Sums
  <2>2. CASE m = M(h)
    <3> DEFINE A == Added(m)'
    <3>1. h \in A /\ A \ {h} = Added(m) /\ IsFiniteSet(A)
      BY <1>1, <1>4, <2>2, Gains, ZenonT(40)
    <3>2. A \subseteq Handlers
      BY Zenon DEF Added
    <3>3. \A g \in A : us[g] \in Int
      BY <3>2, SamplesAre, Zenon
    <3> HIDE DEF A
    <3>4. SumFunctionOnSet(us, A) = us[h] + SumFunctionOnSet(us, A \ {h})
      BY <3>1, <3>3, SumAdds, SMT, SMTT(20)
    <3>5. lat'[m].total = lat[m].total + us[h] /\ lat[m].total \in Int /\ us[h] \in Int
      BY <1>0, <1>3, <2>2, <3>1, <3>3, SMT, SMTT(30) DEF CountersTyped
    <3>6. lat[m].total = SumFunctionOnSet(us, Added(m))
      BY Zenon DEF Sums
    <3>7. lat'[m].total = SumFunctionOnSet(us, A)
      <4>1. SumFunctionOnSet(us, A) = us[h] + lat[m].total
        BY <3>1, <3>4, <3>6, Zenon
      <4>2. us[h] + lat[m].total = lat[m].total + us[h]
        BY <3>5, SMT, SMTT(30)
      <4> QED BY <3>5, <4>1, <4>2, Zenon
    <3> QED BY <3>7, Zenon DEF A
  <2> QED BY <2>1, <2>2, Zenon
<1>6. Sums(m)'
  BY <1>0, <1>2, <1>3, <1>5, Zenon DEF Sums
<1>7. lat'[m].max = lat[m].max /\ lat'[m].min = lat[m].min
  BY <1>0, <1>3, SMT, ZenonT(40) DEF CountersTyped
<1>8. \A g \in Added(m)' : hpc'[g] \in Past \union {"max", "casmax"} => g \in Added(m) /\ hpc'[g] = hpc[g]
  <2>1. Added(m)' \subseteq Handlers
    BY Zenon DEF Added
  <2> QED BY <1>0, <1>1, <2>1, Zenon DEF Past, Alone
<1>9. Extremes(m)'
  <2>1. lat'[m].max # 0 => \E g \in Added(m)' : lat'[m].max = us'[g]
    BY <1>0, <1>4, <1>7, Zenon DEF Extremes
  <2>2. \A g \in Added(m)' : hpc'[g] \in Past => us'[g] <= lat'[m].max
    BY <1>0, <1>7, <1>8, ZenonT(40) DEF Extremes
  <2>3. (\A g \in Added(m)' : us'[g] # 0) => \A g \in Added(m) : us[g] # 0
    BY <1>0, <1>4, Zenon
  <2>4. ASSUME \A g \in Added(m)' : us'[g] # 0
        PROVE  /\ lat'[m].min # 0 => \E g \in Added(m)' : lat'[m].min = us'[g]
               /\ \A g \in Added(m)' : hpc'[g] \in Past \union {"max", "casmax"} =>
                    lat'[m].min # 0 /\ lat'[m].min <= us'[g]
    BY <1>0, <1>4, <1>7, <1>8, <2>3, <2>4, ZenonT(40) DEF Extremes
  <2> QED BY <2>1, <2>2, <2>4, Zenon DEF Extremes
<1> QED BY <1>4, <1>6, <1>9, Zenon

\* The samples when the count takes one.
LEMMA AddCountSums ==
  ASSUME CountersTyped, NEW h \in Handlers, Fits(h), Alone(h), AddCount(h), NEW m \in {1, 2},
         IsFiniteSet(InCount(m)), Sums(m), Extremes(m)
  PROVE  Sums(m)' /\ Extremes(m)' /\ Added(m)' = Added(m) /\ lat'[m].count >= lat[m].count
<1>0. /\ us' = us /\ hpc'[h] = "min" /\ h \notin InCount(M(h)) /\ h \in InCount(M(h))'
      /\ \A n : h \in Added(n) <=> h \in Added(n)'
      /\ \A n : n # M(h) => h \notin InCount(n) /\ h \notin InCount(n)'
      /\ lat' = [lat EXCEPT ![M(h)].count = @ + 1]
  BY AddCountKeeps, Zenon
<1>1. Added(m) \ {h} = Added(m)' \ {h} /\ InCount(m) \ {h} = InCount(m)' \ {h}
  BY AloneInSets, Zenon
<1>2. Added(m)' = Added(m)
  BY <1>0, <1>1, SameSet, Zenon
<1>3. M(h)' = M(h) /\ M(h) \in {1, 2}
  <2>1. hvia' = hvia
    BY Zenon DEF AddCount
  <2> QED BY <2>1, Zenon DEF M, Mode
<1>4. lat'[m].total = lat[m].total /\ lat'[m].max = lat[m].max /\ lat'[m].min = lat[m].min
  BY <1>0, <1>3, SMT, ZenonT(40) DEF CountersTyped
<1>5. lat'[m].count = Cardinality(InCount(m)') /\ lat'[m].count >= lat[m].count
  <2>1. CASE m # M(h)
    <3>1. InCount(m)' = InCount(m)
      BY <1>0, <1>1, <2>1, SameSet, Zenon
    <3>2. lat'[m].count = lat[m].count /\ lat[m].count \in Nat
      BY <1>0, <1>3, <2>1, Zenon DEF CountersTyped
    <3>3. lat'[m].count >= lat[m].count
      BY <3>2, SMT, SMTT(30)
    <3> QED BY <3>1, <3>2, <3>3, Zenon DEF Sums
  <2>2. CASE m = M(h)
    <3>1. h \notin InCount(m) /\ h \in InCount(m)'
      BY <1>0, <1>3, <2>2, Zenon
    <3>2. Cardinality(InCount(m)') = Cardinality(InCount(m)) + 1
      BY <1>1, <3>1, Gains, Zenon
    <3>3. lat'[m].count = lat[m].count + 1 /\ lat[m].count \in Nat
      BY <1>0, <1>3, <2>2, ZenonT(40) DEF CountersTyped
    <3>4. lat'[m].count >= lat[m].count
      BY <3>3, SMT, SMTT(30)
    <3> QED BY <3>2, <3>3, <3>4, Zenon DEF Sums
  <2> QED BY <2>1, <2>2, Zenon
<1>6. Sums(m)'
  BY <1>0, <1>2, <1>4, <1>5, Zenon DEF Sums
<1>7. \A g \in Added(m) : hpc'[g] \in Past \union {"max", "casmax"} => hpc'[g] = hpc[g]
  <2>1. Added(m) \subseteq Handlers
    BY Zenon DEF Added
  <2> QED BY <1>0, <2>1, Zenon DEF Past, Alone
<1>8. Extremes(m)'
  BY <1>0, <1>2, <1>4, <1>7, ZenonT(40) DEF Extremes
<1> QED BY <1>2, <1>5, <1>6, <1>8, Zenon

\* The order of samples, for the steps below.
LEMMA Orders ==
  ASSUME NEW a \in Nat, NEW b \in Nat, NEW c \in Nat
  PROVE  /\ a <= b /\ b <= c => a <= c
         /\ a < b /\ b <= c => a <= c
         /\ a <= b /\ b < c => a <= c
         /\ a <= a /\ (b >= a => a <= b)
         /\ a < b => b # 0
BY SMT, SMTT(30)

\* What the samples added so far are.
LEMMA AddedAre ==
  ASSUME CountersTyped, NEW m
  PROVE  Added(m) \subseteq Handlers /\ \A g \in Added(m) : us[g] \in Nat
<1>1. Added(m) \subseteq Handlers /\ \A g \in Added(m) : us[g] # NoSample
  BY Zenon DEF Added
<1> QED BY <1>1, SamplesAre, Zenon

\* The loop that keeps the minimum: it never loses a smaller sample, for it
\* stores only over the value it has compared.
LEMMA MinExtremes ==
  ASSUME CountersTyped, NEW h \in Handlers, Fits(h), Alone(h), LoadMin(h) \/ CasMin(h),
         NEW m \in {1, 2}, Added(m)' = Added(m), Extremes(m)
  PROVE  Extremes(m)'
<1>0. /\ us' = us /\ M(h)' = M(h) /\ M(h) \in {1, 2} /\ (h \in Added(m) <=> m = M(h))
  BY LoopsKeep, Zenon
<1>1. Added(m) \subseteq Handlers /\ \A g \in Added(m) : us[g] \in Nat
  BY AddedAre, Zenon
<1>2. hpc[h] \in {"min", "casmin"} /\ hpc'[h] \in {"casmin", "min", "max"}
  BY ZenonT(40) DEF LoadMin, CasMin, At, CountersTyped
<1>3. lat[m].min \in Nat /\ lat'[m].max = lat[m].max
  <2>1. CASE LoadMin(h)
    BY <2>1, Zenon DEF LoadMin, counters, CountersTyped
  <2>2. CASE CasMin(h)
    BY <1>0, <2>2, Zenon DEF CasMin, CountersTyped
  <2> QED BY <2>1, <2>2, Zenon
<1>4. \A g \in Added(m) : hpc'[g] \in Past => hpc[g] \in Past
  BY <1>1, <1>2, Zenon DEF Past, Alone
<1>5. \A g \in Added(m) : hpc'[g] \in Past \union {"max", "casmax"} =>
        g = h \/ hpc[g] \in Past \union {"max", "casmax"}
  BY <1>1, Zenon DEF Alone
<1> DEFINE nonzero == \A g \in Added(m) : us[g] # 0
           low(v) == /\ v # 0 => \E g \in Added(m) : v = us[g]
                     /\ \A g \in Added(m) : hpc'[g] \in Past \union {"max", "casmax"} => v # 0 /\ v <= us[g]
<1>6. nonzero => /\ lat[m].min # 0 => \E g \in Added(m) : lat[m].min = us[g]
                 /\ \A g \in Added(m) : hpc[g] \in Past \union {"max", "casmax"} => lat[m].min # 0 /\ lat[m].min <= us[g]
  BY Zenon DEF Extremes
<1>7. ASSUME nonzero PROVE low(lat'[m].min)
  <2>1. CASE m # M(h)
    <3>1. lat'[m] = lat[m]
      BY <1>0, <2>1, Zenon DEF LoadMin, CasMin, counters, CountersTyped
    <3> QED BY <1>0, <1>5, <1>6, <1>7, <2>1, <3>1, ZenonT(40)
  <2>2. CASE m = M(h) /\ hpc'[h] # "max"
    <3>1. lat' = lat
      BY <1>0, <2>2, Zenon DEF LoadMin, CasMin, At, counters, CountersTyped
    <3>2. hpc'[h] \notin Past \union {"max", "casmax"}
      BY <1>2, <2>2, Zenon DEF Past
    <3> QED BY <1>5, <1>6, <1>7, <3>1, <3>2, ZenonT(40)
  <2>3. CASE m = M(h) /\ hpc'[h] = "max" /\ LoadMin(h)
    <3>1. lat' = lat
      BY <2>3, Zenon DEF LoadMin, counters
    <3>2. lat[m].min # 0 /\ lat[m].min <= us[h]
      BY <2>3, ZenonT(40) DEF LoadMin, At, CountersTyped
    <3> QED BY <1>5, <1>6, <1>7, <3>1, <3>2, ZenonT(40)
  <2>4. CASE m = M(h) /\ hpc'[h] = "max" /\ CasMin(h)
    <3>1. lat[m].min = seen[h] /\ lat' = [lat EXCEPT ![m].min = us[h]]
      BY <2>4, Zenon DEF CasMin, At, CountersTyped
    <3>2. lat'[m].min = us[h]
      BY <3>1, Zenon DEF CountersTyped
    <3>3. hpc[h] = "casmin" /\ (lat[m].min = 0 \/ us[h] < lat[m].min)
      BY <2>4, <3>1, Zenon DEF CasMin, At, Fits
    <3>4. h \in Added(m) /\ us[h] \in Nat /\ us[h] # 0
      BY <1>0, <1>1, <1>7, <2>4, ZenonT(40)
    <3>5. ASSUME NEW g \in Added(m), hpc'[g] \in Past \union {"max", "casmax"} PROVE us[h] <= us[g]
      <4>1. us[g] \in Nat
        BY <1>1, Zenon
      <4>2. CASE g = h
        BY <3>4, <4>2, Orders, ZenonT(40)
      <4>3. CASE g # h
        <5>1. lat[m].min # 0 /\ lat[m].min <= us[g]
          BY <1>5, <1>6, <1>7, <3>5, <4>3, ZenonT(40)
        <5> QED BY <1>3, <3>3, <3>4, <4>1, <5>1, Orders, ZenonT(40)
      <4> QED BY <4>2, <4>3, Zenon
    <3> QED BY <3>2, <3>4, <3>5, ZenonT(40)
  <2> QED BY <2>1, <2>2, <2>3, <2>4, ZenonT(40)
<1>8. /\ lat'[m].max # 0 => \E g \in Added(m) : lat'[m].max = us[g]
      /\ \A g \in Added(m) : hpc'[g] \in Past => us[g] <= lat'[m].max
  BY <1>3, <1>4, Zenon DEF Extremes
<1> QED BY <1>0, <1>7, <1>8, Zenon DEF Extremes

\* The loop that keeps the maximum, likewise.
LEMMA MaxExtremes ==
  ASSUME CountersTyped, NEW h \in Handlers, Fits(h), Alone(h), LoadMax(h) \/ CasMax(h),
         NEW m \in {1, 2}, Added(m)' = Added(m), Extremes(m)
  PROVE  Extremes(m)'
<1>0. /\ us' = us /\ M(h)' = M(h) /\ M(h) \in {1, 2} /\ (h \in Added(m) <=> m = M(h))
  BY LoopsKeep, Zenon
<1>1. Added(m) \subseteq Handlers /\ \A g \in Added(m) : us[g] \in Nat
  BY AddedAre, Zenon
<1>2. hpc[h] \in {"max", "casmax"}
  BY Zenon DEF LoadMax, CasMax, At
<1>3. lat[m].max \in Nat /\ lat'[m].min = lat[m].min
  <2>1. CASE LoadMax(h)
    BY <2>1, Zenon DEF LoadMax, counters, CountersTyped
  <2>2. CASE CasMax(h)
    BY <1>0, <2>2, Zenon DEF CasMax, CountersTyped
  <2> QED BY <2>1, <2>2, Zenon
<1>4. \A g \in Added(m) : hpc'[g] \in Past \union {"max", "casmax"} => hpc[g] \in Past \union {"max", "casmax"}
  BY <1>1, <1>2, Zenon DEF Alone
<1>5. \A g \in Added(m) : hpc'[g] \in Past => g = h \/ hpc[g] \in Past
  BY <1>1, Zenon DEF Alone
<1> DEFINE high(v) == /\ v # 0 => \E g \in Added(m) : v = us[g]
                      /\ \A g \in Added(m) : hpc'[g] \in Past => us[g] <= v
<1>6. /\ lat[m].max # 0 => \E g \in Added(m) : lat[m].max = us[g]
      /\ \A g \in Added(m) : hpc[g] \in Past => us[g] <= lat[m].max
  BY Zenon DEF Extremes
<1>7. high(lat'[m].max)
  <2>1. CASE m # M(h)
    <3>1. lat'[m] = lat[m]
      BY <1>0, <2>1, ZenonT(40) DEF LoadMax, CasMax, counters, CountersTyped
    <3> QED BY <1>0, <1>5, <1>6, <2>1, <3>1, ZenonT(40)
  <2>2. CASE m = M(h) /\ hpc'[h] \notin Past
    <3>1. CASE lat' = lat
      BY <1>5, <1>6, <2>2, <3>1, Zenon
    <3>2. CASE lat' # lat
      <4>1. hpc'[h] = Recorded(h)
        BY <3>2, Zenon DEF LoadMax, CasMax, At, counters, CountersTyped
      <4> QED BY <2>2, <4>1, Zenon DEF Recorded, Past
    <3> QED BY <3>1, <3>2, Zenon
  <2>3. CASE m = M(h) /\ hpc'[h] \in Past /\ LoadMax(h)
    <3>1. lat' = lat
      BY <2>3, Zenon DEF LoadMax, counters
    <3>2. lat[m].max >= us[h]
      BY <2>3, Zenon DEF LoadMax, At, CountersTyped, Past
    <3>3. us[h] <= lat[m].max
      BY <1>0, <1>1, <1>3, <2>3, <3>2, Orders, Zenon
    <3> QED BY <1>5, <1>6, <3>1, <3>3, Zenon
  <2>4. CASE m = M(h) /\ hpc'[h] \in Past /\ CasMax(h)
    <3>1. lat[m].max = seen[h] /\ lat' = [lat EXCEPT ![m].max = us[h]]
      BY <2>4, Zenon DEF CasMax, At, CountersTyped, Past
    <3>2. lat'[m].max = us[h]
      BY <3>1, Zenon DEF CountersTyped
    <3>3. hpc[h] = "casmax" /\ lat[m].max < us[h]
      BY <2>4, <3>1, Zenon DEF CasMax, At, Fits
    <3>4. h \in Added(m) /\ us[h] \in Nat
      BY <1>0, <1>1, <2>4, Zenon
    <3>5. ASSUME NEW g \in Added(m), hpc'[g] \in Past PROVE us[g] <= us[h]
      <4>1. us[g] \in Nat
        BY <1>1, Zenon
      <4>2. CASE g = h
        BY <3>4, <4>2, Orders, Zenon
      <4>3. CASE g # h
        <5>1. us[g] <= lat[m].max
          BY <1>5, <1>6, <3>5, <4>3, Zenon
        <5> QED BY <1>3, <3>3, <3>4, <4>1, <5>1, Orders, ZenonT(40)
      <4> QED BY <4>2, <4>3, ZenonT(40)
    <3> QED BY <3>2, <3>4, <3>5, Zenon
  <2> QED BY <2>1, <2>2, <2>3, <2>4, Zenon
<1>8. (\A g \in Added(m) : us[g] # 0) =>
        /\ lat'[m].min # 0 => \E g \in Added(m) : lat'[m].min = us[g]
        /\ \A g \in Added(m) : hpc'[g] \in Past \union {"max", "casmax"} => lat'[m].min # 0 /\ lat'[m].min <= us[g]
  BY <1>3, <1>4, Zenon DEF Extremes
<1> QED BY <1>0, <1>7, <1>8, Zenon DEF Extremes

(***************************************************************************)
(* The snapshot                                                            *)
(***************************************************************************)
\* Sequences of at most one element, and what they make.
LEMMA ShortSeqs ==
  ASSUME NEW S
  PROVE  /\ <<>> \in Seq(S)
         /\ \A r \in S : <<r>> \in Seq(S)
         /\ \A s, t \in Seq(S) : s \o t \in Seq(S)
BY SMT, SMTT(30)

\* The loads of the response counters.
LEMMA LoadsAre ==
  /\ Replies \in Seq(Rcodes)
  /\ Load1("servfail") \o Load1("nxdomain") \o Load1("success") \in Seq(Rcodes)
<1>1. \A r : Load1(r) \in Seq(Rcodes)
  BY ShortSeqs, Zenon DEF Load1
<1> QED BY <1>1, ShortSeqs, Zenon DEF Replies

\* The report loads each response counter, and each of them once.
LEMMA RepliesAre ==
  /\ Len(Replies) \in Nat
  /\ \A i \in 1 .. Len(Replies) : Replies[i] \in Rcodes /\ Replies[i] \notin {"count", "total", "queries"}
  /\ \A i, j \in 1 .. Len(Replies) : Replies[i] = Replies[j] => i = j
  /\ \A r \in Rcodes : \E i \in 1 .. Len(Replies) : Replies[i] = r
<1>0. Rcodes \subseteq {"servfail", "nxdomain", "success", "other"}
  BY CountersAssumption, Zenon
<1>1. Len(Replies) \in Nat
  BY SMT, SMTT(30) DEF Replies, Load1
<1>2. \A i \in 1 .. Len(Replies) : Replies[i] \in Rcodes /\ Replies[i] \notin {"count", "total", "queries"}
  BY SMT, SMTT(30) DEF Replies, Load1
<1>3. \A i, j \in 1 .. Len(Replies) : Replies[i] = Replies[j] => i = j
  BY SMT, SMTT(30) DEF Replies, Load1
<1>4. ASSUME NEW r \in Rcodes PROVE \E i \in 1 .. Len(Replies) : Replies[i] = r
  <2>1. CASE r = "servfail"
    BY <2>1, SMT, SMTT(30) DEF Replies, Load1
  <2>2. CASE r = "nxdomain"
    BY <2>2, SMT, SMTT(30) DEF Replies, Load1
  <2>3. CASE r = "success"
    BY <2>3, SMT, SMTT(30) DEF Replies, Load1
  <2>4. CASE r = "other"
    <3> DEFINE A == Load1("servfail") \o Load1("nxdomain") \o Load1("success")
    <3>1. A \in Seq(Rcodes)
      BY LoadsAre, Zenon
    <3>2. Replies = A \o <<"other">>
      BY <2>4, Zenon DEF Replies, Load1
    <3> HIDE DEF A
    <3>3. Len(Replies) = Len(A) + 1 /\ Replies[Len(A) + 1] = "other" /\ Len(A) + 1 \in 1 .. Len(Replies)
      BY <3>1, <3>2, SMT, SMTT(30)
    <3> QED BY <2>4, <3>3, Zenon
  <2> QED BY <1>0, <2>1, <2>2, <2>3, <2>4, Zenon
<1> QED BY <1>1, <1>2, <1>3, <1>4, Zenon

\* The order of the loads.
LEMMA ReadsAre ==
  /\ Len(Reads) = Len(Replies) + 3 /\ Len(Reads) \in Nat
  /\ Reads[1] = "count" /\ Reads[2] = "total" /\ Reads[3] = "queries"
  /\ \A i \in 4 .. Len(Reads) : Reads[i] = Replies[i - 3] /\ i - 3 \in 1 .. Len(Replies)
<1>1. Replies \in Seq(Rcodes)
  BY LoadsAre, Zenon
<1> QED BY <1>1, SMT, SMTT(30) DEF Reads

\* What is left to load are counters, and a load takes one of them.
LEMMA LeftIs ==
  ASSUME spc \in Nat \ {0}, spc <= Len(Reads) + 1
  PROVE  /\ spc >= 4 => Left \subseteq Rcodes
         /\ spc = 4 => Left = Rcodes
         /\ spc > Len(Reads) => Left = {}
         /\ spc >= 4 /\ spc <= Len(Reads) /\ spc' = spc + 1 =>
              Reads[spc] \in Left /\ Left' = Left \ {Reads[spc]}
<1> DEFINE n == Len(Replies)
           from(k) == {Replies[i] : i \in k .. n}
<1>0. n \in Nat /\ Len(Reads) = n + 3
  BY RepliesAre, ReadsAre, Zenon
<1>00. (\A i \in 1 .. n : Replies[i] \in Rcodes) /\ (\A r \in Rcodes : \E i \in 1 .. n : Replies[i] = r)
  BY RepliesAre, Zenon
<1>1. Left = from(spc - 3) /\ Left' = from(spc' - 3)
  BY Zenon DEF Left
<1>2. ASSUME NEW k \in Nat \ {0} PROVE from(k) \subseteq Rcodes
  <2>1. \A i \in k .. n : i \in 1 .. n
    BY <1>0, SMT, SMTT(30)
  <2> HIDE DEF n
  <2> QED BY <1>00, <2>1, Zenon
<1>3. from(1) = Rcodes
  <2> HIDE DEF n
  <2> QED BY <1>00, Zenon
<1>4. from(n + 1) = {}
  <2>1. (n + 1) .. n = {}
    BY <1>0, SMT, SMTT(30)
  <2> QED BY <2>1, Zenon
<1>5. ASSUME NEW k \in 1 .. n PROVE Replies[k] \in from(k) /\ from(k + 1) = from(k) \ {Replies[k]}
  <2>1. k \in k .. n /\ \A i : i \in k .. n <=> i = k \/ i \in (k + 1) .. n
    BY <1>0, <1>5, SMT, SMTT(30)
  <2>2. \A i \in (k + 1) .. n : i \in 1 .. n /\ i # k /\ k \in 1 .. n
    BY <1>0, <1>5, SMT, SMTT(30)
  <2>3. \A i \in (k + 1) .. n : Replies[i] # Replies[k]
    BY <2>2, RepliesAre, Zenon
  <2> QED BY <2>1, <2>3, Zenon
<1>6. spc >= 4 => Left \subseteq Rcodes
  <2>1. spc >= 4 => spc - 3 \in Nat \ {0}
    BY SMT, SMTT(30)
  <2> HIDE DEF from
  <2> QED BY <1>1, <1>2, <2>1, Zenon
<1>7. spc = 4 => Left = Rcodes
  <2>1. spc = 4 => spc - 3 = 1
    BY SMT, SMTT(30)
  <2> HIDE DEF from
  <2> QED BY <1>1, <1>3, <2>1, Zenon
<1>8. spc > Len(Reads) => Left = {}
  <2>1. spc > Len(Reads) => spc - 3 = n + 1
    BY <1>0, SMT, SMTT(30)
  <2> HIDE DEF from
  <2> QED BY <1>1, <1>4, <2>1, Zenon
<1>9. ASSUME spc >= 4, spc <= Len(Reads), spc' = spc + 1
      PROVE  Reads[spc] \in Left /\ Left' = Left \ {Reads[spc]}
  <2>1. spc \in 4 .. Len(Reads) /\ spc - 3 \in 1 .. n /\ spc' - 3 = (spc - 3) + 1
    BY <1>0, <1>9, SMT, SMTT(30)
  <2>2. Reads[spc] = Replies[spc - 3]
    BY <2>1, ReadsAre, Zenon
  <2> HIDE DEF from
  <2> QED BY <1>1, <1>5, <2>1, <2>2, ZenonT(40)
<1> QED BY <1>6, <1>7, <1>8, <1>9, Zenon

\* The sum of the counters still to load.
LEMMA LeftSum ==
  ASSUME CountersTyped, NEW S \in SUBSET Rcodes
  PROVE  /\ IsFiniteSet(S) /\ SumFunctionOnSet(bucket, S) \in Int
         /\ \A r \in S : bucket[r] \in Nat /\ SumFunctionOnSet(bucket, S) = bucket[r] + SumFunctionOnSet(bucket, S \ {r})
<1>1. IsFiniteSet(S)
  BY RcodesFinite, FS_Subset, Zenon
<1>2. \A x \in S : bucket[x] \in Int /\ bucket[x] \in Nat
  BY SMT, SMTT(30) DEF CountersTyped
<1>3. \A x \in S : bucket[x] \in Int
  BY <1>2, Zenon
<1>4. SumFunctionOnSet(bucket, S) \in Int
  BY <1>1, <1>3, SumType, Zenon
<1>5. ASSUME NEW r \in S PROVE SumFunctionOnSet(bucket, S) = bucket[r] + SumFunctionOnSet(bucket, S \ {r})
  BY <1>1, <1>3, SumAdds, SMT, SMTT(20)
<1> QED BY <1>1, <1>2, <1>4, <1>5, ZenonT(40)

\* A handler's step leaves what the report says true: the counters and the
\* samples only grow.
LEMMA ReportKept ==
  ASSUME CountersTyped, Reported, spc' = spc, snap' = snap,
         lat'[1].count \in Nat, lat'[1].count >= lat[1].count,
         \A g \in Added(1) : g \in Added(1)' /\ us'[g] = us[g],
         spc >= 4 => /\ SumFunctionOnSet(bucket', Left) \in Int
                     /\ SumFunctionOnSet(bucket', Left) >= SumFunctionOnSet(bucket, Left)
  PROVE  Reported'
<1>0. /\ spc \in Nat /\ snap.count \in Nat /\ snap.queries \in Nat /\ snap.open \in Nat /\ snap.buckets \in Nat
      /\ lat[1].count \in Nat
  BY Zenon DEF CountersTyped
<1>1. spc' <= Len(Reads) + 1 /\ (spc' <= 4 => snap'.buckets = 0)
  BY Zenon DEF Reported
<1>2. spc' >= 2 => snap'.count <= lat'[1].count
  <2>1. spc' = spc /\ (spc >= 2 => snap.count <= lat[1].count) /\ snap'.count = snap.count
    BY Zenon DEF Reported
  <2> QED BY <1>0, <2>1, SMT, SMTT(30)
<1>3. spc' >= 3 /\ snap'.count > 0 => \E h \in Added(1)' : snap'.total >= snap'.count * us'[h]
  BY Zenon DEF Reported
<1>4. spc' >= 4 => snap'.queries - snap'.open <= snap'.buckets + SumFunctionOnSet(bucket', Left')
  <2>1. Left' = Left
    BY Zenon DEF Left
  <2>2. ASSUME spc >= 4 PROVE snap.queries - snap.open <= snap.buckets + SumFunctionOnSet(bucket', Left)
    <3>1. SumFunctionOnSet(bucket, Left) \in Int
      BY <2>2, LeftIs, LeftSum, Zenon DEF CountersTyped, Reported
    <3>2. snap.queries - snap.open <= snap.buckets + SumFunctionOnSet(bucket, Left)
      BY <2>2, Zenon DEF Reported
    <3> QED BY <1>0, <2>2, <3>1, <3>2, SMT, SMTT(30)
  <2> QED BY <2>1, <2>2, Zenon
<1> QED BY <1>1, <1>2, <1>3, <1>4, Zenon DEF Reported

\* What goes with the positions of the others.
LEMMA OthersFit ==
  ASSUME NEW h \in Handlers, Alone(h), \A g \in Handlers : Fits(g), Fits(h)'
  PROVE  \A g \in Handlers : Fits(g)'
<1>1. ASSUME NEW g \in Handlers \ {h} PROVE Fits(g)'
  BY Zenon DEF Alone, Fits, M
<1> QED BY <1>1, Zenon

\* A step that changes neither samples nor extremes, with the books it leaves.
LEMMA QuietInv ==
  ASSUME CountersInv, NEW h \in Handlers, Moves(h), Books', KeepsSums(h), KeepsExtremes(h),
         spc >= 4 => /\ SumFunctionOnSet(bucket', Left) \in Int
                     /\ SumFunctionOnSet(bucket', Left) >= SumFunctionOnSet(bucket, Left)
  PROVE  CountersInv'
<1>0. /\ CountersTyped /\ (\A g \in Handlers : Fits(g)) /\ Books /\ Reported
      /\ \A m \in {1, 2} : Sums(m) /\ Extremes(m)
  BY Zenon DEF CountersInv
<1>1. CountersTyped' /\ Fits(h)' /\ Alone(h) /\ spc' = spc /\ snap' = snap
  BY <1>0, TypedStep, MovesAlone, Zenon
<1>2. \A g \in Handlers : Fits(g)'
  BY <1>0, <1>1, OthersFit, ZenonT(40)
<1>3. ASSUME NEW m \in {1, 2}
      PROVE  Sums(m)' /\ Extremes(m)' /\ Added(m)' = Added(m) /\ \A g \in Added(m) : us'[g] = us[g]
  <2>1. IsFiniteSet(Added(m)) /\ Sums(m) /\ Extremes(m)
    BY <1>0, FiniteSets1, Zenon
  <2>2. Sums(m)' /\ Added(m)' = Added(m) /\ \A g \in Added(m) : us'[g] = us[g]
    BY <1>1, <2>1, SumsKept, ZenonT(40)
  <2> QED BY <1>1, <2>1, <2>2, ExtremesKept, ZenonT(40)
<1>4. lat' = lat /\ lat[1].count \in Nat
  BY <1>0, Zenon DEF KeepsExtremes, CountersTyped
<1>5. lat'[1].count \in Nat /\ lat'[1].count >= lat[1].count
  BY <1>4, SMT, SMTT(30)
<1>6. \A g \in Added(1) : g \in Added(1)' /\ us'[g] = us[g]
  <2>1. 1 \in {1, 2}
    BY Zenon
  <2> QED BY <1>3, <2>1, Zenon
<1>7. Reported'
  BY <1>0, <1>1, <1>5, <1>6, ReportKept, ZenonT(40)
<1> QED BY <1>1, <1>2, <1>3, <1>7, Zenon DEF CountersInv

\* A step that leaves the books alone, with the samples it leaves.
LEMMA RecordInv ==
  ASSUME CountersInv, NEW h \in Handlers, Moves(h), KeepsBooks(h),
         \A m \in {1, 2} : Sums(m)' /\ Extremes(m)' /\ Added(m) \subseteq Added(m)' /\ lat'[m].count >= lat[m].count,
         us' = us
  PROVE  CountersInv'
<1>0. /\ CountersTyped /\ (\A g \in Handlers : Fits(g)) /\ Books /\ Reported
      /\ \A m \in {1, 2} : Sums(m) /\ Extremes(m)
  BY Zenon DEF CountersInv
<1>1. CountersTyped' /\ Fits(h)' /\ Alone(h) /\ spc' = spc /\ snap' = snap
  BY <1>0, TypedStep, MovesAlone, ZenonT(40)
<1>2. \A g \in Handlers : Fits(g)'
  BY <1>0, <1>1, OthersFit, ZenonT(40)
<1>3. Books'
  BY <1>0, <1>1, BooksKept, Zenon
<1>4. lat'[1].count \in Nat /\ lat'[1].count >= lat[1].count /\ \A g \in Added(1) : g \in Added(1)' /\ us'[g] = us[g]
  <2>1. 1 \in {1, 2}
    BY Zenon
  <2>2. lat'[1].count \in Nat
    BY <1>1, Zenon DEF CountersTyped
  <2> QED BY <2>1, <2>2, Zenon
<1>5. bucket' = bucket
  BY Zenon DEF KeepsBooks
<1>6. spc >= 4 => /\ SumFunctionOnSet(bucket', Left) \in Int
                  /\ SumFunctionOnSet(bucket', Left) >= SumFunctionOnSet(bucket, Left)
  <2>1. spc >= 4 => SumFunctionOnSet(bucket, Left) \in Int
    BY <1>0, LeftIs, LeftSum, Zenon DEF CountersTyped, Reported
  <2>2. ASSUME NEW i \in Int PROVE i >= i
    BY SMT, SMTT(30)
  <2> QED BY <1>5, <2>1, <2>2, ZenonT(40)
<1>7. Reported'
  BY <1>0, <1>1, <1>4, <1>6, ReportKept, ZenonT(40)
<1> QED BY <1>1, <1>2, <1>3, <1>7, ZenonT(40) DEF CountersInv

\* Each step of a handler.
LEMMA MovesInv ==
  ASSUME CountersInv, NEW h \in Handlers, Moves(h)
  PROVE  CountersInv'
<1>0. /\ CountersTyped /\ (\A g \in Handlers : Fits(g)) /\ Books /\ Reported
      /\ \A m \in {1, 2} : Sums(m) /\ Extremes(m)
  BY Zenon DEF CountersInv
<1>1. Fits(h) /\ Alone(h)
  BY <1>0, MovesAlone, Zenon
<1>2. \A m \in {1, 2} : IsFiniteSet(Added(m)) /\ IsFiniteSet(InCount(m))
  BY <1>0, FiniteSets1, Zenon
<1>3. spc >= 4 => Left \in SUBSET Rcodes /\ SumFunctionOnSet(bucket, Left) \in Int
  BY <1>0, LeftIs, LeftSum, Zenon DEF CountersTyped, Reported
<1>4. bucket' = bucket => (spc >= 4 => /\ SumFunctionOnSet(bucket', Left) \in Int
                                       /\ SumFunctionOnSet(bucket', Left) >= SumFunctionOnSet(bucket, Left))
  <2>1. ASSUME NEW i \in Int PROVE i >= i
    BY SMT, SMTT(30)
  <2> QED BY <1>3, <2>1, Zenon
<1>5. ASSUME NEW t \in Transports, Ingress(h, t) PROVE CountersInv'
  <2>1. Books'
    BY <1>0, <1>1, <1>5, IngressBooks, Zenon
  <2>2. KeepsSums(h) /\ KeepsExtremes(h) /\ bucket' = bucket
    BY <1>0, <1>1, <1>5, IngressKeeps, Zenon
  <2> QED BY <1>4, <2>1, <2>2, QuietInv, Zenon
<1>6. ASSUME NEW r \in Rcodes, Answer(h, r) \/ \E d \in Samples : Fetched(h, r, d) PROVE CountersInv'
  <2>1. KeepsBooks(h) /\ KeepsSums(h) /\ KeepsExtremes(h)
    BY <1>0, <1>1, <1>6, AnswerKeeps, ZenonT(40)
  <2>2. Books' /\ bucket' = bucket
    BY <1>0, <1>1, <2>1, BooksKept, Zenon DEF KeepsBooks
  <2> QED BY <1>4, <2>1, <2>2, QuietInv, Zenon
<1>7. ASSUME Drop(h) PROVE CountersInv'
  <2>1. KeepsBooks(h) /\ KeepsSums(h) /\ KeepsExtremes(h)
    BY <1>0, <1>1, <1>7, DropKeeps, Zenon
  <2>2. Books' /\ bucket' = bucket
    BY <1>0, <1>1, <2>1, BooksKept, Zenon DEF KeepsBooks
  <2> QED BY <1>4, <2>1, <2>2, QuietInv, Zenon
<1>8. ASSUME NEW d \in Samples, Sent(h, d) PROVE CountersInv'
  <2>1. Books'
    BY <1>0, <1>1, <1>8, SentBooks, Zenon
  <2>2. /\ KeepsSums(h) /\ KeepsExtremes(h)
        /\ rcode[h] \in Rcodes /\ bucket' = [bucket EXCEPT ![rcode[h]] = @ + 1]
    BY <1>0, <1>1, <1>8, SentKeeps, ZenonT(40)
  <2>3. ASSUME spc >= 4
        PROVE  /\ SumFunctionOnSet(bucket', Left) \in Int
               /\ SumFunctionOnSet(bucket', Left) >= SumFunctionOnSet(bucket, Left)
    <3>1. \/ SumFunctionOnSet(bucket', Left) = SumFunctionOnSet(bucket, Left) + 1
          \/ SumFunctionOnSet(bucket', Left) = SumFunctionOnSet(bucket, Left)
      BY <1>0, <1>3, <2>2, <2>3, BucketBump, ZenonT(40)
    <3>2. ASSUME NEW i \in Int PROVE i >= i /\ i + 1 >= i /\ i + 1 \in Int
      BY SMT, SMTT(30)
    <3> QED BY <1>3, <2>3, <3>1, <3>2, Zenon
  <2> QED BY <2>1, <2>2, <2>3, QuietInv, ZenonT(40)
<1>9. ASSUME AddTotal(h) PROVE CountersInv'
  <2>1. KeepsBooks(h) /\ us' = us /\ lat' = [lat EXCEPT ![M(h)].total = @ + us[h]]
    BY <1>0, <1>1, <1>9, AddTotalKeeps, Zenon
  <2>2. ASSUME NEW m \in {1, 2}
        PROVE  Sums(m)' /\ Extremes(m)' /\ Added(m) \subseteq Added(m)' /\ lat'[m].count >= lat[m].count
    <3>1. Sums(m)' /\ Extremes(m)' /\ Added(m) \subseteq Added(m)'
      BY <1>0, <1>1, <1>2, <1>9, AddTotalSums, Zenon
    <3>2. M(h) \in {1, 2}
      BY Zenon DEF M, Mode
    <3>3. lat'[m].count >= lat[m].count
      BY <1>0, <2>1, <3>2, SMT, SMTT(30) DEF CountersTyped
    <3> QED BY <3>1, <3>3, Zenon
  <2> QED BY <2>1, <2>2, RecordInv, Zenon
<1>10. ASSUME AddCount(h) PROVE CountersInv'
  <2>1. KeepsBooks(h) /\ us' = us
    BY <1>0, <1>1, <1>10, AddCountKeeps, Zenon
  <2>2. ASSUME NEW m \in {1, 2}
        PROVE  Sums(m)' /\ Extremes(m)' /\ Added(m) \subseteq Added(m)' /\ lat'[m].count >= lat[m].count
    <3>1. Sums(m)' /\ Extremes(m)' /\ Added(m)' = Added(m) /\ lat'[m].count >= lat[m].count
      BY <1>0, <1>1, <1>2, <1>10, AddCountSums, Zenon
    <3> QED BY <3>1, Zenon
  <2> QED BY <2>1, <2>2, RecordInv, Zenon
<1>11. ASSUME LoadMin(h) \/ CasMin(h) \/ LoadMax(h) \/ CasMax(h) PROVE CountersInv'
  <2>1. KeepsBooks(h) /\ KeepsSums(h) /\ us' = us
    BY <1>0, <1>1, <1>11, LoopsKeep, Zenon
  <2>2. ASSUME NEW m \in {1, 2}
        PROVE  Sums(m)' /\ Extremes(m)' /\ Added(m) \subseteq Added(m)' /\ lat'[m].count >= lat[m].count
    <3>1. Sums(m)' /\ Added(m)' = Added(m)
      BY <1>0, <1>1, <1>2, <2>1, SumsKept, Zenon
    <3>2. LoadMin(h) \/ CasMin(h) => Extremes(m)'
      BY <1>0, <1>1, <3>1, MinExtremes, Zenon
    <3>3. LoadMax(h) \/ CasMax(h) => Extremes(m)'
      BY <1>0, <1>1, <3>1, MaxExtremes, ZenonT(30)
    <3>4. lat'[m].count = lat[m].count /\ lat[m].count \in Nat
      BY <1>0, <2>1, Zenon DEF KeepsSums, CountersTyped
    <3>5. lat'[m].count >= lat[m].count
      BY <3>4, SMT, SMTT(30)
    <3> QED BY <1>11, <3>1, <3>2, <3>3, <3>5, Zenon
  <2> QED BY <2>1, <2>2, RecordInv, Zenon
<1> QED BY <1>5, <1>6, <1>7, <1>8, <1>9, <1>10, <1>11, ZenonT(40) DEF Moves, Record

\* A sum is not below the count of what it adds, times one of them.
LEMMA SumHasLeast ==
  ASSUME CountersTyped, IsFiniteSet(Added(1)), NEW c \in Nat, c > 0, c <= Cardinality(Added(1))
  PROVE  \E h \in Added(1) : SumFunctionOnSet(us, Added(1)) >= c * us[h]
<1>1. Added(1) \subseteq Handlers /\ \A g \in Added(1) : us[g] \in Nat
  BY AddedAre, Zenon
<1>2. Added(1) # {} /\ Cardinality(Added(1)) \in Nat
  <2>1. Cardinality(Added(1)) \in Nat /\ (Cardinality(Added(1)) = 0 <=> Added(1) = {})
    BY FS_CardinalityType, FS_EmptySet, Zenon
  <2> QED BY <2>1, SMT, SMTT(30)
<1> DEFINE V == {us[g] : g \in Added(1)}
<1>3. V \subseteq Nat /\ V # {}
  BY <1>1, <1>2, Zenon
<1>4. PICK k \in V : \A j \in V : k <= j
  BY <1>3, LeastExists, Zenon
<1>5. PICK h \in Added(1) : k = us[h]
  BY Zenon
<1>6. us[h] \in Nat /\ us[h] \in Int /\ \A g \in Added(1) : us[g] \in Int /\ us[g] >= us[h]
  BY <1>1, <1>4, <1>5, SMT, SMTT(30)
<1>7. SumFunctionOnSet(us, Added(1)) >= Cardinality(Added(1)) * us[h]
  BY <1>6, SumAtLeast, Zenon
<1>8. SumFunctionOnSet(us, Added(1)) \in Int
  BY <1>6, SumType, Zenon
<1>9. ASSUME NEW s \in Int, NEW n \in Nat, NEW v \in Nat, c <= n, s >= n * v PROVE s >= c * v
  <2>1. c * v <= n * v /\ c * v \in Int /\ n * v \in Int
    BY <1>9, SMT, SMTT(30)
  <2> QED BY <1>9, <2>1, SMT, SMTT(30)
<1>10. SumFunctionOnSet(us, Added(1)) >= c * us[h]
  BY <1>2, <1>6, <1>7, <1>8, <1>9, ZenonT(40)
<1> QED BY <1>10, Zenon

\* Each load of a snapshot.
LEMMA ReadInv ==
  ASSUME CountersInv, Read
  PROVE  CountersInv'
<1>0. /\ CountersTyped /\ (\A g \in Handlers : Fits(g)) /\ Books /\ Reported
      /\ \A m \in {1, 2} : Sums(m) /\ Extremes(m)
  BY Zenon DEF CountersInv
<1>1. /\ hpc' = hpc /\ hvia' = hvia /\ rcode' = rcode /\ us' = us /\ seen' = seen /\ queries' = queries
      /\ bucket' = bucket /\ lat' = lat /\ spc <= Len(Reads) /\ spc' = spc + 1
  BY Zenon DEF Read, counters
<1>2. \A g \in Handlers : Fits(g)'
  BY <1>0, <1>1, Zenon DEF Fits, M
<1>3. Began' = Began /\ CountedNow' = CountedNow /\ \A r : CountedAs(r)' = CountedAs(r)
  BY <1>1, Zenon DEF Began, Begun, CountedNow, Counted, CountedAs, M
<1>4. \A m : Added(m)' = Added(m) /\ InCount(m)' = InCount(m)
  BY <1>1, ZenonT(40) DEF Added, InCount, Counted, M
<1>5. Books'
  BY <1>0, <1>1, <1>3, ZenonT(40) DEF Books
<1>6. ASSUME NEW m \in {1, 2} PROVE Sums(m)' /\ Extremes(m)'
  BY <1>0, <1>1, <1>4, Zenon DEF Sums, Extremes
<1>7. Open \in Nat /\ Open = Cardinality(Began) - Cardinality(CountedNow)
  BY <1>0, FiniteSets1, Zenon
<1>8. /\ spc \in Nat /\ spc # 0 /\ lat[1].count \in Nat /\ lat[1].total \in Nat /\ queries \in Nat
      /\ snap \in [total : Nat, count : Nat, queries : Nat, open : Nat, buckets : Nat]
  BY <1>0, Zenon DEF CountersTyped
<1>9. /\ spc <= Len(Reads) + 1 /\ (spc >= 2 => snap.count <= lat[1].count) /\ (spc <= 4 => snap.buckets = 0)
      /\ spc >= 3 /\ snap.count > 0 => \E h \in Added(1) : snap.total >= snap.count * us[h]
      /\ spc >= 4 => snap.queries - snap.open <= snap.buckets + SumFunctionOnSet(bucket, Left)
  BY <1>0, Zenon DEF Reported
<1> DEFINE said ==
      /\ spc' <= Len(Reads) + 1
      /\ spc' >= 2 => snap'.count <= lat[1].count
      /\ spc' >= 3 /\ snap'.count > 0 => \E h \in Added(1) : snap'.total >= snap'.count * us[h]
      /\ spc' <= 4 => snap'.buckets = 0
      /\ spc' >= 4 => snap'.queries - snap'.open <= snap'.buckets + SumFunctionOnSet(bucket, Left')
<1> DEFINE kind == snap' \in [total : Nat, count : Nat, queries : Nat, open : Nat, buckets : Nat]
<1>10. Len(Reads) \in Nat /\ Reads[1] = "count" /\ Reads[2] = "total" /\ Reads[3] = "queries"
  BY ReadsAre, Zenon
<1>11. said /\ kind
  <2>1. CASE spc = 1
    <3>1. snap' = [snap EXCEPT !.count = lat[1].count]
      BY <1>10, <2>1, Zenon DEF Read
    <3>2. snap'.count = lat[1].count /\ snap'.buckets = snap.buckets /\ kind
      BY <1>8, <3>1, Zenon
    <3>3. /\ spc' <= Len(Reads) + 1 /\ ~(spc' >= 3) /\ ~(spc' >= 4) /\ spc <= 4
          /\ lat[1].count <= lat[1].count
      BY <1>1, <1>8, <1>10, <2>1, SMT, SMTT(30)
    <3> QED BY <1>9, <3>2, <3>3, Zenon
  <2>2. CASE spc = 2
    <3>1. snap' = [snap EXCEPT !.total = lat[1].total]
      BY <1>10, <2>2, Zenon DEF Read
    <3>2. /\ snap'.count = snap.count /\ snap'.total = lat[1].total /\ snap'.buckets = snap.buckets
          /\ snap.count \in Nat /\ kind /\ spc' = 3 /\ snap.count <= lat[1].count /\ snap.buckets = 0
      <4>1. /\ snap'.count = snap.count /\ snap'.total = lat[1].total /\ snap'.buckets = snap.buckets
            /\ snap.count \in Nat /\ kind
        BY <1>8, <3>1, Zenon
      <4>2. spc' = 3 /\ spc >= 2 /\ spc <= 4
        BY <1>1, <2>2, SMT, SMTT(30)
      <4> QED BY <1>9, <4>1, <4>2, ZenonT(40)
    <3>3. ASSUME snap.count > 0 PROVE \E h \in Added(1) : lat[1].total >= snap.count * us[h]
      <4>1. /\ IsFiniteSet(Added(1)) /\ IsFiniteSet(InCount(1)) /\ InCount(1) \in SUBSET Added(1)
            /\ lat[1].count = Cardinality(InCount(1)) /\ lat[1].total = SumFunctionOnSet(us, Added(1))
        <5>1. 1 \in {1, 2}
          BY Zenon
        <5> QED BY <1>0, <5>1, FiniteSets1, ZenonT(40) DEF Sums
      <4>2. Cardinality(InCount(1)) <= Cardinality(Added(1)) /\ Cardinality(Added(1)) \in Nat
        BY <4>1, FS_Subset, FS_CardinalityType, Zenon
      <4>3. snap.count <= Cardinality(Added(1))
        BY <1>8, <3>2, <4>1, <4>2, SMT, SMTT(30)
      <4> QED BY <1>0, <3>2, <3>3, <4>1, <4>3, SumHasLeast, ZenonT(30)
    <3>4. spc' <= Len(Reads) + 1 /\ ~(spc' >= 4)
      BY <1>1, <1>10, <2>2, SMT, SMTT(30)
    <3> QED BY <3>2, <3>3, <3>4, Zenon
  <2>3. CASE spc = 3
    <3>1. snap' = [snap EXCEPT !.queries = queries, !.open = Open]
      BY <1>10, <2>3, Zenon DEF Read
    <3>2. /\ snap'.count = snap.count /\ snap'.total = snap.total /\ snap'.buckets = 0
          /\ snap'.queries = queries /\ snap'.open = Open
          /\ kind /\ spc' = 4 /\ spc' <= Len(Reads) + 1
      <4>1. spc' = 4 /\ spc' <= Len(Reads) + 1 /\ snap.buckets = 0
        BY <1>1, <1>8, <1>9, <1>10, <2>3, SMT, SMTT(30)
      <4>2. ASSUME NEW s \in [total : Nat, count : Nat, queries : Nat, open : Nat, buckets : Nat],
                   NEW q \in Nat, NEW o \in Nat, NEW n, n = [s EXCEPT !.queries = q, !.open = o]
            PROVE  /\ n.count = s.count /\ n.total = s.total /\ n.buckets = s.buckets
                   /\ n.queries = q /\ n.open = o
                   /\ n \in [total : Nat, count : Nat, queries : Nat, open : Nat, buckets : Nat]
        BY <4>2, Zenon
      <4>3. /\ snap'.count = snap.count /\ snap'.total = snap.total /\ snap'.buckets = snap.buckets
            /\ snap'.queries = queries /\ snap'.open = Open /\ kind
        BY <1>7, <1>8, <3>1, <4>2, Zenon
      <4> QED BY <4>1, <4>3, Zenon
    <3>3. Left' = Rcodes
      <4>1. (\A i \in 1 .. Len(Replies) : Replies[i] \in Rcodes) /\ \A r \in Rcodes : \E i \in 1 .. Len(Replies) : Replies[i] = r
        BY RepliesAre, Zenon
      <4>2. spc' - 3 = 1
        BY <3>2, SMT, SMTT(30)
      <4>3. Left' = {Replies[i] : i \in 1 .. Len(Replies)}
        BY <4>2, Zenon DEF Left
      <4> QED BY <4>1, <4>3, Zenon
    <3>4. SumFunctionOnSet(bucket, Left') = queries - Open
      <4>1. SumFunctionOnSet(bucket, Rcodes) = Cardinality(CountedNow) /\ queries = Cardinality(Began)
        BY <1>0, Zenon DEF Books
      <4>2. SumFunctionOnSet(bucket, Rcodes) \in Int
        BY <1>0, LeftSum, Zenon
      <4> QED BY <1>7, <1>8, <3>3, <4>1, <4>2, SMT, SMTT(30)
    <3>5. queries - Open <= 0 + (queries - Open)
      BY <1>7, <1>8, SMT, SMTT(30)
    <3>6. spc >= 2 /\ spc >= 3
      BY <2>3, SMT, SMTT(30)
    <3>7. snap'.queries - snap'.open <= snap'.buckets + SumFunctionOnSet(bucket, Left')
      <4> HIDE DEF Left
      <4>1. snap'.queries - snap'.open = queries - Open
        BY <3>2, Zenon
      <4>2. snap'.buckets + SumFunctionOnSet(bucket, Left') = 0 + (queries - Open)
        BY <3>2, <3>4, Zenon
      <4> QED BY <3>5, <4>1, <4>2, Zenon
    <3> QED BY <1>9, <3>2, <3>6, <3>7, Zenon
  <2>4. CASE spc >= 4
    <3>0. spc \in 4 .. Len(Reads)
      BY <1>1, <1>8, <1>10, <2>4, SMT, SMTT(30)
    <3>1. Reads[spc] \in Rcodes /\ Reads[spc] \notin {"count", "total", "queries"}
      BY <3>0, RepliesAre, ReadsAre, ZenonT(40)
    <3>2. snap' = [snap EXCEPT !.buckets = @ + bucket[Reads[spc]]]
      BY <3>1, Zenon DEF Read
    <3>3. bucket[Reads[spc]] \in Nat
      BY <1>0, <3>1, ZenonT(40) DEF CountersTyped
    <3>4. /\ snap'.count = snap.count /\ snap'.total = snap.total /\ snap'.queries = snap.queries
          /\ snap'.open = snap.open /\ snap'.buckets = snap.buckets + bucket[Reads[spc]]
          /\ kind /\ spc' > 4 /\ spc' >= 4 /\ ~(spc' <= 4) /\ spc' <= Len(Reads) + 1
      <4>1. spc' > 4 /\ spc' >= 4 /\ ~(spc' <= 4) /\ spc' <= Len(Reads) + 1
        BY <1>1, <1>8, <1>10, <2>4, SMT, SMTT(30)
      <4>2. ASSUME NEW s \in [total : Nat, count : Nat, queries : Nat, open : Nat, buckets : Nat],
                   NEW b \in Nat, NEW n, n = [s EXCEPT !.buckets = @ + b]
            PROVE  /\ n.count = s.count /\ n.total = s.total /\ n.queries = s.queries /\ n.open = s.open
                   /\ n.buckets = s.buckets + b
                   /\ n \in [total : Nat, count : Nat, queries : Nat, open : Nat, buckets : Nat]
        BY <4>2, SMT, SMTT(30)
      <4>3. /\ snap'.count = snap.count /\ snap'.total = snap.total /\ snap'.queries = snap.queries
            /\ snap'.open = snap.open /\ snap'.buckets = snap.buckets + bucket[Reads[spc]] /\ kind
        BY <1>8, <3>2, <3>3, <4>2, Zenon
      <4> QED BY <4>1, <4>3, ZenonT(40)
    <3>5. Left \in SUBSET Rcodes /\ Reads[spc] \in Left /\ Left' = Left \ {Reads[spc]}
      BY <1>1, <1>8, <1>9, <2>4, LeftIs, Zenon
    <3>6. /\ SumFunctionOnSet(bucket, Left) = bucket[Reads[spc]] + SumFunctionOnSet(bucket, Left')
          /\ SumFunctionOnSet(bucket, Left) \in Int
      BY <1>0, <3>5, LeftSum, Zenon
    <3>7. SumFunctionOnSet(bucket, Left') \in Int
      <4>1. Left' \in SUBSET Rcodes
        BY <3>5, Zenon
      <4> HIDE DEF Left
      <4> QED BY <1>0, <4>1, LeftSum, Zenon
    <3>8. snap.queries - snap.open <= snap.buckets + SumFunctionOnSet(bucket, Left)
      BY <1>9, <2>4, Zenon
    <3>9. ASSUME NEW q \in Int, NEW b \in Int, NEW x \in Int, NEW y \in Int, NEW s \in Int, q <= b + s, s = x + y
          PROVE  q <= (b + x) + y
      BY <3>9, SMT, SMTT(30)
    <3>10. snap.queries - snap.open \in Int /\ snap.buckets \in Int /\ bucket[Reads[spc]] \in Int
      BY <1>8, <3>3, SMT, SMTT(30)
    <3>11. snap'.queries - snap'.open <= snap'.buckets + SumFunctionOnSet(bucket, Left')
      BY <3>4, <3>6, <3>7, <3>8, <3>9, <3>10, ZenonT(40)
    <3>12. spc >= 2 /\ spc >= 3
      BY <1>8, <2>4, SMT, SMTT(30)
    <3> QED BY <1>9, <3>4, <3>11, <3>12, ZenonT(40)
  <2>5. spc = 1 \/ spc = 2 \/ spc = 3 \/ spc >= 4
    BY <1>8, SMT, SMTT(30)
  <2> QED BY <2>1, <2>2, <2>3, <2>4, <2>5, ZenonT(40)
<1>12. CountersTyped'
  <2>1. spc' \in Nat \ {0}
    BY <1>1, <1>8, SMT, SMTT(30)
  <2> QED BY <1>0, <1>1, <1>11, <2>1, ZenonT(40) DEF CountersTyped
<1>13. Reported'
  BY <1>1, <1>4, <1>11, Zenon DEF Reported
<1> QED BY <1>2, <1>5, <1>6, <1>12, <1>13, Zenon DEF CountersInv

\* The next report, and a step of no counter.
LEMMA RequestInv ==
  ASSUME CountersInv, Request \/ UNCHANGED statVars
  PROVE  CountersInv'
<1>0. /\ CountersTyped /\ (\A g \in Handlers : Fits(g)) /\ Books /\ Reported
      /\ \A m \in {1, 2} : Sums(m) /\ Extremes(m)
  BY Zenon DEF CountersInv
<1>1. /\ hpc' = hpc /\ hvia' = hvia /\ rcode' = rcode /\ us' = us /\ seen' = seen /\ queries' = queries
      /\ bucket' = bucket /\ lat' = lat
      /\ (spc' = 1 /\ snap' = Unread) \/ (spc' = spc /\ snap' = snap)
  <2>1. CASE Request
    BY <2>1, Zenon DEF Request, counters
  <2>2. CASE UNCHANGED statVars
    BY <2>2, Zenon DEF statVars
  <2> QED BY <2>1, <2>2, Zenon
<1>2. \A g \in Handlers : Fits(g)'
  BY <1>0, <1>1, Zenon DEF Fits, M
<1>3. Began' = Began /\ CountedNow' = CountedNow /\ \A r : CountedAs(r)' = CountedAs(r)
  BY <1>1, Zenon DEF Began, Begun, CountedNow, Counted, CountedAs, M
<1>4. \A m : Added(m)' = Added(m) /\ InCount(m)' = InCount(m)
  BY <1>1, ZenonT(40) DEF Added, InCount, Counted, M
<1>5. Books'
  BY <1>0, <1>1, <1>3, ZenonT(40) DEF Books
<1>6. ASSUME NEW m \in {1, 2} PROVE Sums(m)' /\ Extremes(m)'
  BY <1>0, <1>1, <1>4, ZenonT(40) DEF Sums, Extremes
<1>7. /\ Unread \in [total : Nat, count : Nat, queries : Nat, open : Nat, buckets : Nat]
      /\ Unread.buckets = 0 /\ 1 \in Nat \ {0} /\ 1 <= Len(Reads) + 1
      /\ ~(1 >= 2) /\ ~(1 >= 3) /\ ~(1 >= 4)
  BY ReadsAre, SMT, SMTT(30) DEF Unread
<1>8. CountersTyped'
  <2>1. spc' \in Nat \ {0} /\ snap' \in [total : Nat, count : Nat, queries : Nat, open : Nat, buckets : Nat]
    BY <1>0, <1>1, <1>7, Zenon DEF CountersTyped
  <2> QED BY <1>0, <1>1, <2>1, Zenon DEF CountersTyped
<1>9. Reported'
  <2>1. CASE spc' = 1 /\ snap' = Unread
    BY <1>7, <2>1, Zenon DEF Reported
  <2>2. CASE spc' = spc /\ snap' = snap
    <3>1. Left' = Left
      BY <2>2, Zenon DEF Left
    <3> QED BY <1>0, <1>1, <1>4, <2>2, <3>1, Zenon DEF Reported
  <2> QED BY <1>1, <2>1, <2>2, Zenon
<1> QED BY <1>2, <1>5, <1>6, <1>8, <1>9, Zenon DEF CountersInv

\* Counters that are all 0 sum to 0.
LEMMA SumZero ==
  ASSUME NEW f, NEW S, IsFiniteSet(S), \A x \in S : f[x] = 0
  PROVE  SumFunctionOnSet(f, S) = 0
<1> DEFINE C == {T \in SUBSET S : SumFunctionOnSet(f, T) # 0}
<1>1. SUFFICES ASSUME C # {} PROVE FALSE
  BY Zenon
<1>2. \A T \in C : IsFiniteSet(T)
  BY FS_Subset, Zenon
<1>3. PICK T \in C : \A x \in T : T \ {x} \notin C
  BY <1>1, <1>2, SmallestSet, ZenonT(40)
<1>4. T # {}
  BY <1>3, SumEmpty, Zenon
<1>5. One(T) \in T /\ f[One(T)] = 0
  BY <1>4, OneIn, Zenon
<1>6. SumFunctionOnSet(f, T \ {One(T)}) = 0
  BY <1>3, <1>5, Zenon
<1>7. SumFunctionOnSet(f, T) = f[One(T)] + SumFunctionOnSet(f, T \ {One(T)})
  BY <1>2, <1>4, SumStep, ZenonT(40)
<1>8. 0 + 0 = 0
  BY SMT, SMTT(30)
<1>9. SumFunctionOnSet(f, T) = 0
  BY <1>5, <1>6, <1>7, <1>8, ZenonT(40)
<1> QED BY <1>3, <1>9, Zenon

\* The counters start right.
LEMMA CountersStart ==
  ASSUME CountersInit
  PROVE  CountersInv
<1>1. CountersTyped
  BY SMT, SMTT(30) DEF CountersInit, CountersTyped, Positions, Recording, Unread
<1>2. \A h \in Handlers : Fits(h)
  BY Zenon DEF CountersInit, Fits, Recording
<1>3. /\ Began = {} /\ CountedNow = {} /\ (\A r : CountedAs(r) = {})
      /\ \A m : Added(m) = {} /\ InCount(m) = {}
  BY Zenon DEF CountersInit, Began, Begun, CountedNow, Counted, CountedAs, Added, InCount, M, Mode
<1>4. IsFiniteSet({}) /\ Cardinality({}) = 0
  BY FS_EmptySet, Zenon
<1>5. Books
  <2>1. \A r \in Rcodes : bucket[r] = 0
    BY Zenon DEF CountersInit
  <2>2. SumFunctionOnSet(bucket, Rcodes) = 0
    BY <2>1, RcodesFinite, SumZero, ZenonT(40)
  <2>3. queries = 0
    BY Zenon DEF CountersInit
  <2> QED BY <1>3, <1>4, <2>1, <2>2, <2>3, ZenonT(40) DEF Books
<1>6. ASSUME NEW m \in {1, 2} PROVE Sums(m) /\ Extremes(m)
  <2>1. lat[m].count = 0 /\ lat[m].total = 0 /\ lat[m].min = 0 /\ lat[m].max = 0
    BY Zenon DEF CountersInit
  <2>2. SumFunctionOnSet(us, {}) = 0
    BY SumEmpty, Zenon
  <2> QED BY <1>3, <1>4, <2>1, <2>2, ZenonT(40) DEF Sums, Extremes
<1>7. Reported
  <2>1. spc = 1 /\ snap.buckets = 0
    BY Zenon DEF CountersInit, Unread
  <2>2. 1 <= Len(Reads) + 1 /\ ~(1 >= 2) /\ ~(1 >= 3) /\ ~(1 >= 4)
    BY ReadsAre, SMT, SMTT(30)
  <2> QED BY <2>1, <2>2, Zenon DEF Reported
<1> QED BY <1>1, <1>2, <1>5, <1>6, <1>7, ZenonT(40) DEF CountersInv

\* Every step keeps the counters' invariant.
LEMMA CountersStep ==
  ASSUME CountersInv, [CountersNext]_statVars
  PROVE  CountersInv'
<1>1. CASE CountersNext
  <2>1. (\E h \in Handlers : Moves(h)) \/ Read \/ Request
    BY <1>1, Zenon DEF CountersNext, Moves
  <2> QED BY <2>1, MovesInv, ReadInv, RequestInv, Zenon
<1>2. CASE UNCHANGED statVars
  BY <1>2, RequestInv, Zenon
<1> QED BY <1>1, <1>2, Zenon

\* The counters agree with the handlers at any instant of any interleaving of
\* handlers, recorders and reports.
THEOREM CountersInvariance == CountersSpec => []CountersInv
BY CountersStart, CountersStep, PTL DEF CountersSpec

(***************************************************************************)
(* What the counters promise                                               *)
(***************************************************************************)
\* The responses of all rcodes together.
LEMMA TotalIs ==
  ASSUME CountersTyped
  PROVE  Total = SumFunctionOnSet(bucket, Rcodes)
<1>1. DOMAIN bucket = Rcodes
  BY Zenon DEF CountersTyped
<1> QED BY <1>1, Zenon DEF Total, SumFunction

\* Two sets of counted replies that have none in common add up.
LEMMA ReplySetsAdd ==
  ASSUME CountersTyped, \A h \in Handlers : Fits(h), Books,
         NEW S \in SUBSET CountedNow, NEW U \in SUBSET CountedNow, S \cap U = {}
  PROVE  /\ Cardinality(S \cup U) = Cardinality(S) + Cardinality(U)
         /\ Cardinality(S) \in Nat /\ Cardinality(U) \in Nat
<1>1. IsFiniteSet(CountedNow)
  BY FiniteSets1, Zenon
<1>2. IsFiniteSet(S) /\ IsFiniteSet(U)
  BY <1>1, FS_Subset, Zenon
<1>3. Cardinality(S \cup U) = Cardinality(S) + Cardinality(U) - Cardinality(S \cap U)
  BY <1>2, FS_Union, Zenon
<1>4. Cardinality(S) \in Nat /\ Cardinality(U) \in Nat
  BY <1>2, FS_CardinalityType, Zenon
<1>5. Cardinality(S \cap U) = 0
  BY FS_EmptySet, Zenon
<1> QED BY <1>3, <1>4, <1>5, SMT, SMTT(30)

\* The replies with an rcode when they were handled, against those that clients got.
LEMMA CountedAgainstGot ==
  ASSUME CountersTyped, \A h \in Handlers : Fits(h), Books, NEW r
  PROVE  Cardinality(CountedAs(r)) =
           IF r = "servfail"
           THEN Cardinality(GotAs(r)) - Cardinality(Replaced)
           ELSE Cardinality(GotAs(r)) + Cardinality({h \in Replaced : rcode[h] = r})
<1> DEFINE was == {h \in Replaced : rcode[h] = r}
<1>1. /\ CountedAs(r) \in SUBSET CountedNow /\ GotAs(r) \in SUBSET CountedNow
      /\ Replaced \in SUBSET CountedNow /\ was \in SUBSET CountedNow
  BY Zenon DEF CountedAs, CountedNow, GotAs, Replaced
<1>2. CASE r = "servfail"
  <2>1. GotAs(r) = CountedAs(r) \cup Replaced /\ CountedAs(r) \cap Replaced = {}
    BY <1>2, Zenon DEF CountedAs, CountedNow, GotAs, Replaced
  <2>2. /\ Cardinality(GotAs(r)) = Cardinality(CountedAs(r)) + Cardinality(Replaced)
        /\ Cardinality(CountedAs(r)) \in Nat /\ Cardinality(Replaced) \in Nat
    BY <1>1, <2>1, ReplySetsAdd, Zenon
  <2>3. Cardinality(CountedAs(r)) = Cardinality(GotAs(r)) - Cardinality(Replaced)
    BY <2>2, SMT, SMTT(30)
  <2> QED BY <1>2, <2>3, Zenon
<1>3. CASE r # "servfail"
  <2>1. CountedAs(r) = GotAs(r) \cup was /\ GotAs(r) \cap was = {}
    BY <1>3, Zenon DEF CountedAs, CountedNow, GotAs, Replaced
  <2>2. Cardinality(CountedAs(r)) = Cardinality(GotAs(r)) + Cardinality(was)
    BY <1>1, <2>1, ReplySetsAdd, Zenon
  <2> QED BY <1>3, <2>2, Zenon
<1> QED BY <1>2, <1>3, Zenon

\* TotalQueries less the queries still handled or dropped before the send is
\* the sum of the response counters, and each of these counts the replies sent with
\* its rcode, up to the replies that were replaced because of their length: for any
\* number of queries over any transports.
THEOREM QueriesAreConserved == CountersSpec => []Conserved
<1>1. ASSUME CountersInv PROVE Conserved
  <2>1. CountersTyped /\ (\A h \in Handlers : Fits(h)) /\ Books
    BY <1>1, Zenon DEF CountersInv
  <2>2. Open \in Nat /\ Open = Cardinality(Began) - Cardinality(CountedNow)
    BY <2>1, FiniteSets1, Zenon
  <2>3. queries = Cardinality(Began) /\ Total = Cardinality(CountedNow) /\ queries \in Nat
    BY <2>1, TotalIs, Zenon DEF Books, CountersTyped
  <2>4. queries - Total = Open
    BY <2>2, <2>3, Zenon
  <2>5. ASSUME NEW r \in Rcodes
        PROVE  bucket[r] = IF r = "servfail"
                           THEN Cardinality(GotAs(r)) - Cardinality(Replaced)
                           ELSE Cardinality(GotAs(r)) + Cardinality({h \in Replaced : rcode[h] = r})
    <3>1. bucket[r] = Cardinality(CountedAs(r))
      BY <2>1, Zenon DEF Books
    <3> QED BY <2>1, <3>1, CountedAgainstGot, Zenon
  <2> QED BY <2>4, <2>5, Zenon DEF Conserved
<1> QED BY <1>1, CountersInvariance, PTL

\* What a report calls unaccounted was open when it read the total: answers
\* counted between two of its loads never show as drops.
THEOREM GapsWereOpen == CountersSpec => []GapWasOpen
<1>1. ASSUME CountersInv, Rendered PROVE snap.queries - snap.buckets <= snap.open
  <2>1. CountersTyped /\ Reported
    BY <1>1, Zenon DEF CountersInv
  <2>2. /\ spc \in Nat \ {0} /\ snap.queries \in Nat /\ snap.buckets \in Nat /\ snap.open \in Nat
    BY <2>1, Zenon DEF CountersTyped
  <2>3. spc > Len(Reads) /\ spc <= Len(Reads) + 1
    BY <1>1, <2>1, Zenon DEF Rendered, Reported
  <2>4. Left = {}
    BY <2>2, <2>3, LeftIs, Zenon
  <2>5. Len(Reads) \in Nat /\ Len(Reads) = Len(Replies) + 3 /\ Len(Replies) \in Nat
    BY ReadsAre, RepliesAre, Zenon
  <2>6. spc >= 4
    BY <2>2, <2>3, <2>5, SMT, SMTT(30)
  <2>7. snap.queries - snap.open <= snap.buckets + SumFunctionOnSet(bucket, Left)
    BY <2>1, <2>6, Zenon DEF Reported
  <2>8. SumFunctionOnSet(bucket, Left) = 0
    BY <2>4, SumEmpty, Zenon
  <2> HIDE DEF Left
  <2> QED BY <2>2, <2>7, <2>8, SMT, SMTT(30)
<1>2. CountersInv => GapWasOpen
  BY <1>1, Zenon DEF GapWasOpen
<1> QED BY <1>2, CountersInvariance, PTL

\* The least and the greatest of some numbers.
LEMMA LeastIs ==
  ASSUME NEW V \in SUBSET Int, NEW k \in V, \A j \in V : k <= j
  PROVE  Min(V) = k
<1>1. Min(V) \in V /\ \A j \in V : Min(V) <= j
  BY Zenon DEF Min
<1>2. Min(V) \in Int /\ k \in Int /\ Min(V) <= k /\ k <= Min(V)
  BY <1>1, Zenon
<1> QED BY <1>2, SMT, SMTT(30)

LEMMA GreatestIs ==
  ASSUME NEW V \in SUBSET Int, NEW k \in V, \A j \in V : j <= k
  PROVE  Max(V) = k
<1>0. \A j \in V : k >= j
  BY Zenon
<1>1. Max(V) \in V /\ \A j \in V : Max(V) >= j
  BY <1>0, Zenon DEF Max
<1>2. Max(V) \in Int /\ k \in Int /\ Max(V) >= k /\ k >= Max(V)
  BY <1>0, <1>1, Zenon
<1> QED BY <1>2, SMT, SMTT(30)

\* The fastest of some recorded samples is one of them and above none.
LEMMA FastestIs ==
  ASSUME CountersTyped, NEW m, Added(m) # {}
  PROVE  /\ Min({us[g] : g \in Added(m)}) \in Nat
         /\ \A h \in Added(m) : Min({us[g] : g \in Added(m)}) <= us[h]
<1> DEFINE V == {us[g] : g \in Added(m)}
<1>1. \A g \in Added(m) : us[g] \in Nat
  BY AddedAre, Zenon
<1>2. V \in SUBSET Nat /\ V # {} /\ V \in SUBSET Int
  BY <1>1, SMT, SMTT(30)
<1>3. PICK k \in V : \A j \in V : k <= j
  BY <1>2, LeastExists, Zenon
<1>4. Min(V) = k
  <2> HIDE DEF V
  <2> QED BY <1>2, <1>3, LeastIs, Zenon
<1>5. Min(V) \in V /\ \A j \in V : Min(V) <= j
  BY <1>3, <1>4, Zenon
<1>6. \A h \in Added(m) : us[h] \in V
  BY Zenon
<1> QED BY <1>2, <1>5, <1>6, ZenonT(40)

\* The average a report shows, of a sum and a count loaded at different
\* times while recorders run, is not below the fastest fetch.
THEOREM AveragesAreHonest == CountersSpec => []AverageNotBelowFastest
<1>0. ASSUME NEW t \in Int, NEW c \in Nat, NEW v \in Nat, NEW w \in Nat, t >= c * v, w <= v
      PROVE  t >= c * w
  <2>1. c * w <= c * v /\ c * w \in Int /\ c * v \in Int
    BY <1>0, SMT, SMTT(30)
  <2> QED BY <1>0, <2>1, SMT, SMTT(30)
<1>1. ASSUME CountersInv, Rendered, snap.count > 0
      PROVE  snap.total >= snap.count * Min({us[h] : h \in Added(1)})
  <2>1. CountersTyped /\ Reported
    BY <1>1, Zenon DEF CountersInv
  <2>2. spc \in Nat /\ snap.count \in Nat /\ snap.total \in Int
    BY <2>1, SMT, SMTT(30) DEF CountersTyped
  <2>3. Len(Reads) \in Nat /\ Len(Reads) = Len(Replies) + 3 /\ Len(Replies) \in Nat
    BY ReadsAre, RepliesAre, Zenon
  <2>4. spc > Len(Reads)
    BY <1>1, Zenon DEF Rendered
  <2>5. spc >= 3
    BY <2>2, <2>3, <2>4, SMT, SMTT(30)
  <2>6. PICK h \in Added(1) : snap.total >= snap.count * us[h]
    BY <1>1, <2>1, <2>5, Zenon DEF Reported
  <2>7. us[h] \in Nat
    BY <2>1, <2>6, AddedAre, Zenon
  <2>8. Min({us[g] : g \in Added(1)}) \in Nat /\ Min({us[g] : g \in Added(1)}) <= us[h]
    BY <2>1, <2>6, FastestIs, Zenon
  <2> QED BY <1>0, <2>2, <2>6, <2>7, <2>8, Zenon
<1>2. CountersInv => AverageNotBelowFastest
  BY <1>1, Zenon DEF AverageNotBelowFastest
<1> QED BY <1>2, CountersInvariance, PTL

\* Once every recorder of a mode is through, its count, its sum and its
\* maximum are those of the samples, and so is its minimum unless a sample was
\* 0: the compare-and-swap loops lose no update, however many ran at a time.
THEOREM NoUpdateIsLost == CountersSpec => []LatencyExact
<1>1. ASSUME CountersInv, NEW m \in {1, 2}, Added(m) # {},
             \A h \in Added(m) : hpc[h] \in {"reply", "done", "dropped"}
      PROVE  /\ lat[m].count = Cardinality(Added(m))
             /\ lat[m].total = SumFunction([h \in Added(m) |-> us[h]])
             /\ lat[m].max = Max({us[h] : h \in Added(m)})
             /\ (\A h \in Added(m) : us[h] # 0) => lat[m].min = Min({us[h] : h \in Added(m)})
  <2>1. CountersTyped /\ (\A h \in Handlers : Fits(h)) /\ Books /\ Sums(m) /\ Extremes(m)
    BY <1>1, Zenon DEF CountersInv
  <2>2. \A h \in Added(m) : us[h] \in Nat
    BY <2>1, AddedAre, ZenonT(40)
  <2>3. lat[m].max \in Nat /\ lat[m].min \in Nat
    BY <2>1, Zenon DEF CountersTyped
  <2>4. IsFiniteSet(Added(m))
    BY <2>1, FiniteSets1, Zenon
  <2> DEFINE V == {us[h] : h \in Added(m)}
  <2>5. V \in SUBSET Int
    BY <2>2, SMT, SMTT(30)
  <2>6. \A h \in Added(m) : hpc[h] \in Past /\ hpc[h] # "count" /\ us[h] \in V
    BY <1>1, Zenon DEF Past
  <2>7. lat[m].count = Cardinality(Added(m))
    <3>1. InCount(m) = Added(m)
      BY <2>6, Zenon DEF InCount
    <3> QED BY <2>1, <3>1, Zenon DEF Sums
  <2>8. lat[m].total = SumFunction([h \in Added(m) |-> us[h]])
    <3> DEFINE f == [h \in Added(m) |-> us[h]]
    <3>1. DOMAIN f = Added(m) /\ \A h \in Added(m) : f[h] = us[h]
      BY Zenon
    <3> HIDE DEF f
    <3>2. SumFunctionOnSet(f, Added(m)) = SumFunctionOnSet(us, Added(m))
      BY <2>4, <3>1, SumAgree, ZenonT(40)
    <3>3. SumFunction(f) = SumFunctionOnSet(f, Added(m))
      BY <3>1, ZenonT(40) DEF SumFunction
    <3>4. lat[m].total = SumFunction(f)
      BY <2>1, <3>2, <3>3, Zenon DEF Sums
    <3> QED BY <3>4, Zenon DEF f
  <2>9. lat[m].max = Max(V)
    <3>1. \A h \in Added(m) : us[h] <= lat[m].max
      BY <2>1, <2>6, Zenon DEF Extremes
    <3>2. lat[m].max \in V
      <4>1. CASE lat[m].max # 0
        BY <2>1, <4>1, Zenon DEF Extremes
      <4>2. CASE lat[m].max = 0
        <5>1. PICK h \in Added(m) : TRUE
          BY <1>1, Zenon
        <5>2. us[h] = 0
          BY <2>2, <3>1, <4>2, <5>1, SMT, SMTT(30)
        <5> QED BY <4>2, <5>1, <5>2, ZenonT(40)
      <4> QED BY <4>1, <4>2, Zenon
    <3>3. \A j \in V : j <= lat[m].max
      BY <3>1, Zenon
    <3> HIDE DEF V
    <3> QED BY <2>5, <3>2, <3>3, GreatestIs, ZenonT(40)
  <2>10. ASSUME \A h \in Added(m) : us[h] # 0 PROVE lat[m].min = Min(V)
    <3>1. \A h \in Added(m) : lat[m].min # 0 /\ lat[m].min <= us[h]
      BY <2>1, <2>6, <2>10, ZenonT(40) DEF Extremes
    <3>2. lat[m].min \in V
      BY <1>1, <2>1, <2>10, <3>1, ZenonT(40) DEF Extremes
    <3>3. \A j \in V : lat[m].min <= j
      BY <3>1, Zenon
    <3> HIDE DEF V
    <3> QED BY <2>5, <3>2, <3>3, LeastIs, ZenonT(40)
  <2> QED BY <2>7, <2>8, <2>9, <2>10, Zenon
<1>2. CountersInv => LatencyExact
  BY <1>1, Zenon DEF LatencyExact
<1> QED BY <1>2, CountersInvariance, PTL

====
