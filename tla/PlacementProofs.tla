-------------------------- MODULE PlacementProofs --------------------------
(***************************************************************************)
(* What a sum over a finite set is, which choose_span and the cost of a    *)
(* route are made of, and what follows for the span that is chosen.  The   *)
(* induction on the size of a set is done by a smallest counterexample.    *)
(***************************************************************************)
EXTENDS Placement, FiniteSetTheorems, TLAPS

\* One step of a sum: the weight of an element, and the rest.
Pick(T) == CHOOSE x \in T : TRUE

Step(w, g, T) == IF T = {} THEN 0 ELSE w[Pick(T)] + g[T \ {Pick(T)}]

Sums(w, S, g) == \A T \in SUBSET S : g[T] = Step(w, g, T)

SumOver(w, S) == MapThenSumSet(LAMBDA x : w[x], S)

-----------------------------------------------------------------------------
LEMMA SmallestOf ==
  ASSUME NEW T, T \subseteq Nat, T # {}
  PROVE  \E x \in T : \A y \in T : x <= y
<1>1. PICK x \in T : \A y \in T : ~(<<y, x>> \in OpToRel(<, Nat))
  BY WFMin, NatLessThanWellFounded
<1>2. \A y \in T : ~(y < x)
  BY <1>1 DEF OpToRel
<1> QED
  BY <1>2

LEMMA SumUnfolds ==
  ASSUME NEW w, NEW S
  PROVE  SumOver(w, S) = (CHOOSE g : g = [T \in SUBSET S |-> Step(w, g, T)])[S]
BY DEF SumOver, MapThenSumSet, MapThenFoldSet, Step, Pick

\* On a finite set the steps define a function.
LEMMA StepsHaveSum ==
  ASSUME NEW w, NEW S, IsFiniteSet(S)
  PROVE  \E g : g = [T \in SUBSET S |-> Step(w, g, T)]
<1> DEFINE Within(n) == {T \in SUBSET S : Cardinality(T) <= n}
           Good(n, g) == g = [T \in SUBSET S |-> g[T]] /\ \A T \in Within(n) : g[T] = Step(w, g, T)
           bad == {n \in Nat : ~(\E g : Good(n, g))}
<1>1. \A T \in SUBSET S : IsFiniteSet(T) /\ Cardinality(T) \in Nat
  BY FS_Subset, FS_CardinalityType
<1>2. \A T \in SUBSET S : T # {} =>
        /\ T \ {Pick(T)} \in SUBSET S
        /\ Cardinality(T \ {Pick(T)}) = Cardinality(T) - 1
  <2> SUFFICES ASSUME NEW T \in SUBSET S, T # {}
               PROVE  Cardinality(T \ {Pick(T)}) = Cardinality(T) - 1
    OBVIOUS
  <2>1. Pick(T) \in T
    BY DEF Pick
  <2> QED
    BY <1>1, <2>1, FS_RemoveElement
<1>3. \A T \in SUBSET S : T # {} => Cardinality(T) > 0
  BY <1>1, FS_EmptySet
<1>4. \E g : Good(0, g)
  <2> DEFINE g == [T \in SUBSET S |-> 0]
  <2>1. \A T \in Within(0) : T = {}
    BY <1>1, <1>3
  <2>2. \A T \in Within(0) : g[T] = Step(w, g, T)
    BY <2>1 DEF Step
  <2>3. g = [T \in SUBSET S |-> g[T]]
    OBVIOUS
  <2> HIDE DEF g
  <2> QED
    BY <2>2, <2>3
<1>5. ASSUME NEW n \in Nat, NEW g, Good(n, g) PROVE \E h : Good(n + 1, h)
  <2> DEFINE h == [T \in SUBSET S |-> IF Cardinality(T) <= n THEN g[T] ELSE Step(w, g, T)]
  <2>1. ASSUME NEW T \in Within(n + 1) PROVE h[T] = Step(w, h, T)
    <3>1. h[T] = Step(w, g, T)
      BY <1>5
    <3>2. T # {} => h[T \ {Pick(T)}] = g[T \ {Pick(T)}]
      BY <1>1, <1>2
    <3> QED
      BY <3>1, <3>2 DEF Step
  <2>2. h = [T \in SUBSET S |-> h[T]]
    OBVIOUS
  <2> HIDE DEF h
  <2> QED
    BY <2>1, <2>2
<1>6. bad = {}
  <2> SUFFICES ASSUME bad # {} PROVE FALSE
    OBVIOUS
  <2>1. PICK n \in bad : \A m \in bad : n <= m
    BY SmallestOf
  <2>2. n \in Nat /\ ~(\E g : Good(n, g))
    BY <2>1
  <2> HIDE DEF Good
  <2>3. n # 0
    BY <1>4, <2>2
  <2>4. n - 1 \in Nat /\ n - 1 + 1 = n /\ ~(n <= n - 1)
    BY <2>2, <2>3
  <2>5. \E g : Good(n - 1, g)
    BY <2>1, <2>4
  <2>6. \E h : Good(n, h)
    BY <1>5, <2>4, <2>5
  <2> QED
    BY <2>2, <2>6
<1>7. Cardinality(S) \in Nat /\ \A T \in SUBSET S : T \in Within(Cardinality(S))
  BY <1>1, FS_Subset
<1>8. PICK g : Good(Cardinality(S), g)
  BY <1>6, <1>7
<1>9. g = [T \in SUBSET S |-> Step(w, g, T)]
  BY <1>7, <1>8
<1> QED
  BY <1>9

\* A sum is the weight of one element and the sum of the rest.
LEMMA SumOfRest ==
  ASSUME NEW w, NEW S, IsFiniteSet(S)
  PROVE  \E g : SumOver(w, S) = g[S] /\ Sums(w, S, g)
<1> DEFINE g == CHOOSE f : f = [T \in SUBSET S |-> Step(w, f, T)]
<1>0. \E f : f = [T \in SUBSET S |-> Step(w, f, T)]
  BY StepsHaveSum
<1>1. g = [T \in SUBSET S |-> Step(w, g, T)]
  BY <1>0
<1>2. SumOver(w, S) = g[S]
  BY SumUnfolds
<1> HIDE DEF g
<1>3. Sums(w, S, g)
  BY <1>1 DEF Sums
<1> QED
  BY <1>2, <1>3

\* Weights are natural numbers: so is their sum, and it is 0 if they are all 0.
LEMMA SumIsNatural ==
  ASSUME NEW w, NEW S, IsFiniteSet(S), \A x \in S : w[x] \in Nat
  PROVE  /\ SumOver(w, S) \in Nat
         /\ SumOver(w, S) = 0 <=> \A x \in S : w[x] = 0
<1>0. PICK g : SumOver(w, S) = g[S] /\ Sums(w, S, g)
  BY SumOfRest
<1>1. \A T \in SUBSET S : g[T] = Step(w, g, T)
  BY <1>0 DEF Sums
<1> DEFINE Right(T) == g[T] \in Nat /\ (g[T] = 0 <=> \A x \in T : w[x] = 0)
<1>2. ASSUME NEW T \in SUBSET S, T # {}, Right(T \ {Pick(T)}) PROVE Right(T)
  <2>1. Pick(T) \in T
    BY <1>2 DEF Pick
  <2>2. g[T] = w[Pick(T)] + g[T \ {Pick(T)}]
    BY <1>1, <1>2 DEF Step
  <2>3. w[Pick(T)] \in Nat /\ g[T \ {Pick(T)}] \in Nat
    BY <1>2, <2>1
  <2>4. g[T] \in Nat /\ (g[T] = 0 <=> w[Pick(T)] = 0 /\ g[T \ {Pick(T)}] = 0)
    BY <2>2, <2>3
  <2>5. (\A x \in T : w[x] = 0) <=> w[Pick(T)] = 0 /\ \A x \in T \ {Pick(T)} : w[x] = 0
    BY <2>1
  <2> QED
    BY <1>2, <2>4, <2>5
<1>3. Right({})
  <2>1. g[{}] = 0
    BY <1>1 DEF Step
  <2> QED
    BY <2>1
<1> DEFINE bad == {Cardinality(T) : T \in {U \in SUBSET S : ~Right(U)}}
<1>4. \A T \in SUBSET S : IsFiniteSet(T) /\ Cardinality(T) \in Nat
  BY FS_Subset, FS_CardinalityType
<1>5. bad = {}
  <2> SUFFICES ASSUME bad # {} PROVE FALSE
    OBVIOUS
  <2>1. bad \subseteq Nat
    BY <1>4
  <2>2. PICK n \in bad : \A m \in bad : n <= m
    BY <2>1, SmallestOf
  <2>3. PICK T \in SUBSET S : n = Cardinality(T) /\ ~Right(T)
    BY <2>2
  <2>4. T # {}
    BY <1>3, <2>3
  <2>5. ~Right(T \ {Pick(T)})
    BY <1>2, <2>3, <2>4
  <2>6. Cardinality(T \ {Pick(T)}) \in bad
    BY <2>3, <2>5
  <2>7. Pick(T) \in T
    BY <2>4 DEF Pick
  <2>8. Cardinality(T \ {Pick(T)}) = n - 1
    BY <1>4, <2>3, <2>7, FS_RemoveElement
  <2> HIDE DEF bad
  <2>9. n \in Nat /\ n <= n - 1
    BY <2>1, <2>2, <2>6, <2>8
  <2> QED
    BY <2>9
<1>6. Right(S)
  BY <1>5
<1> QED
  BY <1>0, <1>6

\* Of the subsets of a finite set that are in Bad, one has no smaller one.
LEMMA SmallestSet ==
  ASSUME NEW S, IsFiniteSet(S), NEW Bad, Bad \subseteq SUBSET S, Bad # {}
  PROVE  \E T \in Bad : \A x \in T : T \ {x} \notin Bad
<1> DEFINE sizes == {Cardinality(T) : T \in Bad}
<1>1. \A T \in SUBSET S : IsFiniteSet(T) /\ Cardinality(T) \in Nat
  BY FS_Subset, FS_CardinalityType
<1>2. sizes \subseteq Nat /\ sizes # {}
  BY <1>1
<1>3. PICK n \in sizes : \A m \in sizes : n <= m
  BY <1>2, SmallestOf
<1>4. PICK T \in Bad : n = Cardinality(T)
  BY <1>3
<1>5. ASSUME NEW x \in T, T \ {x} \in Bad PROVE FALSE
  <2>1. Cardinality(T \ {x}) = n - 1
    BY <1>1, <1>4, FS_RemoveElement
  <2>2. Cardinality(T \ {x}) \in sizes
    BY <1>5
  <2> HIDE DEF sizes
  <2>3. n <= n - 1 /\ n \in Nat
    BY <1>2, <1>3, <2>1, <2>2
  <2> QED
    BY <2>3
<1> QED
  BY <1>5

\* A sum does not depend on the set it is taken in.
LEMMA SumsAgree ==
  ASSUME NEW w, NEW S, NEW R, NEW g, NEW h, IsFiniteSet(R), R \subseteq S,
         Sums(w, S, g), Sums(w, R, h)
  PROVE  \A T \in SUBSET R : g[T] = h[T]
<1> DEFINE Bad == {T \in SUBSET R : g[T] # h[T]}
<1> SUFFICES ASSUME Bad # {} PROVE FALSE
  OBVIOUS
<1>1. PICK T \in Bad : \A x \in T : T \ {x} \notin Bad
  <2> HIDE DEF Bad
  <2>1. Bad \subseteq SUBSET R
    BY DEF Bad
  <2> QED
    BY <2>1, SmallestSet
<1>2. T \in SUBSET S /\ T \in SUBSET R /\ g[T] # h[T]
  BY <1>1
<1>3. g[T] = Step(w, g, T) /\ h[T] = Step(w, h, T)
  BY <1>2 DEF Sums
<1>4. CASE T = {}
  BY <1>2, <1>3, <1>4 DEF Step
<1>5. CASE T # {}
  <2>1. Pick(T) \in T
    BY <1>5 DEF Pick
  <2>2. g[T \ {Pick(T)}] = h[T \ {Pick(T)}]
    BY <1>1, <1>2, <2>1
  <2> QED
    BY <1>2, <1>3, <1>5, <2>2 DEF Step
<1> QED
  BY <1>4, <1>5

\* The sum of a set with one element more.
LEMMA SumOfAdded ==
  ASSUME NEW w, NEW S, IsFiniteSet(S), \A y \in S : w[y] \in Nat, NEW x \in S
  PROVE  SumOver(w, S) = w[x] + SumOver(w, S \ {x})
<1>1. PICK g : SumOver(w, S) = g[S] /\ Sums(w, S, g)
  BY SumOfRest
<1>2. \A T \in SUBSET S : g[T] = SumOver(w, T) /\ g[T] \in Nat
  <2> SUFFICES ASSUME NEW T \in SUBSET S
               PROVE  g[T] = SumOver(w, T) /\ SumOver(w, T) \in Nat
    OBVIOUS
  <2>1. IsFiniteSet(T)
    BY FS_Subset
  <2>2. PICK h : SumOver(w, T) = h[T] /\ Sums(w, T, h)
    BY <2>1, SumOfRest
  <2>3. \A U \in SUBSET T : g[U] = h[U]
    BY <1>1, <2>1, <2>2, SumsAgree
  <2>4. \A y \in T : w[y] \in Nat
    OBVIOUS
  <2>5. SumOver(w, T) \in Nat
    BY <2>1, <2>4, SumIsNatural
  <2> QED
    BY <2>2, <2>3, <2>5
<1> DEFINE Bad == {T \in SUBSET S : ~(\A y \in T : g[T] = w[y] + g[T \ {y}])}
<1>3. Bad = {}
  <2> SUFFICES ASSUME Bad # {} PROVE FALSE
    OBVIOUS
  <2>1. PICK T \in Bad : \A y \in T : T \ {y} \notin Bad
    <3> HIDE DEF Bad
    <3>1. Bad \subseteq SUBSET S
      BY DEF Bad
    <3> QED
      BY <3>1, SmallestSet
  <2>2. PICK y \in T : g[T] # w[y] + g[T \ {y}]
    BY <2>1
  <2> DEFINE z == Pick(T)
  <2>3. T \in SUBSET S /\ z \in T
    BY <2>1, <2>2 DEF Pick
  <2>4. g[T] = w[z] + g[T \ {z}]
    BY <1>1, <2>3 DEF Sums, Step
  <2> HIDE DEF z
  <2>5. y # z
    BY <2>2, <2>4
  <2>6. g[T \ {z}] = w[y] + g[(T \ {z}) \ {y}]
    BY <2>1, <2>2, <2>3, <2>5
  <2>7. g[T \ {y}] = w[z] + g[(T \ {y}) \ {z}]
    BY <2>1, <2>2, <2>3, <2>5
  <2>8. (T \ {z}) \ {y} = (T \ {y}) \ {z}
    OBVIOUS
  <2>9. w[y] \in Nat /\ w[z] \in Nat /\ g[(T \ {y}) \ {z}] \in Nat
    BY <1>2, <2>2, <2>3
  <2> HIDE DEF Bad
  <2> DEFINE r == g[(T \ {y}) \ {z}]
  <2>10. g[T \ {z}] = w[y] + r /\ g[T \ {y}] = w[z] + r /\ r \in Nat
    BY <2>6, <2>7, <2>8, <2>9
  <2> HIDE DEF r
  <2>11. g[T] = w[z] + (w[y] + r) /\ g[T] # w[y] + (w[z] + r)
    BY <2>2, <2>4, <2>10
  <2> QED
    BY <2>9, <2>10, <2>11
<1>4. g[S] = w[x] + g[S \ {x}]
  BY <1>3
<1> QED
  BY <1>2, <1>4

-----------------------------------------------------------------------------
(***************************************************************************)
(* choose_span.                                                            *)
(***************************************************************************)
Swarm(servers, numLayers) ==
  /\ IsFiniteSet(servers) /\ \A s \in servers : s.throughput \in Nat \ {0}
  /\ numLayers \in Nat \ {0}

\* A layer is covered by the servers that have it.
LEMMA CoverageOfLayer ==
  ASSUME NEW servers, NEW numLayers, Swarm(servers, numLayers), NEW l \in 0 .. numLayers - 1
  PROVE  /\ Coverage(servers, numLayers)[l] \in Nat
         /\ Coverage(servers, numLayers)[l] = 0
              <=> \A s \in servers : l \notin LayersOf(s, numLayers)
<1> DEFINE Weight(s) == IF l \in LayersOf(s, numLayers) THEN s.throughput ELSE 0
           w == [s \in servers |-> Weight(s)]
           Summed(g) == [T \in SUBSET servers |->
             IF T = {} THEN 0
             ELSE Weight(CHOOSE x \in T : TRUE) + g[T \ {CHOOSE x \in T : TRUE}]]
           Stepped(g) == [T \in SUBSET servers |-> Step(w, g, T)]
<1>1. Coverage(servers, numLayers)[l] = (CHOOSE g : g = Summed(g))[servers]
  BY DEF Coverage, MapThenSumSet, MapThenFoldSet
<1>2. SumOver(w, servers) = (CHOOSE g : g = Stepped(g))[servers]
  BY SumUnfolds
<1>3. ASSUME NEW g PROVE Summed(g) = Stepped(g)
  <2> SUFFICES ASSUME NEW T \in SUBSET servers, T # {}
               PROVE  Weight(CHOOSE x \in T : TRUE) = w[CHOOSE x \in T : TRUE]
    BY DEF Step, Pick
  <2>1. (CHOOSE x \in T : TRUE) \in servers
    OBVIOUS
  <2> QED
    BY <2>1
<1>4. \A s \in servers : w[s] \in Nat /\ (w[s] = 0 <=> l \notin LayersOf(s, numLayers))
  BY DEF Swarm
<1> HIDE DEF Summed, Stepped, w
<1>5. (CHOOSE g : g = Summed(g)) = (CHOOSE g : g = Stepped(g))
  BY <1>3
<1>6. Coverage(servers, numLayers)[l] = SumOver(w, servers)
  BY <1>1, <1>2, <1>5
<1>7. IsFiniteSet(servers)
  BY DEF Swarm
<1> QED
  BY <1>4, <1>6, <1>7, SumIsNatural

LEMMA MinIsLeast ==
  ASSUME NEW T, T \subseteq Nat, T # {}
  PROVE  Min(T) \in T /\ \A y \in T : Min(T) <= y
<1>1. \E x \in T : \A y \in T : x <= y
  BY SmallestOf
<1> QED
  BY <1>1 DEF Min

\* The keys (min, sum, i) are ordered, so one start is the first.
LEMMA FirstStart ==
  ASSUME NEW coverage, NEW len \in Nat, NEW starts, starts \subseteq Nat, starts # {},
         \A i \in starts : Weakest(coverage, i, len) \in Nat /\ Total(coverage, i, len) \in Nat
  PROVE  \E i \in starts : \A j \in starts : Before(coverage, i, j, len)
<1> DEFINE weak(i) == Weakest(coverage, i, len)
           total(i) == Total(coverage, i, len)
           minima == {weak(i) : i \in starts}
<1>1. PICK a \in minima : \A y \in minima : a <= y
  BY SmallestOf
<1> DEFINE weakest == {i \in starts : weak(i) = a}
           sums == {total(i) : i \in weakest}
<1>2. PICK c \in sums : \A y \in sums : c <= y
  <2>1. sums \subseteq Nat /\ sums # {}
    BY <1>1
  <2> HIDE DEF sums
  <2> QED
    BY <2>1, SmallestOf
<1> DEFINE lightest == {i \in weakest : total(i) = c}
<1>3. PICK i \in lightest : \A j \in lightest : i <= j
  <2>1. lightest \subseteq Nat /\ lightest # {}
    BY <1>2
  <2> HIDE DEF lightest
  <2> QED
    BY <2>1, SmallestOf
<1>4. ASSUME NEW j \in starts PROVE Before(coverage, i, j, len)
  <2>1. i \in starts /\ weak(i) = a /\ total(i) = c
    BY <1>3
  <2>2. a \in Nat /\ weak(j) \in Nat /\ a <= weak(j)
    BY <1>1
  <2>3. c \in Nat /\ total(j) \in Nat
    BY <1>2
  <2>4. weak(j) = a => c <= total(j)
    BY <1>2
  <2>5. weak(j) = a /\ total(j) = c => i <= j
    BY <1>3
  <2> HIDE DEF weak, total
  <2>6. a < weak(j) \/ (a = weak(j) /\ (c < total(j) \/ (c = total(j) /\ i <= j)))
    BY <2>2, <2>3, <2>4, <2>5
  <2> QED
    BY <2>1, <2>6 DEF Before, weak, total
<1> QED
  BY <1>3, <1>4

LEMMA SpanChosen ==
  ASSUME NEW servers, NEW numLayers, Swarm(servers, numLayers), NEW wanted \in 1 .. numLayers
  PROVE  LET coverage == Coverage(servers, numLayers)
             span == ChooseSpan(servers, numLayers, wanted)
         IN  /\ span.start \in 0 .. numLayers - wanted /\ span.end = span.start + wanted
             /\ \A j \in 0 .. numLayers - wanted : Before(coverage, span.start, j, wanted)
             /\ \A i \in 0 .. numLayers - wanted :
                  /\ \E l \in i .. i + wanted - 1 : coverage[l] = Weakest(coverage, i, wanted)
                  /\ \A l \in i .. i + wanted - 1 : /\ coverage[l] \in Nat
                                                  /\ Weakest(coverage, i, wanted) <= coverage[l]
<1> DEFINE coverage == Coverage(servers, numLayers)
           span == ChooseSpan(servers, numLayers, wanted)
           starts == 0 .. numLayers - wanted
<1>1. numLayers \in Nat \ {0} /\ wanted \in Nat \ {0} /\ wanted <= numLayers
  BY DEF Swarm
<1>2. Min({wanted, numLayers}) = wanted
  <2>1. {wanted, numLayers} \subseteq Nat
    BY <1>1
  <2>2. /\ Min({wanted, numLayers}) \in {wanted, numLayers}
        /\ Min({wanted, numLayers}) <= wanted
    BY <2>1, MinIsLeast
  <2> QED
    BY <1>1, <2>2
<1>3. \A l \in 0 .. numLayers - 1 : coverage[l] \in Nat
  BY CoverageOfLayer
<1> HIDE DEF coverage
<1>4. ASSUME NEW i \in starts
      PROVE  /\ Weakest(coverage, i, wanted) \in Nat /\ Total(coverage, i, wanted) \in Nat
             /\ \E l \in i .. i + wanted - 1 : coverage[l] = Weakest(coverage, i, wanted)
             /\ \A l \in i .. i + wanted - 1 : /\ coverage[l] \in Nat
                                             /\ Weakest(coverage, i, wanted) <= coverage[l]
  <2> DEFINE window == i .. i + wanted - 1
             values == {coverage[l] : l \in window}
  <2>1. window \subseteq 0 .. numLayers - 1 /\ i \in window
    BY <1>1
  <2>2. values \subseteq Nat /\ values # {} /\ \A l \in window : coverage[l] \in Nat
    BY <1>3, <2>1
  <2>3. Min(values) \in values /\ \A y \in values : Min(values) <= y
    BY <2>2, MinIsLeast
  <2>4. Weakest(coverage, i, wanted) = Min(values)
    BY DEF Weakest
  <2>5. IsFiniteSet(window)
    BY <1>1, FS_Interval
  <2>6. Total(coverage, i, wanted) = SumOver(coverage, window)
    BY DEF Total, SumOver
  <2>7. SumOver(coverage, window) \in Nat
    BY <2>2, <2>5, SumIsNatural
  <2> QED
    BY <2>2, <2>3, <2>4, <2>6, <2>7
<1>5. starts \subseteq Nat /\ starts # {}
  BY <1>1
<1> DEFINE best == CHOOSE i \in starts : \A j \in starts : Before(coverage, i, j, wanted)
<1>6. best \in starts /\ \A j \in starts : Before(coverage, best, j, wanted)
  <2> HIDE DEF starts
  <2>1. \E i \in starts : \A j \in starts : Before(coverage, i, j, wanted)
    BY <1>1, <1>4, <1>5, FirstStart
  <2> QED
    BY <2>1
<1>7. span = [start |-> best, end |-> best + wanted]
  BY <1>2 DEF ChooseSpan, coverage
<1> HIDE DEF best
<1> QED
  BY <1>4, <1>6, <1>7 DEF coverage

\* A server that joins takes a layer that nobody serves, if there is one.
LEMMA ChosenSpanFillsGap ==
  ASSUME NEW servers, NEW numLayers, Swarm(servers, numLayers), NEW wanted \in 1 .. numLayers,
         NEW gap \in 0 .. numLayers - 1, \A s \in servers : gap \notin LayersOf(s, numLayers)
  PROVE  \E l \in LayersOf(ChooseSpan(servers, numLayers, wanted), numLayers) :
           \A s \in servers : l \notin LayersOf(s, numLayers)
<1> DEFINE coverage == Coverage(servers, numLayers)
           span == ChooseSpan(servers, numLayers, wanted)
           around == IF gap <= numLayers - wanted THEN gap ELSE numLayers - wanted
<1>1. numLayers \in Nat \ {0} /\ wanted \in Nat \ {0} /\ wanted <= numLayers
  BY DEF Swarm
<1>2. around \in 0 .. numLayers - wanted /\ gap \in around .. around + wanted - 1
  BY <1>1
<1> HIDE DEF around
<1>3. /\ span.start \in 0 .. numLayers - wanted /\ span.end = span.start + wanted
      /\ Before(coverage, span.start, around, wanted)
      /\ \E l \in span.start .. span.start + wanted - 1 :
           coverage[l] = Weakest(coverage, span.start, wanted)
      /\ coverage[gap] \in Nat /\ Weakest(coverage, around, wanted) <= coverage[gap]
      /\ \E l \in around .. around + wanted - 1 : coverage[l] = Weakest(coverage, around, wanted)
  BY <1>2, SpanChosen
<1>4. coverage[gap] = 0
  BY CoverageOfLayer
<1>5. PICK l \in span.start .. span.start + wanted - 1 :
        coverage[l] = Weakest(coverage, span.start, wanted)
  BY <1>3
<1>6. l \in 0 .. numLayers - 1 /\ l \in LayersOf(span, numLayers)
  BY <1>1, <1>3 DEF LayersOf
<1>7. coverage[l] \in Nat
  BY <1>6, CoverageOfLayer
<1>8. coverage[l] = 0
  <2>1. PICK k \in around .. around + wanted - 1 : coverage[k] = Weakest(coverage, around, wanted)
    BY <1>3
  <2>2. k \in 0 .. numLayers - 1
    BY <1>1, <1>2, <2>1
  <2>3. coverage[k] \in Nat
    BY <2>2, CoverageOfLayer
  <2>4. coverage[k] = 0
    BY <1>3, <1>4, <2>1, <2>3
  <2>5. Weakest(coverage, span.start, wanted) <= Weakest(coverage, around, wanted)
    BY <1>3, <1>5, <1>7, <2>1, <2>3 DEF Before
  <2> QED
    BY <1>5, <1>7, <2>1, <2>4, <2>5
<1>9. \A s \in servers : l \notin LayersOf(s, numLayers)
  BY <1>6, <1>8, CoverageOfLayer
<1> QED
  BY <1>6, <1>9

=============================================================================
