---------------------------- MODULE EncoderProofs ----------------------------
(***************************************************************************)
(* Why a request for images is answered with its own embeddings, whoever   *)
(* else uses the cache and whichever encoders fail.  A cache only ever     *)
(* holds an image with its own embedding, the images of a batch are put    *)
(* together as they were split, and an input has failed at one encoder     *)
(* after the other.  What is done one by one is a fold over a sequence:    *)
(* the induction on its length is done by a smallest counterexample.       *)
(***************************************************************************)
EXTENDS EncoderCache, SequenceTheorems, FiniteSetTheorems, TLAPS

Entries == [key : Images, emb : Images]

\* The caches that hold an image once, and with its own embedding.
Caches ==
  {c \in Seq(Entries) :
     /\ Len(c) <= CacheSize
     /\ \A i, j \in DOMAIN c : c[i].key = c[j].key => i = j
     /\ \A i \in DOMAIN c : c[i].emb = c[i].key}

Records ==
  [pc : Outcomes \cup {"new", "lookup", "encoding"}, batch : BOOLEAN,
   images : Seq(Images), missing : Seq(Nat), encoders : Seq(Encoders),
   inputs : Seq(Seq(Images)), tries : Seq(Nat), results : Seq(Seq(Images)),
   answer : Seq(Images)]

\* An input was answered by itself, or has failed at tries[k] encoders.
Trying(q, k) ==
  /\ q.results[k] \in {<< >>, q.inputs[k]}
  /\ q.tries[k] < Len(q.encoders)
  /\ \A j \in 0 .. q.tries[k] - 1 : q.encoders[SeqMod(k + j, Len(q.encoders))] \notin Reliable

Working(q) ==
  /\ Reliable \subseteq ToSet(q.encoders) /\ Len(q.encoders) > 0
  /\ q.inputs = Inputs(q, q.encoders)
  /\ DOMAIN q.tries = DOMAIN q.inputs /\ DOMAIN q.results = DOMAIN q.inputs
  /\ \A k \in DOMAIN q.inputs : Trying(q, k)

Right(q) ==
  /\ \A i \in DOMAIN q.missing : q.missing[i] \in DOMAIN q.images
  /\ q.batch => q.images # << >>
  /\ q.pc = "answered" => q.answer = q.images
  /\ q.pc = "no route" => Reliable = {}
  /\ q.pc = "encoding" => Working(q)

Inv ==
  /\ cache \in Caches /\ asked \in 0 .. MaxAsked
  /\ req \in [Requests -> Records]
  /\ \A t \in Requests : Right(req[t])

-----------------------------------------------------------------------------
(***************************************************************************)
(* Numbers and sets of numbers.                                            *)
(***************************************************************************)
LEMMA LeastOf ==
  ASSUME NEW T, T \subseteq Nat, T # {}
  PROVE  \E x \in T : \A y \in T : x <= y
<1>1. PICK x \in T : \A y \in T : ~(<<y, x>> \in OpToRel(<, Nat))
  BY WFMin, NatLessThanWellFounded
<1>2. \A y \in T : ~(y < x)
  BY <1>1 DEF OpToRel
<1> QED
  BY <1>2

\* What holds of 0, and of i + 1 if of i, holds up to n.
LEMMA Upward ==
  ASSUME NEW n \in Nat, NEW P, 0 \in P, \A i \in 0 .. n - 1 : i \in P => i + 1 \in P
  PROVE  0 .. n \subseteq P
<1> DEFINE bad == {i \in 0 .. n : i \notin P}
<1> SUFFICES ASSUME bad # {} PROVE FALSE
  OBVIOUS
<1>1. PICK i \in bad : \A j \in bad : i <= j
  <2>1. bad \subseteq Nat
    OBVIOUS
  <2> HIDE DEF bad
  <2> QED
    BY <2>1, LeastOf
<1>2. i \in 0 .. n /\ i # 0 /\ i \notin P
  BY <1>1
<1>3. i - 1 \in 0 .. n - 1 /\ i - 1 + 1 = i
  BY <1>2
<1>4. i - 1 \notin P
  BY <1>2, <1>3
<1>5. i - 1 \in bad
  BY <1>3, <1>4
<1> QED
  BY <1>1, <1>3, <1>5

LEMMA MinOf ==
  ASSUME NEW T, T \subseteq Nat, T # {}
  PROVE  Min(T) \in T /\ \A x \in T : Min(T) <= x
BY LeastOf DEF Min

LEMMA MaxOf ==
  ASSUME NEW n \in Nat, NEW T \in SUBSET (1 .. n), T # {}
  PROVE  Max(T) \in T /\ \A x \in T : x <= Max(T)
<1> DEFINE below == {y \in 0 .. n : n - y \in T}
<1>1. PICK x : x \in T
  OBVIOUS
<1>2. n - x \in below
  BY <1>1
<1>3. PICK y \in below : \A z \in below : y <= z
  <2>1. below \subseteq Nat
    OBVIOUS
  <2> HIDE DEF below
  <2> QED
    BY <1>2, <2>1, LeastOf
<1>4. \A z \in T : z <= n - y
  <2> SUFFICES ASSUME NEW z \in T PROVE z <= n - y
    OBVIOUS
  <2>1. n - z \in below
    OBVIOUS
  <2> QED
    BY <1>3, <2>1
<1>5. n - y \in T
  BY <1>3
<1> HIDE DEF below
<1>6. \E m \in T : \A z \in T : m >= z
  BY <1>4, <1>5
<1> QED
  BY <1>6 DEF Max

LEMMA MinOfTwo == \A a, b \in Nat : Min({a, b}) = IF a <= b THEN a ELSE b
BY DEF Min

LEMMA MaxOfInterval == \A k \in Nat \ {0} : Max(1 .. k) = k /\ (1 .. k) \ {k} = 1 .. k - 1
<1> SUFFICES ASSUME NEW k \in Nat \ {0}
             PROVE  Max(1 .. k) = k /\ (1 .. k) \ {k} = 1 .. k - 1
  OBVIOUS
<1>1. 1 .. k \in SUBSET (1 .. k) /\ k \in 1 .. k
  OBVIOUS
<1>2. Max(1 .. k) \in 1 .. k /\ k <= Max(1 .. k)
  BY <1>1, MaxOf
<1> QED
  BY <1>2

-----------------------------------------------------------------------------
(***************************************************************************)
(* Folds: the values a fold goes through exist if each step keeps them in  *)
(* D, and what every step keeps holds in the end.                          *)
(***************************************************************************)
\* h folds the steps G over 1 .. n, from base.
Folds(h, n, base, G) ==
  h = [T \in SUBSET (1 .. n) |-> IF T = {} THEN base ELSE G[Max(T)][h[T \ {Max(T)}]]]

LEMMA FoldExists ==
  ASSUME NEW n \in Nat, NEW D, NEW base \in D, NEW G \in [1 .. n -> [D -> D]]
  PROVE  \E h \in [SUBSET (1 .. n) -> D] : Folds(h, n, base, G)
<1> DEFINE Value(h, T) == IF T = {} THEN base ELSE G[Max(T)][h[T \ {Max(T)}]]
           Good(k, h) == h \in [SUBSET (1 .. n) -> D]
                         /\ \A T \in SUBSET (1 .. k) : h[T] = Value(h, T)
           P == {k \in 0 .. n : \E h : Good(k, h)}
<1>1. 0 \in P
  <2> DEFINE h == [T \in SUBSET (1 .. n) |-> base]
  <2>1. \A T \in SUBSET (1 .. 0) : T = {} /\ {} \in SUBSET (1 .. n)
    OBVIOUS
  <2>2. Good(0, h)
    BY <2>1
  <2> HIDE DEF Good, h
  <2> QED
    BY <2>2
<1>2. ASSUME NEW k \in 0 .. n - 1, k \in P PROVE k + 1 \in P
  <2>1. PICK h : Good(k, h)
    BY <1>2
  <2>2. \A T \in SUBSET (1 .. k + 1) :
          /\ T \in SUBSET (1 .. n)
          /\ T # {} => /\ Max(T) \in 1 .. n
                       /\ T \ {Max(T)} \in SUBSET (1 .. k)
                       /\ T \ {Max(T)} \in SUBSET (1 .. n)
    <3> SUFFICES ASSUME NEW T \in SUBSET (1 .. k + 1)
                 PROVE  /\ T \in SUBSET (1 .. n)
                        /\ T # {} => /\ Max(T) \in 1 .. n
                                     /\ T \ {Max(T)} \in SUBSET (1 .. k)
                                     /\ T \ {Max(T)} \in SUBSET (1 .. n)
      OBVIOUS
    <3>1. T \in SUBSET (1 .. n)
      OBVIOUS
    <3>2. CASE T # {}
      <4>1. Max(T) \in T /\ \A x \in T : x <= Max(T)
        BY <3>1, <3>2, MaxOf
      <4>2. Max(T) \in 1 .. k + 1
        BY <4>1
      <4>3. \A x \in T \ {Max(T)} : x \in 1 .. k + 1 /\ x <= Max(T) /\ x # Max(T)
        BY <4>1
      <4>4. \A x \in T \ {Max(T)} : x \in 1 .. k
        BY <4>2, <4>3
      <4>5. T \ {Max(T)} \in SUBSET (1 .. k)
        BY <4>4
      <4>7. Max(T) \in 1 .. n
        BY <4>2
      <4>6. T \ {Max(T)} \in SUBSET (1 .. n)
        BY <3>1
      <4> QED
        BY <3>1, <4>5, <4>6, <4>7
    <3> QED
      BY <3>1, <3>2
  <2> DEFINE g == [T \in SUBSET (1 .. n) |->
                     IF T \in SUBSET (1 .. k + 1) THEN Value(h, T) ELSE base]
  <2>3. \A T \in SUBSET (1 .. k + 1) : Value(h, T) \in D
    BY <2>1, <2>2
  <2>4. g \in [SUBSET (1 .. n) -> D]
    BY <2>3
  <2>5. \A T \in SUBSET (1 .. k) : g[T] = h[T]
    <3> SUFFICES ASSUME NEW T \in SUBSET (1 .. k) PROVE g[T] = h[T]
      OBVIOUS
    <3>1. T \in SUBSET (1 .. k + 1)
      OBVIOUS
    <3>2. g[T] = Value(h, T)
      BY <2>2, <3>1
    <3> QED
      BY <2>1, <3>2
  <2>6. \A T \in SUBSET (1 .. k + 1) : g[T] = Value(g, T)
    <3> SUFFICES ASSUME NEW T \in SUBSET (1 .. k + 1) PROVE g[T] = Value(g, T)
      OBVIOUS
    <3>1. g[T] = Value(h, T)
      BY <2>2
    <3>2. T # {} => g[T \ {Max(T)}] = h[T \ {Max(T)}]
      BY <2>2, <2>5
    <3> HIDE DEF g
    <3> QED
      BY <3>1, <3>2
  <2> HIDE DEF g, Value
  <2>7. Good(k + 1, g)
    BY <2>4, <2>6
  <2> HIDE DEF Good
  <2>8. k + 1 \in 0 .. n
    OBVIOUS
  <2> QED
    BY <2>7, <2>8
<1>3. n \in P
  <2> HIDE DEF P
  <2>1. \A i \in 0 .. n - 1 : i \in P => i + 1 \in P
    BY <1>2
  <2>2. 0 .. n \subseteq P
    BY <1>1, <2>1, Upward
  <2> QED
    BY <2>2
<1>4. PICK h : Good(n, h)
  BY <1>3
<1>5. Folds(h, n, base, G)
  BY <1>4 DEF Folds
<1> QED
  BY <1>4, <1>5

LEMMA FoldReaches ==
  ASSUME NEW n \in Nat, NEW h, NEW P, h[{}] \in P,
         \A k \in 1 .. n : h[1 .. k - 1] \in P => h[1 .. k] \in P
  PROVE  h[1 .. n] \in P
<1> DEFINE Q == {k \in 0 .. n : h[1 .. k] \in P}
<1>1. 0 \in Q
  <2>1. 1 .. 0 = {}
    OBVIOUS
  <2> QED
    BY <2>1
<1>2. ASSUME NEW k \in 0 .. n - 1, k \in Q PROVE k + 1 \in Q
  <2>1. k + 1 \in 1 .. n /\ k + 1 - 1 = k
    OBVIOUS
  <2> QED
    BY <1>2, <2>1
<1>3. n \in Q
  <2> HIDE DEF Q
  <2>1. \A i \in 0 .. n - 1 : i \in Q => i + 1 \in Q
    BY <1>2
  <2>2. 0 .. n \subseteq Q
    BY <1>1, <2>1, Upward
  <2> QED
    BY <2>2
<1> QED
  BY <1>3

-----------------------------------------------------------------------------
(***************************************************************************)
(* The cache.                                                              *)
(***************************************************************************)
LEMMA PositionOf ==
  ASSUME NEW c \in Caches, NEW image \in Keys(c)
  PROVE  /\ Position(c, image) \in 1 .. Len(c) /\ c[Position(c, image)].key = image
         /\ Embedding(c, image) = image
<1>1. \E i \in DOMAIN c : c[i].key = image
  BY DEF Keys
<1>2. Position(c, image) \in DOMAIN c /\ c[Position(c, image)].key = image
  BY <1>1 DEF Position
<1> QED
  BY <1>2 DEF Caches, Embedding

LEMMA InsertKeeps ==
  ASSUME NEW c \in Caches, NEW e \in Entries, e.emb = e.key
  PROVE  Inserted(c, e) \in Caches
<1> DEFINE d == Assigned(c, e)
<1>1. c \in Seq(Entries) /\ Len(c) \in Nat /\ Len(c) <= CacheSize /\ CacheSize \in Nat
  BY CacheBoundsAreValid DEF Caches, CacheBounds
<1>2. /\ \A i, j \in 1 .. Len(c) : c[i].key = c[j].key => i = j
      /\ \A i \in 1 .. Len(c) : c[i].emb = c[i].key
      /\ \A i \in 1 .. Len(c) : c[i] \in Entries
  BY DEF Caches
<1>3. /\ d \in Seq(Entries) /\ Len(d) \in {Len(c), Len(c) + 1}
      /\ \A i, j \in 1 .. Len(d) : d[i].key = d[j].key => i = j
      /\ \A i \in 1 .. Len(d) : d[i].emb = d[i].key
  <2>1. CASE e.key \in Keys(c)
    <3>1. d = [i \in 1 .. Len(c) |-> IF c[i].key = e.key THEN e ELSE c[i]]
      BY <1>1, <2>1 DEF Assigned
    <3> HIDE DEF d
    <3>2. d \in Seq(Entries) /\ Len(d) = Len(c)
      BY <1>1, <1>2, <3>1
    <3>3. \A i \in 1 .. Len(c) : d[i].key = c[i].key /\ d[i].emb = d[i].key
      BY <1>2, <3>1
    <3> QED
      BY <1>2, <3>2, <3>3
  <2>2. CASE e.key \notin Keys(c)
    <3>1. d = Append(c, e) /\ \A i \in 1 .. Len(c) : c[i].key # e.key
      BY <1>1, <2>2 DEF Assigned, Keys
    <3> HIDE DEF d
    <3>2. /\ d \in Seq(Entries) /\ Len(d) = Len(c) + 1 /\ d[Len(c) + 1] = e
          /\ \A i \in 1 .. Len(c) : d[i] = c[i]
      BY <1>1, <3>1, AppendProperties
    <3> QED
      BY <1>1, <1>2, <3>1, <3>2
  <2> QED
    BY <2>1, <2>2
<1>4. Inserted(c, e) = IF Len(d) > CacheSize THEN Tail(d) ELSE d
  BY DEF Inserted
<1> HIDE DEF d
<1>5. CASE Len(d) > CacheSize
  <2> DEFINE t == Tail(d)
  <2>1. Len(d) = CacheSize + 1 /\ d # << >>
    BY <1>1, <1>3, <1>5
  <2>2. /\ t \in Seq(Entries) /\ Len(t) = CacheSize
        /\ \A i \in 1 .. CacheSize : t[i] = d[i + 1] /\ i + 1 \in 1 .. Len(d)
    BY <1>1, <1>3, <2>1, HeadTailProperties
  <2>3. Inserted(c, e) = t
    BY <1>4, <1>5
  <2> HIDE DEF t
  <2>4. \A i, j \in 1 .. CacheSize : t[i].key = t[j].key => i = j
    <3> SUFFICES ASSUME NEW i \in 1 .. CacheSize, NEW j \in 1 .. CacheSize, t[i].key = t[j].key
                 PROVE  i = j
      OBVIOUS
    <3>1. d[i + 1].key = d[j + 1].key /\ i + 1 \in 1 .. Len(d) /\ j + 1 \in 1 .. Len(d)
      BY <2>2
    <3>2. i + 1 = j + 1
      BY <1>3, <3>1
    <3> QED
      BY <1>1, <3>2
  <2>5. \A i \in 1 .. CacheSize : t[i].emb = t[i].key
    BY <1>3, <2>2
  <2>6. t \in Caches
    BY <1>1, <2>2, <2>4, <2>5 DEF Caches
  <2> QED
    BY <2>3, <2>6
<1>6. CASE Len(d) <= CacheSize
  BY <1>1, <1>3, <1>4, <1>6 DEF Caches
<1> QED
  BY <1>1, <1>3, <1>5, <1>6

LEMMA InsertsKeep ==
  ASSUME NEW c \in Caches, NEW s \in Seq(Entries), \A i \in DOMAIN s : s[i].emb = s[i].key
  PROVE  FoldLeft(Inserted, c, s) \in Caches
<1> DEFINE n == Len(s)
           G == [i \in 1 .. n |-> [d \in Caches |-> Inserted(d, s[i])]]
           Goes(h) == h = [T \in SUBSET DOMAIN s |->
                             IF T = {} THEN c ELSE Inserted(h[T \ {Max(T)}], s[Max(T)])]
           it == CHOOSE h : Goes(h)
<1>1. n \in Nat /\ DOMAIN s = 1 .. n /\ \A i \in 1 .. n : s[i] \in Entries
  OBVIOUS
<1>2. G \in [1 .. n -> [Caches -> Caches]]
  BY <1>1, InsertKeeps
<1>3. PICK h \in [SUBSET (1 .. n) -> Caches] : Folds(h, n, c, G)
  <2> HIDE DEF n, G
  <2> QED
    BY <1>1, <1>2, FoldExists
<1>4. \A T \in SUBSET (1 .. n) : T # {} =>
        G[Max(T)][h[T \ {Max(T)}]] = Inserted(h[T \ {Max(T)}], s[Max(T)])
  BY <1>1, <1>3, MaxOf
<1> HIDE DEF G
<1>5. Goes(h)
  BY <1>1, <1>3, <1>4 DEF Folds
<1>6. Goes(it)
  BY <1>5
<1>7. FoldLeft(Inserted, c, s) = it[DOMAIN s]
  BY DEF FoldLeft, MapThenFoldSet
<1> HIDE DEF it
<1>8. it[{}] \in Caches
  BY <1>6
<1>9. ASSUME NEW k \in 1 .. n, it[1 .. k - 1] \in Caches PROVE it[1 .. k] \in Caches
  <2>1. 1 .. k \in SUBSET (1 .. n) /\ k \in Nat \ {0} /\ 1 .. k # {}
    BY <1>1
  <2>2. it[1 .. k] = Inserted(it[1 .. k - 1], s[k])
    BY <1>1, <1>6, <2>1, MaxOfInterval
  <2> QED
    BY <1>1, <1>9, <2>2, InsertKeeps
<1> QED
  BY <1>1, <1>7, <1>8, <1>9, FoldReaches

\* The entry of an image comes last, those behind it move up.
LEMMA MoveKeeps ==
  ASSUME NEW c \in Caches, NEW image \in Keys(c)
  PROVE  MovedToEnd(c, image) \in Caches /\ Keys(MovedToEnd(c, image)) = Keys(c)
<1> DEFINE p == Position(c, image)
           front == SubSeq(c, 1, p - 1)
           back == SubSeq(c, p + 1, Len(c))
           d == Append(front \o back, c[p])
           n == Len(c)
<1>1. c \in Seq(Entries) /\ n \in Nat /\ n <= CacheSize /\ p \in 1 .. n /\ c[p] \in Entries
  BY PositionOf DEF Caches
<1>2. /\ \A i, j \in 1 .. n : c[i].key = c[j].key => i = j
      /\ \A i \in 1 .. n : c[i].emb = c[i].key
      /\ \A i \in 1 .. n : c[i] \in Entries
  BY DEF Caches
<1>3. MovedToEnd(c, image) = d
  BY DEF MovedToEnd, RemoveAt
<1> HIDE DEF p
<1>4. /\ front \in Seq(Entries) /\ Len(front) = p - 1
      /\ \A i \in 1 .. p - 1 : front[i] = c[i]
  <2>1. \A i \in 1 .. p - 1 : c[i] \in Entries /\ 1 + i - 1 = i
    BY <1>1, <1>2
  <2>2. 1 \in Int /\ p - 1 \in Int /\ p - 1 - 1 + 1 = p - 1
    BY <1>1
  <2> QED
    BY <1>1, <2>1, <2>2, SubSeqProperties
<1>5. /\ back \in Seq(Entries) /\ Len(back) = n - p
      /\ \A i \in 1 .. n - p : back[i] = c[p + i]
  <2>1. \A i \in p + 1 .. n : c[i] \in Entries
    BY <1>1, <1>2
  <2>2. p + 1 \in Int /\ n \in Int /\ n - (p + 1) + 1 = n - p
        /\ \A i \in 1 .. n - p : p + 1 + i - 1 = p + i
    BY <1>1
  <2>3. p + 1 <= n \/ n - p = 0
    BY <1>1
  <2> HIDE DEF n
  <2>4. /\ SubSeq(c, p + 1, n) \in Seq(Entries)
        /\ Len(SubSeq(c, p + 1, n)) = IF p + 1 <= n THEN n - (p + 1) + 1 ELSE 0
        /\ \A i \in 1 .. n - (p + 1) + 1 : SubSeq(c, p + 1, n)[i] = c[p + 1 + i - 1]
    BY <2>1, <2>2, SubSeqProperties
  <2>5. back = SubSeq(c, p + 1, n)
    BY DEF n
  <2>6. Len(back) = n - p
    BY <1>1, <2>2, <2>3, <2>4, <2>5
  <2> HIDE DEF back
  <2> QED
    BY <2>2, <2>4, <2>5, <2>6
<1> HIDE DEF front, back
<1>6. /\ front \o back \in Seq(Entries) /\ Len(front \o back) = n - 1
      /\ \A i \in 1 .. n - 1 : (front \o back)[i] = IF i < p THEN c[i] ELSE c[i + 1]
  <2>1. p - 1 + (n - p) = n - 1 /\ \A i \in 1 .. n - 1 : i <= p - 1 <=> i < p
    BY <1>1
  <2>2. \A i \in 1 .. n - 1 : ~(i < p) => i - (p - 1) \in 1 .. n - p /\ p + (i - (p - 1)) = i + 1
    BY <1>1
  <2>3. \A i \in 1 .. n - 1 : i < p => i \in 1 .. p - 1
    BY <1>1
  <2> QED
    BY <1>1, <1>4, <1>5, <2>1, <2>2, <2>3, ConcatProperties
<1>7. /\ d \in Seq(Entries) /\ Len(d) = n /\ d[n] = c[p]
      /\ \A i \in 1 .. n - 1 : d[i] = IF i < p THEN c[i] ELSE c[i + 1]
  <2>1. n - 1 + 1 = n
    BY <1>1
  <2> DEFINE m == front \o back
  <2> HIDE DEF m, n
  <2>2. m \in Seq(Entries) /\ Len(m) = n - 1
    BY <1>6 DEF m
  <2>3. /\ Append(m, c[p]) \in Seq(Entries) /\ Len(Append(m, c[p])) = n
        /\ Append(m, c[p])[n] = c[p]
        /\ \A i \in 1 .. n - 1 : Append(m, c[p])[i] = m[i]
    BY <1>1, <2>1, <2>2, AppendProperties
  <2> QED
    BY <1>6, <2>3 DEF m
<1> DEFINE old(i) == IF i = n THEN p ELSE IF i < p THEN i ELSE i + 1
<1>8. \A i \in 1 .. n : d[i] = c[old(i)] /\ old(i) \in 1 .. n
  BY <1>1, <1>7
<1>9. \A i, j \in 1 .. n : old(i) = old(j) => i = j
  BY <1>1
<1>10. \A i \in 1 .. n : \E j \in 1 .. n : old(j) = i
  <2> SUFFICES ASSUME NEW i \in 1 .. n PROVE \E j \in 1 .. n : old(j) = i
    OBVIOUS
  <2>1. CASE i = p
    BY <1>1, <2>1
  <2>2. CASE i < p
    BY <1>1, <2>2
  <2>3. CASE i > p
    <3>1. i - 1 \in 1 .. n /\ old(i - 1) = i
      BY <1>1, <2>3
    <3> QED
      BY <3>1
  <2> QED
    BY <1>1, <2>1, <2>2, <2>3
<1> HIDE DEF d, old, n
<1>11. d \in Caches
  <2>1. DOMAIN d = 1 .. n
    BY <1>7
  <2>2. Len(d) <= CacheSize
    BY <1>1, <1>7
  <2>3. \A i, j \in 1 .. n : d[i].key = d[j].key => i = j
    BY <1>2, <1>8, <1>9
  <2>4. \A i \in 1 .. n : d[i].emb = d[i].key
    BY <1>2, <1>8
  <2> QED
    BY <1>7, <2>1, <2>2, <2>3, <2>4 DEF Caches
<1>12. Keys(d) = Keys(c)
  <2>1. DOMAIN d = 1 .. n /\ DOMAIN c = 1 .. n
    BY <1>1, <1>7 DEF n
  <2>2. \A i \in 1 .. n : d[i].key \in Keys(c)
    BY <1>8, <2>1 DEF Keys
  <2>3. \A i \in 1 .. n : c[i].key \in Keys(d)
    <3> SUFFICES ASSUME NEW i \in 1 .. n PROVE c[i].key \in Keys(d)
      OBVIOUS
    <3>1. PICK j \in 1 .. n : old(j) = i
      BY <1>10
    <3>2. d[j].key = c[i].key
      BY <1>8, <3>1
    <3> QED
      BY <2>1, <3>2 DEF Keys
  <2>4. Keys(d) = {d[i].key : i \in 1 .. n} /\ Keys(c) = {c[i].key : i \in 1 .. n}
    BY <2>1 DEF Keys
  <2> QED
    BY <2>2, <2>3, <2>4
<1> QED
  BY <1>3, <1>11, <1>12

LEMMA MovesKeep ==
  ASSUME NEW c \in Caches, NEW s \in Seq(Images), \A i \in DOMAIN s : s[i] \in Keys(c)
  PROVE  /\ FoldLeft(MovedToEnd, c, s) \in Caches
         /\ Keys(FoldLeft(MovedToEnd, c, s)) = Keys(c)
<1> DEFINE n == Len(s)
           D == {d \in Caches : Keys(d) = Keys(c)}
           G == [i \in 1 .. n |-> [d \in D |-> MovedToEnd(d, s[i])]]
           Goes(h) == h = [T \in SUBSET DOMAIN s |->
                             IF T = {} THEN c ELSE MovedToEnd(h[T \ {Max(T)}], s[Max(T)])]
           it == CHOOSE h : Goes(h)
<1>1. n \in Nat /\ DOMAIN s = 1 .. n /\ c \in D
  OBVIOUS
<1>2. \A d \in D : \A i \in 1 .. n : MovedToEnd(d, s[i]) \in D
  BY <1>1, MoveKeeps
<1>3. G \in [1 .. n -> [D -> D]]
  BY <1>2
<1>4. PICK h \in [SUBSET (1 .. n) -> D] : Folds(h, n, c, G)
  <2> HIDE DEF n, G, D
  <2> QED
    BY <1>1, <1>3, FoldExists
<1> HIDE DEF D
<1>5. \A T \in SUBSET (1 .. n) : T # {} =>
        G[Max(T)][h[T \ {Max(T)}]] = MovedToEnd(h[T \ {Max(T)}], s[Max(T)])
  BY <1>1, <1>4, MaxOf
<1> HIDE DEF G
<1>6. Goes(h)
  BY <1>1, <1>4, <1>5 DEF Folds
<1>7. Goes(it)
  BY <1>6
<1>8. FoldLeft(MovedToEnd, c, s) = it[DOMAIN s]
  BY DEF FoldLeft, MapThenFoldSet
<1> HIDE DEF it
<1>9. it[{}] \in D
  BY <1>1, <1>7
<1>10. ASSUME NEW k \in 1 .. n, it[1 .. k - 1] \in D PROVE it[1 .. k] \in D
  <2>1. 1 .. k \in SUBSET (1 .. n) /\ k \in Nat \ {0} /\ 1 .. k # {}
    BY <1>1
  <2>2. it[1 .. k] = MovedToEnd(it[1 .. k - 1], s[k])
    BY <1>1, <1>7, <2>1, MaxOfInterval
  <2> QED
    BY <1>2, <1>10, <2>2
<1>11. it[1 .. n] \in D
  BY <1>1, <1>9, <1>10, FoldReaches
<1> QED
  BY <1>1, <1>8, <1>11 DEF D

\* What is missing are positions of images.
LEMMA MissingPositions ==
  ASSUME NEW s \in Seq(Images)
  PROVE  Missing(s) \in Seq(DOMAIN s)
<1> DEFINE keys == Keys(cache)
           n == Len(s)
           pos == [i \in DOMAIN s |-> i]
           D == Seq(1 .. n)
           More(m, i) == IF s[i] \in keys THEN m ELSE Append(m, i)
           G == [i \in 1 .. n |-> [m \in D |-> More(m, i)]]
           Goes(h) == h = [T \in SUBSET DOMAIN pos |->
                             IF T = {} THEN << >> ELSE More(h[T \ {Max(T)}], pos[Max(T)])]
           it == CHOOSE h : Goes(h)
<1>1. n \in Nat /\ DOMAIN s = 1 .. n /\ DOMAIN pos = 1 .. n /\ \A i \in 1 .. n : pos[i] = i
  OBVIOUS
<1>2. Missing(s) = it[DOMAIN pos]
  BY DEF Missing, FoldLeft, MapThenFoldSet
<1> HIDE DEF keys, pos
<1>0. << >> \in D /\ \A m \in D : \A i \in 1 .. n : More(m, i) \in D
  <2> HIDE DEF n
  <2>1. \A m \in Seq(1 .. n) : \A i \in 1 .. n : Append(m, i) \in Seq(1 .. n)
    BY AppendProperties
  <2>2. << >> \in D
    BY EmptySeq
  <2>3. ASSUME NEW m \in D, NEW i \in 1 .. n PROVE More(m, i) \in D
    <3>1. Append(m, i) \in D
      BY <2>1
    <3> QED
      BY <3>1, Zenon
  <2> QED
    BY <2>2, <2>3, Zenon
<1> HIDE DEF More, D
<1>3. G \in [1 .. n -> [D -> D]]
  BY <1>0
<1>4. PICK h \in [SUBSET (1 .. n) -> D] : Folds(h, n, << >>, G)
  <2> HIDE DEF n, G
  <2> QED
    BY <1>0, <1>1, <1>3, FoldExists
<1>5. \A T \in SUBSET (1 .. n) : T # {} =>
        /\ pos[Max(T)] = Max(T)
        /\ G[Max(T)][h[T \ {Max(T)}]] = More(h[T \ {Max(T)}], Max(T))
  BY <1>1, <1>4, MaxOf
<1> HIDE DEF G
<1>6. Goes(h)
  BY <1>1, <1>4, <1>5 DEF Folds
<1>7. Goes(it)
  BY <1>6
<1> HIDE DEF it
<1>8. it[{}] \in D
  BY <1>0, <1>1, <1>7
<1>9. ASSUME NEW k \in 1 .. n, it[1 .. k - 1] \in D PROVE it[1 .. k] \in D
  <2>1. 1 .. k \in SUBSET (1 .. n) /\ k \in Nat \ {0} /\ 1 .. k # {}
    BY <1>1
  <2>2. it[1 .. k] = More(it[1 .. k - 1], k)
    BY <1>1, <1>7, <2>1, MaxOfInterval
  <2> QED
    BY <1>0, <1>9, <2>2
<1>10. it[1 .. n] \in D
  BY <1>1, <1>8, <1>9, FoldReaches
<1> QED
  BY <1>1, <1>2, <1>10 DEF D

\* Every image that is found is in the cache.
LEMMA FoundInCache ==
  ASSUME NEW c, NEW s \in Seq(Images)
  PROVE  /\ Found(c, s) \in Seq(Images)
         /\ \A i \in DOMAIN Found(c, s) : Found(c, s)[i] \in Keys(c)
<1> DEFINE gone == {i \in DOMAIN s : s[i] \notin Keys(c)}
<1>1. DOMAIN s = 1 .. Len(s) /\ Len(s) \in Nat /\ Found(c, s) = IF gone = {} THEN s ELSE SubSeq(s, 1, Min(gone) - 1)
  BY DEF Found
<1>2. CASE gone = {}
  BY <1>1, <1>2
<1>3. CASE gone # {}
  <2>1. gone \subseteq Nat
    BY <1>1
  <2>2. Min(gone) \in gone /\ \A x \in gone : Min(gone) <= x
    <3> HIDE DEF gone
    <3> QED
      BY <1>3, <2>1, MinOf
  <2> DEFINE m == Min(gone)
             t == SubSeq(s, 1, m - 1)
  <2>3. m \in 1 .. Len(s) /\ \A i \in 1 .. m - 1 : s[i] \in Keys(c) /\ s[i] \in Images
    <3>1. m \in 1 .. Len(s)
      BY <1>1, <2>2
    <3>2. \A i \in 1 .. m - 1 : i \in DOMAIN s /\ ~(m <= i)
      BY <1>1, <3>1
    <3>3. \A i \in 1 .. m - 1 : i \notin gone
      BY <2>2, <3>2
    <3> QED
      BY <3>1, <3>2, <3>3
  <2>4. Found(c, s) = t
    BY <1>1, <1>3
  <2> HIDE DEF gone, m
  <2>5. /\ t \in Seq(Images) /\ Len(t) = m - 1
        /\ \A i \in 1 .. m - 1 : t[i] = s[i]
    <3>1. 1 \in Int /\ m - 1 \in Int /\ m - 1 - 1 + 1 = m - 1
          /\ \A i \in 1 .. m - 1 : 1 + i - 1 = i
      BY <1>1, <2>3
    <3> QED
      BY <2>3, <3>1, SubSeqProperties
  <2> HIDE DEF t
  <2>6. DOMAIN t = 1 .. m - 1
    BY <2>5
  <2> QED
    BY <2>3, <2>4, <2>5, <2>6
<1> QED
  BY <1>2, <1>3

-----------------------------------------------------------------------------
(***************************************************************************)
(* A batch: what was split is put together again.                          *)
(***************************************************************************)
\* Where the chunks of n frames over m encoders end.
Cut(n, m, k) == (k - 1) * (n \div m) + Min({k - 1, n % m})

LEMMA Cuts ==
  ASSUME NEW n \in Nat, NEW m \in Nat \ {0}
  PROVE  /\ Cut(n, m, 1) = 0 /\ Cut(n, m, m + 1) = n
         /\ \A k \in 1 .. m + 1 : Cut(n, m, k) \in 0 .. n
         /\ \A k \in 1 .. m : Cut(n, m, k) <= Cut(n, m, k + 1)
<1> DEFINE size == n \div m
           rest == n % m
           cut(k) == Cut(n, m, k)
<1>1. size \in Nat /\ rest \in Nat /\ rest < m /\ n = m * size + rest
  OBVIOUS
<1> HIDE DEF size, rest
<1>2. \A j \in Nat : Min({j, rest}) \in Nat /\ Min({j, rest}) <= rest
                    /\ Min({j, rest}) <= Min({j + 1, rest})
  BY <1>1, MinOfTwo
<1>3. \A k \in Nat \ {0} : cut(k) = (k - 1) * size + Min({k - 1, rest})
  BY DEF Cut, size, rest
<1>4. \A i \in Nat : i * size \in Nat /\ (i + 1) * size = i * size + size
  BY <1>1
<1>5. \A i, j \in Nat : i <= j => i * size <= j * size
  BY <1>1
<1>6. Min({0, rest}) = 0 /\ Min({m, rest}) = rest /\ 0 * size = 0
  BY <1>1, MinOfTwo
<1>7. cut(1) = 0
  BY <1>3, <1>6
<1>8. cut(m + 1) = n
  BY <1>1, <1>3, <1>6
<1> HIDE DEF cut
<1>9. ASSUME NEW k \in 1 .. m + 1 PROVE cut(k) \in 0 .. n
  <2>1. k - 1 \in Nat /\ k - 1 <= m
    OBVIOUS
  <2>2. (k - 1) * size \in Nat /\ (k - 1) * size <= m * size /\ m * size \in Nat
    BY <1>4, <1>5, <2>1
  <2>3. Min({k - 1, rest}) \in Nat /\ Min({k - 1, rest}) <= rest
    BY <1>2, <2>1
  <2>4. cut(k) = (k - 1) * size + Min({k - 1, rest})
    BY <1>3
  <2> QED
    BY <1>1, <2>2, <2>3, <2>4
<1>10. ASSUME NEW k \in 1 .. m PROVE cut(k) <= cut(k + 1)
  <2>1. k - 1 \in Nat /\ k - 1 + 1 = k /\ k + 1 - 1 = k /\ k + 1 \in Nat \ {0} /\ k \in Nat \ {0}
    OBVIOUS
  <2>2. (k - 1) * size \in Nat /\ k * size = (k - 1) * size + size
    BY <1>4, <2>1
  <2>3. Min({k - 1, rest}) \in Nat /\ Min({k, rest}) \in Nat /\ Min({k - 1, rest}) <= Min({k, rest})
    BY <1>2, <2>1
  <2>4. cut(k) = (k - 1) * size + Min({k - 1, rest}) /\ cut(k + 1) = k * size + Min({k, rest})
    BY <1>3, <2>1
  <2> QED
    BY <1>1, <2>2, <2>3, <2>4
<1> QED
  BY <1>7, <1>8, <1>9, <1>10 DEF cut

LEMMA SplitJoins ==
  ASSUME NEW s \in Seq(Images), NEW m \in 1 .. Len(s)
  PROVE  /\ Split(s, m) \in Seq(Seq(Images)) /\ FlattenSeq(Split(s, m)) = s
         /\ Len(Split(s, m)) = m
<1> DEFINE n == Len(s)
           cut(k) == Cut(n, m, k)
           parts == Split(s, m)
           upto(k) == SubSeq(s, 1, cut(k + 1))
           Joins(f) == f = [i \in 1 .. Len(parts) |-> IF i = 1 THEN parts[i] ELSE f[i - 1] \o parts[i]]
           it == CHOOSE f : Joins(f)
<1>1. n \in Nat /\ m \in Nat \ {0} /\ \A i \in 1 .. n : s[i] \in Images
  OBVIOUS
<1>2. /\ cut(1) = 0 /\ cut(m + 1) = n
      /\ \A k \in 1 .. m + 1 : cut(k) \in 0 .. n
      /\ \A k \in 1 .. m : cut(k) <= cut(k + 1)
  <2> HIDE DEF n
  <2> QED
    BY <1>1, Cuts
<1>3. parts = [k \in 1 .. m |-> SubSeq(s, cut(k) + 1, cut(k + 1))]
  BY DEF Split, Cut
<1> HIDE DEF cut, n, parts
<1>4. \A k \in 1 .. m : k + 1 \in 1 .. m + 1 /\ SubSeq(s, cut(k) + 1, cut(k + 1)) \in Seq(Images)
  <2> SUFFICES ASSUME NEW k \in 1 .. m
               PROVE  k + 1 \in 1 .. m + 1 /\ SubSeq(s, cut(k) + 1, cut(k + 1)) \in Seq(Images)
    OBVIOUS
  <2>1. k \in 1 .. m + 1 /\ k + 1 \in 1 .. m + 1
    OBVIOUS
  <2>2. cut(k) + 1 \in Int /\ cut(k + 1) \in Int /\ \A i \in cut(k) + 1 .. cut(k + 1) : s[i] \in Images
    BY <1>1, <1>2, <2>1
  <2> QED
    BY <2>1, <2>2, SubSeqProperties
<1>0. \A k \in 1 .. m : parts[k] = SubSeq(s, cut(k) + 1, cut(k + 1))
  BY <1>3
<1>5. parts \in Seq(Seq(Images)) /\ Len(parts) = m
  <2> DEFINE S == Seq(Images)
  <2>1. parts = [k \in 1 .. m |-> parts[k]] /\ \A k \in 1 .. m : parts[k] \in S
    BY <1>3, <1>4, Zenon
  <2> HIDE DEF S
  <2>2. parts \in [1 .. m -> S] /\ m \in Nat
    BY <1>1, <2>1
  <2>3. parts \in Seq(S) /\ Len(parts) = m
    BY <2>2
  <2> QED
    BY <2>3 DEF S
<1>6. ASSUME NEW i \in 1 .. m
      PROVE  upto(i) = IF i = 1 THEN parts[i] ELSE upto(i - 1) \o parts[i]
  <2>1. parts[i] = SubSeq(s, cut(i) + 1, cut(i + 1)) /\ i \in 1 .. m + 1 /\ i + 1 \in 1 .. m + 1
    BY <1>0, <1>1
  <2>2. CASE i = 1
    BY <1>2, <2>1, <2>2
  <2>3. CASE i # 1
    <3>1. 1 \in 1 .. n + 1 /\ cut(i) \in 1 - 1 .. n /\ cut(i + 1) \in cut(i) .. n
      BY <1>1, <1>2, <2>1
    <3>2. SubSeq(s, 1, cut(i)) \o SubSeq(s, cut(i) + 1, cut(i + 1)) = SubSeq(s, 1, cut(i + 1))
      BY <3>1, ConcatAdjacentSubSeq DEF n
    <3>3. i - 1 + 1 = i
      OBVIOUS
    <3> QED
      BY <2>1, <2>3, <3>2, <3>3
  <2> QED
    BY <2>2, <2>3
<1>7. Joins([i \in 1 .. m |-> upto(i)])
  <2> DEFINE g == [i \in 1 .. m |-> upto(i)]
  <2>1. \A i \in 1 .. m : i # 1 => i - 1 \in 1 .. m
    BY <1>1
  <2> HIDE DEF upto
  <2>2. \A i \in 1 .. m : g[i] = IF i = 1 THEN parts[i] ELSE g[i - 1] \o parts[i]
    BY <1>6, <2>1
  <2>3. g = [i \in 1 .. m |-> g[i]]
    OBVIOUS
  <2> HIDE DEF g
  <2>4. Joins(g)
    BY <1>5, <2>2, <2>3
  <2> QED
    BY <2>4 DEF g
<1>8. Joins(it)
  BY <1>7
<1>9. FlattenSeq(parts) = it[Len(parts)]
  BY <1>1, <1>5 DEF FlattenSeq
<1> HIDE DEF it, upto
<1>10. \A i \in 1 .. m : it[i] = IF i = 1 THEN parts[i] ELSE it[i - 1] \o parts[i]
  BY <1>5, <1>8
<1> DEFINE P == {0} \cup {i \in 1 .. m : it[i] = upto(i)}
<1>11. ASSUME NEW k \in 0 .. m - 1, k \in P PROVE k + 1 \in P
  <2>1. k + 1 \in 1 .. m /\ k + 1 - 1 = k /\ (k + 1 = 1 <=> k = 0)
    BY <1>1
  <2>2. it[k + 1] = IF k + 1 = 1 THEN parts[k + 1] ELSE it[k] \o parts[k + 1]
    BY <1>10, <2>1
  <2>3. upto(k + 1) = IF k + 1 = 1 THEN parts[k + 1] ELSE upto(k) \o parts[k + 1]
    <3> DEFINE i == k + 1
    <3>1. i \in 1 .. m
      BY <2>1
    <3>2. upto(i) = IF i = 1 THEN parts[i] ELSE upto(i - 1) \o parts[i]
      BY <1>6, <3>1, Zenon
    <3> QED
      BY <2>1, <3>2
  <2>4. k # 0 => it[k] = upto(k)
    BY <1>11
  <2> QED
    BY <2>1, <2>2, <2>3, <2>4
<1>12. 0 .. m \subseteq P
  <2>1. 0 \in P /\ m \in Nat
    BY <1>1
  <2> HIDE DEF P
  <2> QED
    BY <1>11, <2>1, Upward
<1>13. it[m] = upto(m)
  BY <1>1, <1>12
<1>14. upto(m) = s
  <2>1. upto(m) = SubSeq(s, 1, n)
    BY <1>2 DEF upto
  <2> QED
    BY <2>1 DEF n
<1> QED
  BY <1>5, <1>9, <1>13, <1>14 DEF parts

-----------------------------------------------------------------------------
(***************************************************************************)
(* The encoders: one after the other, and each of them.                    *)
(***************************************************************************)
LEMMA RemainderIs ==
  ASSUME NEW n \in Nat \ {0}, NEW q \in Nat, NEW s \in 0 .. n - 1
  PROVE  (n * q + s) % n = s
<1> DEFINE a == n * q + s
           d == a \div n
           t == a % n
<1>1. n * q \in Nat /\ a \in Nat
  OBVIOUS
<1>2. d \in Nat /\ t \in 0 .. n - 1 /\ a = n * d + t
  BY <1>1
<1> HIDE DEF d, t
<1>3. n * (q - d) = t - s
  <2>1. n * (q - d) = n * q - n * d
    BY <1>2
  <2>2. n * q + s = n * d + t /\ n * d \in Nat
    BY <1>2
  <2> QED
    BY <1>1, <1>2, <2>1, <2>2
<1>4. \A z \in Int : z >= 1 => n * z >= n
  OBVIOUS
<1>5. \A z \in Int : z <= -1 => n * z <= -n
  OBVIOUS
<1>6. q - d \in Int /\ ~(q - d >= 1) /\ ~(q - d <= -1)
  BY <1>2, <1>3, <1>4, <1>5
<1>7. q = d
  BY <1>2, <1>6
<1>8. t = s
  BY <1>1, <1>2, <1>7
<1> QED
  BY <1>8 DEF t

\* From any encoder on, n encoders in turn are all n of them.
LEMMA TurnsReachAll ==
  ASSUME NEW n \in Nat \ {0}, NEW k \in Nat, NEW m \in 1 .. n
  PROVE  \E j \in 0 .. n - 1 : SeqMod(k + j, n) = m
<1> DEFINE q == k \div n
           r == k % n
<1>1. q \in Nat /\ r \in 0 .. n - 1 /\ k = n * q + r
  OBVIOUS
<1>2. /\ n * q \in Nat /\ n * (q + 1) = n * q + n
      /\ \A s \in 0 .. n - 1 : (n * q + s) % n = s /\ (n * q + n + s) % n = s
  <2>1. n * q \in Nat /\ n * (q + 1) = n * q + n
    BY <1>1
  <2> HIDE DEF q, r
  <2>2. \A s \in 0 .. n - 1 : (n * q + s) % n = s /\ (n * (q + 1) + s) % n = s
    BY <1>1, RemainderIs
  <2> QED
    BY <2>1, <2>2
<1> HIDE DEF q, r
<1> DEFINE goal == m % n
<1>3. goal \in 0 .. n - 1 /\ (m = n => goal = 0) /\ (m < n => goal = m)
  <2>1. CASE m = n
    <3>1. n * 1 + 0 = n
      OBVIOUS
    <3>2. (n * 1 + 0) % n = 0
      BY RemainderIs
    <3> QED
      BY <2>1, <3>1, <3>2
  <2>2. CASE m < n
    <3>1. n * 0 + m = m /\ m \in 0 .. n - 1
      BY <2>2
    <3>2. (n * 0 + m) % n = m
      BY <3>1, RemainderIs
    <3> QED
      BY <2>2, <3>1, <3>2
  <2> QED
    BY <2>1, <2>2
<1> HIDE DEF goal
<1>4. \E j \in 0 .. n - 1 : (k + j) % n = goal
  <2>1. CASE r <= goal
    <3>1. goal - r \in 0 .. n - 1 /\ k + (goal - r) = n * q + goal
      BY <1>1, <1>2, <1>3, <2>1
    <3> QED
      BY <1>2, <1>3, <3>1
  <2>2. CASE r > goal
    <3>1. n + goal - r \in 0 .. n - 1 /\ k + (n + goal - r) = n * q + n + goal
      BY <1>1, <1>2, <1>3, <2>2
    <3> QED
      BY <1>2, <1>3, <3>1
  <2> QED
    BY <1>1, <1>3, <2>1, <2>2
<1>5. PICK j \in 0 .. n - 1 : (k + j) % n = goal
  BY <1>4
<1>6. SeqMod(k + j, n) = m
  BY <1>3, <1>5 DEF SeqMod
<1> QED
  BY <1>6

LEMMA SeqModIn == \A n \in Nat \ {0} : \A k \in Nat : SeqMod(k, n) \in 1 .. n
BY DEF SeqMod

LEMMA ListingsHaveReliable ==
  ASSUME NEW e \in Listings
  PROVE  e \in Seq(Encoders) /\ Reliable \subseteq ToSet(e)
<1>1. PICK T \in SUBSET Encoders : Reliable \subseteq T /\ e \in SetToSeqs(T)
  BY DEF Listings
<1>2. IsFiniteSet(T) /\ Cardinality(T) \in Nat
  BY CacheBoundsAreValid, FS_Subset, FS_CardinalityType DEF CacheBounds
<1> DEFINE n == Cardinality(T)
<1>3. e \in [1 .. n -> T] /\ \A i, j \in 1 .. n : i # j => e[i] # e[j]
  BY <1>1 DEF SetToSeqs
<1>4. e \in Injection(1 .. n, T)
  <2>1. \A i, j \in 1 .. n : e[i] = e[j] => i = j
    BY <1>3
  <2> QED
    BY <1>3, <2>1 DEF Injection, IsInjective
<1>5. Cardinality(1 .. n) = n
  <2> HIDE DEF n
  <2>1. n \in Nat
    BY <1>2 DEF n
  <2> QED
    BY <2>1, FS_Interval
<1>6. e \in Surjection(1 .. n, T)
  BY <1>2, <1>4, <1>5, FS_Injection
<1>7. \A r \in T : \E i \in 1 .. n : e[i] = r
  BY <1>6 DEF Surjection
<1> HIDE DEF n
<1>8. n \in Nat
  BY <1>2 DEF n
<1>9. e \in Seq(Encoders) /\ DOMAIN e = 1 .. n
  BY <1>3, <1>8
<1> QED
  BY <1>1, <1>7, <1>9 DEF ToSet

-----------------------------------------------------------------------------
(***************************************************************************)
(* What a step makes of a request.                                         *)
(***************************************************************************)
Sane(q) ==
  /\ \A i \in DOMAIN q.missing : q.missing[i] \in DOMAIN q.images
  /\ q.batch => q.images # << >>

\* What is read from the cache at the end is what was asked for.
LEMMA SettleRight ==
  ASSUME NEW c \in Caches, NEW q \in Records, Sane(q), NEW t \in Requests, Settle(t, q, c)
  PROVE  cache' \in Caches /\ \E p \in Records : Right(p) /\ req' = [req EXCEPT ![t] = p]
<1> DEFINE found == Found(c, q.images)
           d == FoldLeft(MovedToEnd, c, found)
           a == [i \in DOMAIN q.images |-> Embedding(d, q.images[i])]
           p == [q EXCEPT !.pc = "answered", !.answer = a]
           e == [q EXCEPT !.pc = "key error"]
<1>1. cache' = d /\ req' = [req EXCEPT ![t] = IF found = q.images THEN p ELSE e]
  BY DEF Settle
<1>2. q.images \in Seq(Images)
  BY DEF Records
<1>3. found \in Seq(Images) /\ \A i \in DOMAIN found : found[i] \in Keys(c)
  BY <1>2, FoundInCache
<1> HIDE DEF found
<1>4. d \in Caches /\ Keys(d) = Keys(c)
  BY <1>3, MovesKeep
<1> HIDE DEF d
<1>5. CASE found = q.images
  <2>1. \A i \in DOMAIN q.images : Embedding(d, q.images[i]) = q.images[i]
    BY <1>3, <1>4, <1>5, PositionOf
  <2>2. a = q.images
    BY <1>2, <2>1
  <2> HIDE DEF a
  <2>3. p \in Records
    BY <1>2, <2>2 DEF Records, Outcomes
  <2>4. /\ p.pc = "answered" /\ p.answer = q.images /\ p.images = q.images
        /\ p.missing = q.missing /\ p.batch = q.batch
    BY <2>2 DEF Records
  <2> HIDE DEF p
  <2>5. Right(p)
    BY <2>4 DEF Right, Sane
  <2> QED
    BY <1>1, <1>4, <1>5, <2>3, <2>5
<1>6. CASE found # q.images
  <2>1. e \in Records
    BY DEF Records, Outcomes
  <2>2. /\ e.pc = "key error" /\ e.images = q.images
        /\ e.missing = q.missing /\ e.batch = q.batch
    BY DEF Records
  <2> HIDE DEF e
  <2>3. Right(e)
    BY <2>2 DEF Right, Sane
  <2> QED
    BY <1>1, <1>4, <1>6, <2>1, <2>3
<1> QED
  BY <1>5, <1>6

LEMMA StepKeeps ==
  ASSUME Inv, NEW t \in Requests, NEW p \in Records, Right(p),
         req' = [req EXCEPT ![t] = p], cache' \in Caches, asked' \in 0 .. MaxAsked
  PROVE  Inv'
<1>1. req' \in [Requests -> Records]
  BY DEF Inv
<1>2. ASSUME NEW s \in Requests PROVE Right(req'[s])
  <2>1. req'[s] = IF s = t THEN p ELSE req[s]
    BY DEF Inv
  <2> QED
    BY <2>1 DEF Inv
<1>3. \A s \in Requests : Right(req[s])'
  BY <1>2 DEF Right, Working, Trying, Inputs
<1> QED
  BY <1>1, <1>3 DEF Inv

LEMMA NewRequestType ==
  /\ NewRequest \in Records /\ Right(NewRequest)
<1>1. \A S : << >> \in Seq(S)
  BY EmptySeq
<1>2. NewRequest \in Records
  BY <1>1 DEF NewRequest, Records
<1>3. NewRequest.pc = "new" /\ NewRequest.batch = FALSE /\ DOMAIN NewRequest.missing = {}
  BY DEF NewRequest
<1> QED
  BY <1>2, <1>3 DEF Right

LEMMA AskStep ==
  ASSUME Inv, NEW t \in Requests, NEW images \in BoundedSeq(Images, MaxImages), Ask(t, images)
  PROVE  Inv'
<1> DEFINE missing == Missing(images)
           q == [NewRequest EXCEPT !.pc = "lookup", !.images = images, !.missing = missing]
<1>1. images \in Seq(Images)
  <2>1. MaxImages \in Nat
    BY CacheBoundsAreValid DEF CacheBounds
  <2>2. PICK n \in 0 .. MaxImages : images \in [1 .. n -> Images]
    BY DEF BoundedSeq, SeqOf
  <2> QED
    BY <2>1, <2>2
<1>2. missing \in Seq(DOMAIN images)
  BY <1>1, MissingPositions
<1>3. /\ asked < MaxAsked /\ asked' = asked + 1
      /\ IF missing = << >> THEN Settle(t, q, cache)
         ELSE req' = [req EXCEPT ![t] = q] /\ UNCHANGED cache
  BY DEF Ask
<1> HIDE DEF missing
<1>4. missing \in Seq(Nat) /\ \A i \in DOMAIN missing : missing[i] \in DOMAIN images
  BY <1>1, <1>2
<1>5. q \in Records
  BY <1>1, <1>4, NewRequestType DEF Records
<1>6. q.pc = "lookup" /\ q.images = images /\ q.missing = missing /\ q.batch = FALSE
  BY NewRequestType DEF Records, NewRequest
<1>7. asked' \in 0 .. MaxAsked
  BY <1>3, CacheBoundsAreValid DEF Inv, CacheBounds
<1> HIDE DEF q
<1>8. Sane(q) /\ Right(q)
  BY <1>4, <1>6 DEF Sane, Right
<1>9. CASE missing = << >>
  <2>1. cache \in Caches /\ Settle(t, q, cache)
    BY <1>3, <1>9 DEF Inv
  <2>2. cache' \in Caches
    BY <1>5, <1>8, <2>1, SettleRight
  <2>3. PICK p \in Records : Right(p) /\ req' = [req EXCEPT ![t] = p]
    BY <1>5, <1>8, <2>1, SettleRight
  <2> QED
    BY <1>7, <2>2, <2>3, StepKeeps
<1>10. CASE missing # << >>
  <2>1. cache' \in Caches /\ req' = [req EXCEPT ![t] = q]
    BY <1>3, <1>10 DEF Inv
  <2> QED
    BY <1>5, <1>7, <1>8, <2>1, StepKeeps
<1> QED
  BY <1>9, <1>10

LEMMA ObserveStep ==
  ASSUME Inv, NEW t \in Requests, NEW frames \in Batches, Observe(t, frames)
  PROVE  Inv'
<1> DEFINE q == [NewRequest EXCEPT !.pc = "lookup", !.batch = TRUE, !.images = frames]
<1>1. frames \in Seq(Images) /\ frames # << >>
  BY CacheBoundsAreValid DEF CacheBounds
<1>2. asked' \in 0 .. MaxAsked /\ cache' \in Caches /\ req' = [req EXCEPT ![t] = q]
  BY CacheBoundsAreValid DEF Observe, Inv, CacheBounds
<1>3. q \in Records
  BY <1>1, NewRequestType DEF Records
<1>4. q.pc = "lookup" /\ q.images = frames /\ q.missing = << >>
  BY NewRequestType DEF Records, NewRequest
<1> HIDE DEF q
<1>5. DOMAIN q.missing = {}
  BY <1>4
<1>6. Right(q)
  BY <1>1, <1>4, <1>5 DEF Right
<1> QED
  BY <1>2, <1>3, <1>6, StepKeeps

LEMMA FunctionIsSequence ==
  ASSUME NEW S, NEW n \in Nat, NEW f \in [1 .. n -> S]
  PROVE  f \in Seq(S) /\ Len(f) = n /\ DOMAIN f = 1 .. n
OBVIOUS

\* The inputs are what is missing, one by one, or the batch in chunks.
LEMMA InputsType ==
  ASSUME NEW q \in Records, Sane(q), NEW e \in Seq(Encoders), Len(e) > 0
  PROVE  /\ Inputs(q, e) \in Seq(Seq(Images))
         /\ q.batch => FlattenSeq(Inputs(q, e)) = q.images
         /\ ~q.batch => /\ DOMAIN Inputs(q, e) = DOMAIN q.missing
                        /\ \A k \in DOMAIN q.missing :
                             /\ q.missing[k] \in DOMAIN q.images
                             /\ q.images[q.missing[k]] \in Images
                             /\ Inputs(q, e)[k] = <<q.images[q.missing[k]]>>
<1>1. q.images \in Seq(Images) /\ q.missing \in Seq(Nat) /\ q.batch \in BOOLEAN
  BY DEF Records
<1>2. CASE q.batch
  <2> DEFINE m == Min({Len(e), Len(q.images)})
  <2>1. Len(e) \in Nat /\ Len(q.images) \in Nat /\ Len(q.images) > 0
    BY <1>1, <1>2 DEF Sane
  <2>2. m \in 1 .. Len(q.images)
    BY <2>1, MinOfTwo
  <2>3. Inputs(q, e) = Split(q.images, m)
    BY <1>2 DEF Inputs
  <2> HIDE DEF m
  <2> QED
    BY <1>1, <1>2, <2>2, <2>3, SplitJoins
<1>3. CASE ~q.batch
  <2> DEFINE in == [k \in DOMAIN q.missing |-> <<q.images[q.missing[k]]>>]
             n == Len(q.missing)
  <2>1. Inputs(q, e) = in /\ n \in Nat /\ DOMAIN q.missing = 1 .. n
    BY <1>1, <1>3 DEF Inputs
  <2>2. \A k \in 1 .. n : q.missing[k] \in DOMAIN q.images /\ q.images[q.missing[k]] \in Images
    <3>1. \A k \in 1 .. n : q.missing[k] \in DOMAIN q.images
      BY <2>1 DEF Sane
    <3>2. \A i \in DOMAIN q.images : q.images[i] \in Images
      BY <1>1
    <3> HIDE DEF n
    <3> QED
      BY <3>1, <3>2
  <2>3. \A x \in Images : <<x>> \in Seq(Images)
    OBVIOUS
  <2> DEFINE S == Seq(Images)
  <2>4. \A k \in 1 .. n : in[k] = <<q.images[q.missing[k]]>> /\ in[k] \in S
    BY <2>1, <2>2, <2>3
  <2>5. in \in [1 .. n -> S]
    BY <2>1, <2>4
  <2> HIDE DEF in, n, S
  <2>6. in \in Seq(S) /\ DOMAIN in = 1 .. n
    BY <2>1, <2>5
  <2> QED
    BY <1>3, <2>1, <2>2, <2>4, <2>6 DEF S
<1> QED
  BY <1>1, <1>2, <1>3

LEMMA LookupStep ==
  ASSUME Inv, NEW t \in Requests, NEW e \in Listings, Lookup(t, e)
  PROVE  Inv'
<1> DEFINE q == req[t]
           in == Inputs(q, e)
           zero == [k \in DOMAIN in |-> 0]
           none == [k \in DOMAIN in |-> << >>]
           lost == [q EXCEPT !.pc = "no route"]
           p == [q EXCEPT !.pc = "encoding", !.encoders = e, !.inputs = in,
                          !.tries = zero, !.results = none]
<1>1. /\ q \in Records /\ Right(q) /\ Sane(q)
      /\ cache' \in Caches /\ asked' \in 0 .. MaxAsked
      /\ req' = [req EXCEPT ![t] = IF e = << >> THEN lost ELSE p]
  BY DEF Inv, Lookup, Right, Sane
<1>2. e \in Seq(Encoders) /\ Reliable \subseteq ToSet(e)
  BY ListingsHaveReliable
<1> HIDE DEF q
<1>3. CASE e = << >>
  <2>1. Reliable = {}
    BY <1>2, <1>3 DEF ToSet
  <2>2. lost \in Records
    BY <1>1 DEF Records, Outcomes
  <2>3. /\ lost.pc = "no route" /\ lost.images = q.images
        /\ lost.missing = q.missing /\ lost.batch = q.batch
    BY <1>1 DEF Records
  <2> HIDE DEF lost
  <2>4. Right(lost)
    BY <1>1, <2>1, <2>3 DEF Right, Sane
  <2> QED
    BY <1>1, <1>3, <2>2, <2>4, StepKeeps
<1>4. CASE e # << >>
  <2>1. Len(e) > 0 /\ Len(e) \in Nat
    BY <1>2, <1>4
  <2>0. Inputs(q, e) \in Seq(Seq(Images))
    BY <1>1, <1>2, <2>1, InputsType
  <2>2. in \in Seq(Seq(Images)) /\ DOMAIN in = 1 .. Len(in) /\ Len(in) \in Nat
    <3> DEFINE S == Seq(Images)
    <3>1. in \in Seq(S)
      BY <2>0
    <3> HIDE DEF in, S
    <3>2. DOMAIN in = 1 .. Len(in) /\ Len(in) \in Nat
      BY <3>1
    <3> QED
      BY <3>1, <3>2 DEF S
  <2> HIDE DEF in
  <2>3. zero \in Seq(Nat) /\ none \in Seq(Seq(Images))
    <3>1. zero \in [1 .. Len(in) -> Nat] /\ Len(in) \in Nat
      BY <2>2
    <3>2. \A k \in 1 .. Len(in) : none[k] \in Seq(Images)
      BY <2>2
    <3>3. none \in [1 .. Len(in) -> Seq(Images)]
      BY <2>2, <3>2
    <3> HIDE DEF zero, none
    <3> QED
      BY <3>1, <3>3, FunctionIsSequence
  <2>4. p \in Records
    BY <1>1, <1>2, <2>2, <2>3 DEF Records
  <2>5. /\ p.pc = "encoding" /\ p.images = q.images /\ p.missing = q.missing
        /\ p.batch = q.batch /\ p.encoders = e /\ p.inputs = in
        /\ p.tries = zero /\ p.results = none
    BY <1>1 DEF Records
  <2> HIDE DEF p
  <2>6. Inputs(p, e) = in
    BY <2>5 DEF Inputs, in
  <2>7. \A k \in DOMAIN in : zero[k] = 0 /\ none[k] = << >>
    OBVIOUS
  <2>8. DOMAIN zero = DOMAIN in /\ DOMAIN none = DOMAIN in
    OBVIOUS
  <2> HIDE DEF zero, none
  <2>9. \A k \in DOMAIN in : Trying(p, k)
    BY <2>1, <2>5, <2>7 DEF Trying
  <2>10. Right(p)
    BY <1>1, <1>2, <2>1, <2>5, <2>6, <2>8, <2>9 DEF Right, Sane, Working
  <2> QED
    BY <1>1, <1>4, <2>4, <2>10, StepKeeps
<1> QED
  BY <1>3, <1>4

LEMMA LookupFailsStep == ASSUME Inv, NEW t \in Requests, LookupFails(t) PROVE Inv'
<1> DEFINE q == req[t]
           p == [q EXCEPT !.pc = "lookup failed"]
<1>1. /\ q \in Records /\ Right(q)
      /\ cache' \in Caches /\ asked' \in 0 .. MaxAsked /\ req' = [req EXCEPT ![t] = p]
  BY DEF Inv, LookupFails
<1> HIDE DEF q
<1>2. p \in Records
  BY <1>1 DEF Records, Outcomes
<1>3. /\ p.pc = "lookup failed" /\ p.images = q.images
      /\ p.missing = q.missing /\ p.batch = q.batch
  BY <1>1 DEF Records
<1> HIDE DEF p
<1>4. Right(p)
  BY <1>1, <1>3 DEF Right
<1> QED
  BY <1>1, <1>2, <1>4, StepKeeps

LEMMA EncoderFailsStep ==
  ASSUME Inv, NEW t \in Requests, NEW k \in DOMAIN req[t].inputs, EncoderFails(t, k)
  PROVE  Inv'
<1> DEFINE q == req[t]
           n == Len(q.encoders)
           left == [q.tries EXCEPT ![k] = @ + 1]
           pc == IF q.tries[k] + 1 < n THEN "encoding" ELSE "no route"
           p == [q EXCEPT !.tries = left, !.pc = pc]
<1>1. /\ q \in Records /\ Right(q) /\ Sane(q) /\ Working(q) /\ q.pc = "encoding"
      /\ k \in DOMAIN q.inputs
      /\ q.encoders[SeqMod(k + q.tries[k], n)] \notin Reliable
      /\ cache' \in Caches /\ asked' \in 0 .. MaxAsked
  BY DEF Inv, EncoderFails, Waiting, Encoder, Right, Sane
<1>2. req' = [req EXCEPT ![t] = p]
  BY DEF EncoderFails
<1> HIDE DEF q
<1>3. /\ q.encoders \in Seq(Encoders) /\ n \in Nat /\ n > 0
      /\ q.tries \in Seq(Nat) /\ q.inputs \in Seq(Seq(Images)) /\ k \in Nat
      /\ k \in DOMAIN q.tries /\ q.tries[k] \in Nat /\ q.tries[k] < n
  <2>1. /\ q.encoders \in Seq(Encoders) /\ q.tries \in Seq(Nat)
        /\ q.inputs \in Seq(Seq(Images))
    BY <1>1 DEF Records
  <2>2. k \in Nat /\ k \in DOMAIN q.tries /\ n > 0 /\ Trying(q, k)
    BY <1>1, <2>1 DEF Working
  <2> QED
    BY <2>1, <2>2 DEF Trying
<1> HIDE DEF n
<1>4. \A j \in 0 .. q.tries[k] : q.encoders[SeqMod(k + j, n)] \notin Reliable
  <2>1. \A j \in 0 .. q.tries[k] - 1 : q.encoders[SeqMod(k + j, n)] \notin Reliable
    BY <1>1 DEF Working, Trying, n
  <2>2. \A j \in 0 .. q.tries[k] : j = q.tries[k] \/ j \in 0 .. q.tries[k] - 1
    BY <1>3
  <2> QED
    BY <1>1, <2>1, <2>2
<1>5. /\ left \in Seq(Nat) /\ DOMAIN left = DOMAIN q.tries
      /\ left[k] = q.tries[k] + 1 /\ \A m \in DOMAIN left : m # k => left[m] = q.tries[m]
  BY <1>3
<1>6. pc \in {"encoding", "no route"}
  OBVIOUS
<1> HIDE DEF left, pc
<1>7. p \in Records
  BY <1>1, <1>5, <1>6 DEF Records, Outcomes
<1>8. /\ p.pc = pc /\ p.images = q.images /\ p.missing = q.missing
      /\ p.batch = q.batch /\ p.encoders = q.encoders /\ p.inputs = q.inputs
      /\ p.tries = left /\ p.results = q.results
  BY <1>1 DEF Records
<1> HIDE DEF p
<1>9. Sane(p)
  BY <1>1, <1>8 DEF Sane
<1>10. CASE q.tries[k] + 1 < n
  <2>1. Inputs(p, p.encoders) = p.inputs
    BY <1>1, <1>8 DEF Inputs, Working
  <2>2. ASSUME NEW m \in DOMAIN q.inputs PROVE Trying(p, m)
    <3>1. CASE m = k
      <4>1. left[k] - 1 = q.tries[k]
        BY <1>3, <1>5
      <4> QED
        BY <1>1, <1>4, <1>5, <1>8, <1>10, <3>1, <4>1 DEF Trying, Working, n
    <3>2. CASE m # k
      <4>1. left[m] = q.tries[m]
        BY <1>1, <1>5, <3>2 DEF Working
      <4> QED
        BY <1>1, <1>8, <4>1 DEF Trying, Working
    <3> QED
      BY <3>1, <3>2
  <2>3. Working(p)
    BY <1>1, <1>5, <1>8, <2>1, <2>2 DEF Working
  <2>4. pc = "encoding"
    BY <1>10 DEF pc
  <2>5. Right(p)
    BY <1>8, <1>9, <2>3, <2>4 DEF Right, Sane
  <2> QED
    BY <1>1, <1>2, <1>7, <2>5, StepKeeps
<1>11. CASE ~(q.tries[k] + 1 < n)
  <2>1. q.tries[k] = n - 1
    BY <1>3, <1>11
  <2>2. ASSUME NEW r \in Reliable PROVE FALSE
    <3>1. PICK m \in 1 .. n : q.encoders[m] = r
      BY <1>1, <1>3 DEF Working, ToSet, n
    <3>0. n \in Nat \ {0}
      BY <1>3
    <3>2. PICK j \in 0 .. n - 1 : SeqMod(k + j, n) = m
      BY <1>3, <3>0, TurnsReachAll
    <3> QED
      BY <1>4, <2>1, <3>1, <3>2
  <2>3. pc = "no route"
    BY <1>11 DEF pc
  <2>4. Right(p)
    BY <1>8, <1>9, <2>2, <2>3 DEF Right, Sane
  <2> QED
    BY <1>1, <1>2, <1>7, <2>4, StepKeeps
<1> QED
  BY <1>10, <1>11

\* The results are complete: one embedding for each missing image, as asked for.
LEMMA PairedOwn ==
  ASSUME NEW q \in Records, Sane(q), Working(q), ~q.batch, q.results = q.inputs
  PROVE  /\ Paired(q) \in Seq(Entries)
         /\ \A i \in DOMAIN Paired(q) : Paired(q)[i].emb = Paired(q)[i].key
<1> DEFINE n == Len(q.missing)
           pair == Paired(q)
<1>1. q.missing \in Seq(Nat) /\ n \in Nat /\ DOMAIN q.missing = 1 .. n
  BY DEF Records
<1>2. q.encoders \in Seq(Encoders) /\ Len(q.encoders) > 0 /\ q.inputs = Inputs(q, q.encoders)
  BY DEF Records, Working
<1>3. \A k \in 1 .. n : /\ q.images[q.missing[k]] \in Images
                        /\ q.results[k] = <<q.images[q.missing[k]]>>
  <2> HIDE DEF n
  <2> QED
    BY <1>1, <1>2, InputsType
<1>4. pair = [k \in 1 .. n |-> [key |-> q.images[q.missing[k]], emb |-> q.results[k][1]]]
  BY <1>1 DEF Paired
<1> HIDE DEF n, pair
<1>5. \A k \in 1 .. n : pair[k] \in Entries /\ pair[k].emb = pair[k].key
  <2> SUFFICES ASSUME NEW k \in 1 .. n PROVE pair[k] \in Entries /\ pair[k].emb = pair[k].key
    OBVIOUS
  <2> DEFINE x == q.images[q.missing[k]]
  <2>1. x \in Images /\ q.results[k] = <<x>>
    BY <1>3
  <2> HIDE DEF x
  <2>2. q.results[k][1] = x
    BY <2>1
  <2>3. pair[k] = [key |-> x, emb |-> x]
    BY <1>4, <2>2 DEF x
  <2> QED
    BY <2>1, <2>3 DEF Entries
<1>6. pair \in [1 .. n -> Entries]
  BY <1>4, <1>5
<1>7. pair \in Seq(Entries) /\ DOMAIN pair = 1 .. n
  BY <1>1, <1>6, FunctionIsSequence
<1> QED
  BY <1>5, <1>7 DEF pair

LEMMA EncodedStep ==
  ASSUME Inv, NEW t \in Requests, NEW k \in DOMAIN req[t].inputs, Encoded(t, k)
  PROVE  Inv'
<1> DEFINE r == req[t]
           res == [r.results EXCEPT ![k] = r.inputs[k]]
           q == [r EXCEPT !.results = res]
           full == FoldLeft(Inserted, cache, Paired(q))
           p == [q EXCEPT !.pc = "answered", !.answer = FlattenSeq(q.results)]
<1>1. /\ r \in Records /\ Right(r) /\ Sane(r) /\ Working(r) /\ r.pc = "encoding"
      /\ k \in DOMAIN r.inputs /\ cache \in Caches /\ asked' \in 0 .. MaxAsked
  BY DEF Inv, Encoded, Waiting, Right, Sane
<1>2. IF \E m \in DOMAIN q.inputs : Waiting(q, m)
      THEN req' = [req EXCEPT ![t] = q] /\ cache' = cache
      ELSE IF q.batch
      THEN req' = [req EXCEPT ![t] = p] /\ cache' = cache
      ELSE Settle(t, q, full)
  BY DEF Encoded
<1> HIDE DEF r
<1>3. /\ DOMAIN res = DOMAIN r.inputs /\ res \in Seq(Seq(Images))
      /\ \A m \in DOMAIN r.inputs : res[m] = IF m = k THEN r.inputs[k] ELSE r.results[m]
  <2> DEFINE S == Seq(Images)
  <2>1. r.results \in Seq(S) /\ r.inputs \in Seq(S) /\ DOMAIN r.results = DOMAIN r.inputs
    BY <1>1 DEF Records, Working
  <2> HIDE DEF S
  <2>2. r.inputs[k] \in S /\ k \in DOMAIN r.results
    BY <1>1, <2>1
  <2>3. res \in Seq(S)
    BY <2>1, <2>2
  <2>4. DOMAIN res = DOMAIN r.inputs
        /\ \A m \in DOMAIN r.inputs : res[m] = IF m = k THEN r.inputs[k] ELSE r.results[m]
    BY <2>1
  <2> QED
    BY <2>3, <2>4 DEF S
<1> HIDE DEF res
<1>4. q \in Records
  BY <1>1, <1>3 DEF Records
<1>5. /\ q.pc = "encoding" /\ q.images = r.images /\ q.missing = r.missing
      /\ q.batch = r.batch /\ q.encoders = r.encoders /\ q.inputs = r.inputs
      /\ q.tries = r.tries /\ q.results = res
  BY <1>1 DEF Records
<1> HIDE DEF q, full
<1>6. Sane(q) /\ Working(q) /\ Right(q)
  <2>1. Sane(q)
    BY <1>1, <1>5 DEF Sane
  <2>2. Inputs(q, q.encoders) = q.inputs
    BY <1>1, <1>5 DEF Inputs, Working
  <2>3. \A m \in DOMAIN q.inputs : Trying(q, m)
    BY <1>1, <1>3, <1>5 DEF Trying, Working
  <2>4. Working(q)
    BY <1>1, <1>3, <1>5, <2>2, <2>3 DEF Working
  <2> QED
    BY <1>5, <2>1, <2>4 DEF Right, Sane
<1>7. CASE \E m \in DOMAIN q.inputs : Waiting(q, m)
  BY <1>1, <1>2, <1>4, <1>6, <1>7, StepKeeps
<1>8. CASE ~(\E m \in DOMAIN q.inputs : Waiting(q, m))
  <2>1. q.results = q.inputs
    <3>1. \A m \in DOMAIN q.inputs : q.results[m] = q.inputs[m]
      BY <1>5, <1>6, <1>8 DEF Waiting, Working, Trying
    <3>2. DOMAIN q.results = DOMAIN q.inputs
      BY <1>6 DEF Working
    <3> DEFINE S == Seq(Images)
    <3>3. q.results \in Seq(S) /\ q.inputs \in Seq(S)
      BY <1>4 DEF Records
    <3> HIDE DEF S
    <3>4. Len(q.results) = Len(q.inputs) /\ DOMAIN q.inputs = 1 .. Len(q.inputs)
      BY <3>2, <3>3
    <3> QED
      BY <3>1, <3>3, <3>4, SeqEqual
  <2>2. q.encoders \in Seq(Encoders) /\ Len(q.encoders) > 0 /\ q.inputs = Inputs(q, q.encoders)
    BY <1>4, <1>6 DEF Records, Working
  <2>3. CASE q.batch
    <3>1. FlattenSeq(q.results) = q.images
      BY <1>4, <1>6, <2>1, <2>2, <2>3, InputsType
    <3>2. p \in Records
      BY <1>4, <3>1 DEF Records, Outcomes
    <3>3. /\ p.pc = "answered" /\ p.answer = q.images /\ p.images = q.images
          /\ p.missing = q.missing /\ p.batch = q.batch
      BY <1>4, <3>1 DEF Records
    <3>4. req' = [req EXCEPT ![t] = p] /\ cache' = cache
      BY <1>2, <1>8, <2>3
    <3> HIDE DEF p
    <3>5. Right(p)
      BY <1>6, <3>3 DEF Right, Sane
    <3> QED
      BY <1>1, <3>2, <3>4, <3>5, StepKeeps
  <2>4. CASE ~q.batch
    <3>1. /\ Paired(q) \in Seq(Entries)
          /\ \A i \in DOMAIN Paired(q) : Paired(q)[i].emb = Paired(q)[i].key
      BY <1>4, <1>6, <2>1, <2>4, PairedOwn
    <3>2. full \in Caches
      BY <1>1, <3>1, InsertsKeep DEF full
    <3>3. Settle(t, q, full)
      BY <1>2, <1>8, <2>4
    <3>4. cache' \in Caches
      BY <1>4, <1>6, <3>2, <3>3, SettleRight
    <3>5. PICK s \in Records : Right(s) /\ req' = [req EXCEPT ![t] = s]
      BY <1>4, <1>6, <3>2, <3>3, SettleRight
    <3> QED
      BY <1>1, <3>4, <3>5, StepKeeps
  <2> QED
    BY <2>3, <2>4
<1> QED
  BY <1>7, <1>8

-----------------------------------------------------------------------------
(***************************************************************************)
(* However concurrent requests, evictions, failing encoders and failing    *)
(* lookups interleave, the cache holds embeddings under their own images   *)
(* only, and every request knows what it has tried and what it got         *)
(* (dvlm/client.py, encode_images and encode_on_pool).                     *)
(***************************************************************************)
THEOREM CacheSound == Spec => []Inv
<1>1. Init => Inv
  <2> SUFFICES ASSUME Init PROVE Inv
    OBVIOUS
  <2>1. << >> \in Caches
    <3>1. << >> \in Seq(Entries) /\ Len(<< >>) = 0 /\ DOMAIN << >> = {}
      BY EmptySeq
    <3>2. 0 <= CacheSize
      BY CacheBoundsAreValid DEF CacheBounds
    <3> QED
      BY <3>1, <3>2 DEF Caches
  <2>2. 0 \in 0 .. MaxAsked
    BY CacheBoundsAreValid DEF CacheBounds
  <2>3. req \in [Requests -> Records] /\ \A t \in Requests : req[t] = NewRequest
    BY NewRequestType DEF Init
  <2> QED
    BY <2>1, <2>2, <2>3, NewRequestType DEF Init, Inv
<1>2. Inv /\ [Next]_vars => Inv'
  <2> SUFFICES ASSUME Inv, [Next]_vars PROVE Inv'
    OBVIOUS
  <2>1. CASE UNCHANGED vars
    <3>1. cache' = cache /\ req' = req /\ asked' = asked
      BY <2>1 DEF vars
    <3>2. ASSUME NEW t \in Requests PROVE Right(req[t])'
      <4>1. Right(req[t])
        BY DEF Inv
      <4> QED
        BY <3>1, <4>1 DEF Right, Working, Trying, Inputs
    <3> QED
      BY <3>1, <3>2 DEF Inv
  <2>2. CASE Next
    BY <2>2, AskStep, ObserveStep, LookupStep, LookupFailsStep, EncodedStep, EncoderFailsStep
       DEF Next
  <2> QED
    BY <2>1, <2>2
<1> QED
  BY <1>1, <1>2, PTL DEF Spec

(***************************************************************************)
(* Every variable keeps its type; the cache never outgrows its size and    *)
(* holds an image once (dvlm/client.py, encode_images).                    *)
(***************************************************************************)
THEOREM TypesCorrect == Spec => []TypeOK
<1>1. Inv => TypeOK
  <2> SUFFICES ASSUME Inv PROVE TypeOK
    OBVIOUS
  <2>1. /\ cache \in Seq(Entries) /\ Len(cache) <= CacheSize
        /\ \A i, j \in DOMAIN cache : cache[i].key = cache[j].key => i = j
    BY DEF Inv, Caches
  <2>2. Cardinality(Keys(cache)) = Len(cache)
    <3> DEFINE n == Len(cache)
               f == [i \in 1 .. n |-> cache[i].key]
    <3>1. n \in Nat /\ DOMAIN cache = 1 .. n
      BY <2>1
    <3>2. Keys(cache) = {cache[i].key : i \in 1 .. n}
      BY <3>1 DEF Keys
    <3> HIDE DEF n
    <3>3. f \in Surjection(1 .. n, Keys(cache))
      BY <3>2 DEF Surjection
    <3>4. f \in Injection(1 .. n, Keys(cache))
      BY <2>1, <3>1, <3>2 DEF Injection, IsInjective
    <3>5. IsFiniteSet(1 .. n) /\ Cardinality(1 .. n) = n
      BY <3>1, FS_Interval
    <3> QED
      BY <3>3, <3>4, <3>5, FS_Surjection DEF n
  <2>3. ASSUME NEW t \in Requests
        PROVE  LET q == req[t] IN
               /\ q.pc \in Outcomes \cup {"new", "lookup", "encoding"}
               /\ q.images \in Seq(Images) /\ q.answer \in Seq(Images)
               /\ q.encoders \in Seq(Encoders)
               /\ ToSet(q.missing) \subseteq DOMAIN q.images
               /\ q.pc = "encoding" =>
                    /\ DOMAIN q.results = DOMAIN q.inputs
                    /\ \A k \in DOMAIN q.tries : q.tries[k] < Len(q.encoders)
    <3> DEFINE q == req[t]
    <3>1. q \in Records /\ Right(q)
      BY DEF Inv
    <3> HIDE DEF q
    <3>2. /\ q.pc \in Outcomes \cup {"new", "lookup", "encoding"}
          /\ q.images \in Seq(Images) /\ q.answer \in Seq(Images)
          /\ q.encoders \in Seq(Encoders)
      BY <3>1 DEF Records
    <3>3. ToSet(q.missing) \subseteq DOMAIN q.images
      BY <3>1 DEF Right, ToSet
    <3>4. q.pc = "encoding" =>
            /\ DOMAIN q.results = DOMAIN q.inputs
            /\ \A k \in DOMAIN q.tries : q.tries[k] < Len(q.encoders)
      BY <3>1 DEF Right, Working, Trying
    <3> QED
      BY <3>2, <3>3, <3>4 DEF q
  <2> QED
    BY <2>1, <2>2, <2>3 DEF TypeOK, Inv, Entries
<1> QED
  BY <1>1, CacheSound, PTL

(***************************************************************************)
(* A request is answered with the embeddings of its own images, and a      *)
(* batch with those of all its frames, in their order (dvlm/client.py,     *)
(* encode_images; dvlm/dreamer/client.py, SwarmBackend.encode).            *)
(***************************************************************************)
THEOREM AnswersAlwaysOwn == Spec => []AnswersOwn
<1>1. Inv => AnswersOwn
  BY DEF Inv, Right, AnswersOwn
<1> QED
  BY <1>1, CacheSound, PTL

(***************************************************************************)
(* No request is given up as long as one encoder is well: its turn comes   *)
(* for every image (dvlm/client.py, encode_on_pool).                       *)
(***************************************************************************)
THEOREM AlwaysFailsOver == Spec => []FailsOver
<1>1. Inv => FailsOver
  BY DEF Inv, Right, FailsOver
<1> QED
  BY <1>1, CacheSound, PTL

=============================================================================
