----------------------------- MODULE Placement -----------------------------
(***************************************************************************)
(* choose_span of dvlm/routing.py: which layers a server that joins takes. *)
(* A server is anything with start, end and throughput.                    *)
(***************************************************************************)
EXTENDS Naturals, FiniteSetsExt

\* The layers at which the server counts: from its start up to its end.
LayersOf(s, numLayers) == {l \in 0 .. numLayers - 1 : s.start <= l /\ l < s.end}

LastLayerMissed(servers, numLayers) ==   \* mutant: an end too early
  [l \in 0 .. numLayers - 1 |->
     MapThenSumSet(LAMBDA s : IF s.start <= l /\ l + 1 < s.end THEN s.throughput ELSE 0,
                   servers)]

\* The throughput that serves each layer.
Coverage(servers, numLayers) ==
  [l \in 0 .. numLayers - 1 |->
     MapThenSumSet(LAMBDA s : IF l \in LayersOf(s, numLayers) THEN s.throughput ELSE 0,
                   servers)]

Weakest(coverage, i, len) == Min({coverage[l] : l \in i .. i + len - 1})

Total(coverage, i, len) == MapThenSumSet(LAMBDA l : coverage[l], i .. i + len - 1)

LeastTotal(coverage, i, j, len) ==   \* mutant: the sum alone
  LET a == Total(coverage, i, len)  b == Total(coverage, j, len) IN
  a < b \/ (a = b /\ i <= j)

\* The order of the keys (min, sum, i).
Before(coverage, i, j, len) ==
  LET a == Weakest(coverage, i, len)  b == Weakest(coverage, j, len)
      c == Total(coverage, i, len)    d == Total(coverage, j, len) IN
  a < b \/ (a = b /\ (c < d \/ (c = d /\ i <= j)))

ChooseSpan(servers, numLayers, wanted) ==
  LET len == Min({wanted, numLayers})
      coverage == Coverage(servers, numLayers)
      starts == 0 .. numLayers - len
      best == CHOOSE i \in starts : \A j \in starts : Before(coverage, i, j, len)
  IN  [start |-> best, end |-> best + len]

=============================================================================
