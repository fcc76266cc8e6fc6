----------------------------- MODULE FindRoute -----------------------------
(***************************************************************************)
(* find_route of dvlm/routing.py, loop by loop: Dijkstra over the layer    *)
(* boundaries, then the walk back along prev.  The heap is a set: a        *)
(* boundary is pushed again only with a lower cost.  The order of the      *)
(* listed servers is arbitrary, and so is the order of the inner loop.     *)
(***************************************************************************)
EXTENDS Placement

CONSTANTS
  NumLayers,    \* layers of the decoder
  Servers,      \* the listed servers
  Offers,       \* what a server may announce: start, end, throughput; and its rtt
  Scale         \* the unit of time is 1/Scale of a decode step at throughput 1

OffersAssumption ==
  /\ NumLayers \in Nat \ {0} /\ IsFiniteSet(Servers)
  /\ \A o \in Offers :
       /\ {o.start, o.end, o.throughput, o.rtt} \subseteq Nat
       /\ o.start < o.end /\ o.end <= NumLayers
       /\ o.throughput > 0

ASSUME OffersAreValid == OffersAssumption /\ Scale \in Nat

VARIABLES
  offer,        \* offer[s] : what s announces
  candidates,   \* the span servers that are not excluded
  start, end,   \* the range asked for
  pc,           \* "search", "walk", "done" or "no route"
  best,         \* boundary -> cost of the cheapest way to it so far
  prev,         \* boundary -> the boundary before it and the server in between
  heap,         \* pairs <<cost, boundary>>
  cost, layer,  \* the pair popped last; in the walk, layer is where it stands
  todo,         \* candidates the inner loop still has to look at
  hops          \* the hops of the route, as a set

inputs == <<offer, candidates, start, end>>
vars == <<inputs, pc, best, prev, heap, cost, layer, todo, hops>>

SpanOf == [s \in Servers |-> [start |-> offer[s].start, end |-> offer[s].end]]

Peer(s) == [addr |-> s, inc |-> 1]

AtItsStart(s, l) == offer[s].start = l   \* mutant: no hop enters a span midway

Covers(s, l) == offer[s].start <= l /\ l < offer[s].end

SpanEnd(s) == offer[s].end       \* mutant: a hop runs past the range

ToRangeEnd(s) == end             \* mutant: a hop runs past its span

Reach(s) == Min({offer[s].end, end})

StepCost(s, from, to) ==
  offer[s].rtt
  + ((to - from) * Scale) \div ((offer[s].end - offer[s].start) * offer[s].throughput)

Put(f, k, v) == [x \in DOMAIN f \cup {k} |-> IF x = k THEN v ELSE f[x]]

-----------------------------------------------------------------------------
Init ==
  /\ offer \in [Servers -> Offers]
  /\ candidates \in SUBSET Servers
  /\ start \in 0 .. NumLayers - 1 /\ end \in start + 1 .. NumLayers
  /\ pc = "search"
  /\ best = [l \in {start} |-> 0]
  /\ prev = << >>
  /\ heap = {<<0, start>>}
  /\ cost = 0 /\ layer = start /\ todo = {} /\ hops = {}

FarthestFirst(p) == \A q \in heap : q[2] <= p[2]  \* mutant: greedy

Cheapest(p) == \A q \in heap : p[1] < q[1] \/ (p[1] = q[1] /\ p[2] <= q[2])

\* A pair that has been overtaken by a cheaper way is skipped.
Pop(p) ==
  /\ pc = "search" /\ todo = {}
  /\ p \in heap /\ Cheapest(p)
  /\ heap' = heap \ {p}
  /\ IF p[2] = end
     THEN pc' = "walk" /\ layer' = end /\ UNCHANGED <<cost, todo>>
     ELSE /\ cost' = p[1] /\ layer' = p[2]
          /\ todo' = IF p[1] > best[p[2]] THEN {} ELSE {s \in candidates : Covers(s, p[2])}
          /\ UNCHANGED pc
  /\ UNCHANGED <<inputs, best, prev, hops>>

FirstWay(to, c) == to \notin DOMAIN best  \* mutant: a way found is never improved

Better(to, c) == to \notin DOMAIN best \/ c < best[to]

Relax(s) ==
  LET to == Reach(s)  c == cost + StepCost(s, layer, to) IN
  /\ pc = "search" /\ s \in todo
  /\ todo' = todo \ {s}
  /\ IF Better(to, c)
     THEN /\ best' = Put(best, to, c)
          /\ prev' = Put(prev, to, [from |-> layer, server |-> s])
          /\ heap' = heap \cup {<<c, to>>}
     ELSE UNCHANGED <<best, prev, heap>>
  /\ UNCHANGED <<inputs, pc, cost, layer, hops>>

NoRoute ==
  /\ pc = "search" /\ todo = {} /\ heap = {}
  /\ pc' = "no route"
  /\ UNCHANGED <<inputs, best, prev, heap, cost, layer, todo, hops>>

WalkBack ==
  /\ pc = "walk"
  /\ IF layer = start
     THEN pc' = "done" /\ UNCHANGED <<layer, hops>>
     ELSE /\ hops' = hops \cup {[peer |-> Peer(prev[layer].server),
                                 start |-> prev[layer].from, end |-> layer]}
          /\ layer' = prev[layer].from
          /\ UNCHANGED pc
  /\ UNCHANGED <<inputs, best, prev, heap, cost, todo>>

Next ==
  \/ \E p \in heap : Pop(p)
  \/ \E s \in todo : Relax(s)
  \/ NoRoute \/ WalkBack

Spec == Init /\ [][Next]_vars

-----------------------------------------------------------------------------
Decoder == INSTANCE Routing WITH Addrs <- Servers

Listed == {Peer(s) : s \in candidates}

HopCost(h) == StepCost(h.peer.addr, h.start, h.end)

RouteCost(r) == MapThenSumSet(HopCost, r)

(***************************************************************************)
(* Types.  A boundary has a predecessor before it, and a cost in the heap  *)
(* is never lower than the best one known.                                 *)
(***************************************************************************)
Boundaries == start .. end

TypeOK ==
  /\ offer \in [Servers -> Offers] /\ candidates \subseteq Servers
  /\ start \in 0 .. NumLayers - 1 /\ end \in start + 1 .. NumLayers
  /\ pc \in {"search", "walk", "done", "no route"}
  /\ start \in DOMAIN best /\ DOMAIN best \subseteq Boundaries
  /\ best \in [DOMAIN best -> Nat]
  /\ DOMAIN prev = DOMAIN best \ {start}
  /\ prev \in [DOMAIN prev -> [from : Boundaries, server : candidates]]
  /\ \A l \in DOMAIN prev : prev[l].from < l
  /\ heap \subseteq Nat \X DOMAIN best
  /\ \A p \in heap : p[1] >= best[p[2]]
  /\ cost \in Nat /\ layer \in DOMAIN best
  /\ todo \subseteq candidates
  /\ hops \subseteq [peer : Listed, start : Boundaries, end : Boundaries]

(***************************************************************************)
(* What find_route returns is a chain over the range, of hops that run to  *)
(* the end of a span or of the range: a member of Routes, which is all the *)
(* session model knows of it.                                              *)
(***************************************************************************)
FindsRoute == pc = "done" => hops \in Decoder!Routes(Listed, start, end)

(***************************************************************************)
(* "Cheapest chain of hops covering layers [start, end)".                  *)
(***************************************************************************)
FindsCheapest ==
  pc = "done" =>
    \A r \in Decoder!Routes(Listed, start, end) : RouteCost(hops) <= RouteCost(r)

(***************************************************************************)
(* NoRouteError is raised only when no chain of candidates exists.         *)
(***************************************************************************)
GivesUpRightly == pc = "no route" => Decoder!Routes(Listed, start, end) = {}

(***************************************************************************)
(* What Dijkstra rests on: the cost of a boundary that has been popped     *)
(* with its best cost is final.                                            *)
(***************************************************************************)
Settled == {l \in DOMAIN best : <<best[l], l>> \notin heap}

PoppedIsFinal ==
  [][\A l \in Settled : best'[l] = best[l]]_vars

(***************************************************************************)
(* Placement, over the same swarms: a server that joins takes a layer that *)
(* nobody serves, if there is one (test_choose_span_fills_gaps).           *)
(***************************************************************************)
Offered ==
  {[id |-> s, start |-> offer[s].start, end |-> offer[s].end,
    throughput |-> offer[s].throughput] : s \in candidates}

JoinFillsGap ==
  pc \in {"done", "no route"} => \A len \in 1 .. NumLayers :
    LET joined == LayersOf(ChooseSpan(Offered, NumLayers, len), NumLayers)
        served == UNION {LayersOf(o, NumLayers) : o \in Offered}
    IN  0 .. NumLayers - 1 \subseteq served \/ ~(joined \subseteq served)

=============================================================================
