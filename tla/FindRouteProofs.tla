--------------------------- MODULE FindRouteProofs ---------------------------
(***************************************************************************)
(* The search of find_route: what it has settled stays settled, it gives   *)
(* up only when no chain exists, and the walk back along prev ends with a  *)
(* chain over the range.                                                   *)
(***************************************************************************)
EXTENDS FindRoute, PlacementProofs

Possible == Decoder!HopsWithin(Listed, start, end)

-----------------------------------------------------------------------------
\* Every way found so far ends with the hop of prev.
PrevInv ==
  \A l \in DOMAIN prev :
    LET e == prev[l] IN
    e.from < l /\ e.from \in DOMAIN best /\ Covers(e.server, e.from) /\ l = Reach(e.server)

\* The search goes on from the boundaries in the order of their costs.
FrontierInv ==
  pc \in {"search", "no route"} =>
    /\ \A p \in heap : cost <= p[1]
    /\ \A l \in Settled : best[l] <= cost
    /\ end \notin Settled /\ layer < end
    /\ todo # {} => layer \in Settled /\ best[layer] = cost
    /\ \A s \in todo : Covers(s, layer)

\* Nothing that is to be done yet with the hop of s from l.
Considered(s, l) == ~(l = layer /\ s \in todo)

(***************************************************************************)
(* No hop from a settled boundary would improve on what has been found: it *)
(* is the triangle inequality that certifies the costs of Dijkstra.        *)
(***************************************************************************)
NoShortcut ==
  pc \in {"search", "no route"} =>
    \A l \in Settled : \A s \in candidates :
      Covers(s, l) /\ Considered(s, l) =>
        /\ Reach(s) \in DOMAIN best
        /\ best[Reach(s)] <= best[l] + StepCost(s, l, Reach(s))

\* The hops walked back so far are a chain from where the walk stands.
WalkInv ==
  /\ pc \in {"search", "no route"} => hops = {}
  /\ pc \in {"walk", "done"} => hops \subseteq Possible /\ Decoder!IsChain(hops, layer, end)
  /\ pc = "done" => layer = start
  /\ pc = "no route" => heap = {} /\ todo = {}

Inv == TypeOK /\ PrevInv /\ FrontierInv /\ NoShortcut /\ WalkInv

-----------------------------------------------------------------------------
(***************************************************************************)
(* What the inputs are, and what one relaxation computes.                  *)
(***************************************************************************)
LEMMA OfferType ==
  ASSUME TypeOK, NEW s \in Servers
  PROVE  /\ offer[s].start \in Nat /\ offer[s].end \in Nat
         /\ offer[s].throughput \in Nat /\ offer[s].rtt \in Nat
         /\ offer[s].start < offer[s].end /\ offer[s].end <= NumLayers
         /\ offer[s].throughput > 0
<1>1. offer[s] \in Offers
  BY DEF TypeOK
<1> QED
  BY <1>1, OffersAreValid DEF OffersAssumption

LEMMA RangeType ==
  ASSUME TypeOK
  PROVE  /\ NumLayers \in Nat /\ start \in Nat /\ end \in Nat
         /\ start < end /\ end <= NumLayers
<1>1. NumLayers \in Nat
  BY OffersAreValid DEF OffersAssumption
<1>2. start \in 0 .. NumLayers - 1 /\ end \in start + 1 .. NumLayers
  BY DEF TypeOK
<1> QED
  BY <1>1, <1>2

LEMMA MinOfTwo ==
  ASSUME NEW a \in Nat, NEW b \in Nat
  PROVE  Min({a, b}) = IF a < b THEN a ELSE b
<1>1. \E m \in {a, b} : \A n \in {a, b} : m <= n
  BY SMT
<1>2. Min({a, b}) \in {a, b} /\ \A n \in {a, b} : Min({a, b}) <= n
  BY <1>1 DEF Min
<1> QED
  BY <1>2

\* A hop ends with its span or with the range.
LEMMA ReachIs ==
  ASSUME TypeOK, NEW s \in Servers
  PROVE  /\ Reach(s) = IF offer[s].end < end THEN offer[s].end ELSE end
         /\ Reach(s) \in Nat /\ Reach(s) <= end
         /\ \A l \in Nat : Covers(s, l) /\ l < end => l < Reach(s)
<1>1. Reach(s) = IF offer[s].end < end THEN offer[s].end ELSE end
  BY OfferType, RangeType, MinOfTwo DEF Reach
<1> QED
  BY <1>1, OfferType, RangeType DEF Covers

LEMMA Quotient ==
  ASSUME NEW a \in Nat, NEW b \in Nat, b > 0 PROVE a \div b \in Nat
  BY SMT

LEMMA StepCostType ==
  ASSUME TypeOK, NEW s \in Servers, NEW from \in Nat, NEW to \in Nat, from <= to
  PROVE  StepCost(s, from, to) \in Nat
<1>1. /\ offer[s].start \in Nat /\ offer[s].end \in Nat /\ offer[s].rtt \in Nat
      /\ offer[s].throughput \in Nat /\ offer[s].throughput > 0
      /\ offer[s].start < offer[s].end
  BY OfferType
<1>2. (to - from) * Scale \in Nat
  BY OffersAreValid
<1>3. ASSUME NEW a \in Nat, NEW b \in Nat, a > 0, b > 0 PROVE a * b \in Nat /\ a * b > 0
  BY <1>3
<1>4. /\ (offer[s].end - offer[s].start) * offer[s].throughput \in Nat
      /\ (offer[s].end - offer[s].start) * offer[s].throughput > 0
  BY <1>1, <1>3
<1> QED
  BY <1>1, <1>2, <1>4, Quotient DEF StepCost

-----------------------------------------------------------------------------
(***************************************************************************)
(* Pop settles the cheapest pair, or skips one that has been overtaken.    *)
(***************************************************************************)
\* The pairs and boundaries of the search.
LEMMA SearchTypes ==
  ASSUME TypeOK
  PROVE  /\ cost \in Nat /\ layer \in Nat
         /\ \A l \in DOMAIN best : best[l] \in Nat /\ l \in Nat /\ l <= end
         /\ \A p \in heap : /\ p[1] \in Nat /\ p[2] \in DOMAIN best /\ p = <<p[1], p[2]>>
                           /\ best[p[2]] <= p[1]
<1>1. DOMAIN best \subseteq Nat /\ \A l \in DOMAIN best : l <= end
  <2>1. DOMAIN best \subseteq start .. end
    BY DEF TypeOK, Boundaries
  <2>2. start \in Nat /\ end \in Nat
    BY RangeType
  <2> QED
    BY <2>1, <2>2
<1>2. best \in [DOMAIN best -> Nat] /\ layer \in DOMAIN best /\ cost \in Nat
  BY DEF TypeOK
<1>3. \A p \in heap : p[1] \in Nat /\ p[2] \in DOMAIN best /\ p = <<p[1], p[2]>>
  <2>1. heap \subseteq Nat \X DOMAIN best
    BY DEF TypeOK
  <2> QED
    BY <2>1
<1>4. \A p \in heap : best[p[2]] <= p[1]
  BY <1>2, <1>3 DEF TypeOK
<1> QED
  BY <1>1, <1>2, <1>3, <1>4

LEMMA PopStep == ASSUME Inv, NEW p \in heap, Pop(p) PROVE Inv'
<1>0. TypeOK /\ PrevInv /\ FrontierInv /\ NoShortcut /\ WalkInv /\ pc = "search"
  BY DEF Inv, Pop
<1>1. /\ UNCHANGED <<offer, candidates, start, end, best, prev, hops>>
      /\ heap' = heap \ {p} /\ todo = {}
      /\ \A q \in heap : p[1] <= q[1]
  <2>1. \A q \in heap : p[1] < q[1] \/ (p[1] = q[1] /\ p[2] <= q[2])
    BY DEF Pop, Cheapest
  <2> QED
    BY <1>0, <2>1, SearchTypes DEF Pop, inputs
<1>2. \/ p[2] = end /\ pc' = "walk" /\ layer' = end /\ UNCHANGED <<cost, todo>>
      \/ /\ p[2] # end /\ cost' = p[1] /\ layer' = p[2] /\ pc' = "search"
         /\ todo' = IF p[1] > best[p[2]] THEN {} ELSE {s \in candidates : Covers(s, p[2])}
  BY <1>0 DEF Pop
<1>3. p[1] \in Nat /\ p[2] \in DOMAIN best /\ p = <<p[1], p[2]>> /\ best[p[2]] <= p[1]
  BY <1>0, SearchTypes
<1>4. /\ p[2] \in Nat /\ p[2] <= end /\ end \in Nat /\ cost \in Nat /\ best[p[2]] \in Nat
      /\ cost <= p[1]
  BY <1>0, <1>3, SearchTypes, RangeType DEF FrontierInv
<1>5. /\ Boundaries' = Boundaries /\ Listed' = Listed /\ Possible' = Possible
      /\ \A s, l : Covers(s, l)' = Covers(s, l)
      /\ \A s : Reach(s)' = Reach(s)
      /\ \A s, l, m : StepCost(s, l, m)' = StepCost(s, l, m)
  BY <1>1
  DEF Boundaries, Listed, Possible, Covers, Reach, StepCost, Decoder!HopsWithin, SpanOf,
      Decoder!Serves, Decoder!Capped, Decoder!Boundaries
<1>6. Settled' = Settled \cup {l \in {p[2]} : best[l] = p[1]}
  <2>1. \A l \in DOMAIN best : <<best[l], l>> = p <=> l = p[2] /\ best[l] = p[1]
    BY <1>3
  <2> QED
    BY <1>1, <1>3, <2>1 DEF Settled
<1>7. TypeOK'
  <2>1. cost' \in Nat /\ layer' \in DOMAIN best' /\ todo' \subseteq candidates'
        /\ pc' \in {"search", "walk", "done", "no route"}
    <3>1. CASE p[2] = end
      BY <1>0, <1>1, <1>2, <1>3, <3>1 DEF TypeOK
    <3>2. CASE p[2] # end
      BY <1>1, <1>2, <1>3, <3>2
    <3> QED
      BY <3>1, <3>2
  <2>2. heap' \subseteq heap
    BY <1>1
  <2> QED
    BY <1>0, <1>1, <1>5, <2>1, <2>2 DEF TypeOK
<1>8. PrevInv'
  BY <1>0, <1>1, <1>5 DEF PrevInv
<1>9. FrontierInv'
  <2> SUFFICES ASSUME pc' = "search" PROVE FrontierInv'
    BY <1>2 DEF FrontierInv
  <2>1. /\ p[2] # end /\ cost' = p[1] /\ layer' = p[2]
        /\ todo' = IF p[1] > best[p[2]] THEN {} ELSE {s \in candidates : Covers(s, p[2])}
    BY <1>2
  <2>2. \A q \in heap' : cost' <= q[1]
    BY <1>1, <2>1
  <2>3. \A l \in Settled' : best'[l] <= cost'
    <3>1. ASSUME NEW l \in Settled PROVE best[l] <= p[1]
      <4>1. best[l] \in Nat /\ best[l] <= cost
        BY <1>0, SearchTypes DEF FrontierInv, Settled
      <4> QED
        BY <1>3, <1>4, <4>1
    <3> QED
      BY <1>1, <1>3, <1>6, <2>1, <3>1
  <2>4. end' \notin Settled' /\ layer' < end'
    BY <1>0, <1>1, <1>4, <1>6, <2>1 DEF FrontierInv
  <2>5. todo' # {} => layer' \in Settled' /\ best'[layer'] = cost'
    BY <1>1, <1>3, <1>4, <1>6, <2>1
  <2>6. \A s \in todo' : Covers(s, layer)'
    BY <1>1, <2>1 DEF Covers
  <2> QED
    BY <2>2, <2>3, <2>4, <2>5, <2>6 DEF FrontierInv
<1>10. NoShortcut'
  <2> SUFFICES ASSUME pc' = "search", NEW l \in Settled', NEW s \in candidates,
                      Covers(s, l), Considered(s, l)'
               PROVE  /\ Reach(s) \in DOMAIN best
                      /\ best[Reach(s)] <= best[l] + StepCost(s, l, Reach(s))
    BY <1>1, <1>2, <1>5 DEF NoShortcut
  <2>1. /\ layer' = p[2]
        /\ todo' = IF p[1] > best[p[2]] THEN {} ELSE {t \in candidates : Covers(t, p[2])}
    BY <1>2
  <2>2. CASE l \in Settled
    BY <1>0, <1>1, <2>2 DEF NoShortcut, Considered
  <2>3. CASE l = p[2] /\ best[l] = p[1]
    <3>1. s \in todo'
      BY <1>3, <1>4, <2>1, <2>3
    <3> QED
      BY <2>1, <2>3, <3>1 DEF Considered
  <2> QED
    BY <1>6, <2>2, <2>3
<1>11. WalkInv'
  <2>1. hops = {}
    BY <1>0 DEF WalkInv
  <2>2. Decoder!IsChain({}, end, end)
    BY <1>4 DEF Decoder!IsChain
  <2> QED
    BY <1>1, <1>2, <2>1, <2>2 DEF WalkInv
<1> QED
  BY <1>7, <1>8, <1>9, <1>10, <1>11 DEF Inv

-----------------------------------------------------------------------------
(***************************************************************************)
(* Relax never touches a settled boundary: the new cost is no lower than   *)
(* that of the boundary it comes from, which was popped last.              *)
(***************************************************************************)
LEMMA RelaxTypes ==
  ASSUME Inv, NEW s \in todo, Relax(s)
  PROVE  /\ s \in candidates /\ s \in Servers /\ Covers(s, layer)
         /\ layer \in Settled /\ best[layer] = cost
         /\ layer \in Nat /\ layer \in start .. end
         /\ Reach(s) \in Nat /\ layer < Reach(s) /\ Reach(s) \in start .. end /\ Reach(s) # start
         /\ StepCost(s, layer, Reach(s)) \in Nat
<1>0. TypeOK /\ FrontierInv /\ pc = "search"
  BY DEF Inv, Relax
<1>1. s \in candidates /\ s \in Servers
  BY <1>0 DEF TypeOK
<1>2. layer \in Settled /\ best[layer] = cost /\ layer < end /\ Covers(s, layer)
  BY <1>0 DEF FrontierInv
<1>3. layer \in start .. end
  BY <1>0 DEF TypeOK, Boundaries
<1>4. start \in Nat /\ end \in Nat /\ layer \in Nat
  BY <1>0, <1>3, RangeType, SearchTypes
<1>5. Reach(s) \in Nat /\ Reach(s) <= end /\ layer < Reach(s)
  BY <1>0, <1>1, <1>2, <1>4, ReachIs
<1>6. StepCost(s, layer, Reach(s)) \in Nat
  BY <1>0, <1>1, <1>4, <1>5, StepCostType
<1> QED
  BY <1>1, <1>2, <1>3, <1>4, <1>5, <1>6

LEMMA RelaxStep == ASSUME Inv, NEW s \in todo, Relax(s) PROVE Inv'
<1> DEFINE to == Reach(s)
           c == cost + StepCost(s, layer, to)
<1>0. TypeOK /\ PrevInv /\ FrontierInv /\ NoShortcut /\ WalkInv /\ pc = "search"
  BY DEF Inv, Relax
<1>1. /\ s \in candidates /\ s \in Servers /\ Covers(s, layer)
      /\ layer \in Settled /\ best[layer] = cost /\ layer \in Nat /\ layer \in start .. end
      /\ to \in Nat /\ layer < to /\ to \in start .. end /\ to # start
      /\ StepCost(s, layer, to) \in Nat
  BY RelaxTypes
<1>2. cost \in Nat /\ c \in Nat /\ cost <= c
  BY <1>0, <1>1, SearchTypes
<1>3. /\ UNCHANGED <<offer, candidates, start, end, pc, cost, layer, hops>>
      /\ todo' = todo \ {s}
  BY DEF Relax, inputs
<1>4. \/ /\ Better(to, c)
         /\ best' = Put(best, to, c)
         /\ prev' = Put(prev, to, [from |-> layer, server |-> s])
         /\ heap' = heap \cup {<<c, to>>}
      \/ ~Better(to, c) /\ UNCHANGED <<best, prev, heap>>
  BY DEF Relax
<1>5. /\ Boundaries' = Boundaries /\ Listed' = Listed /\ Possible' = Possible
      /\ \A t, l : Covers(t, l)' = Covers(t, l)
      /\ \A t : Reach(t)' = Reach(t)
      /\ \A t, l, m : StepCost(t, l, m)' = StepCost(t, l, m)
  BY <1>3
  DEF Boundaries, Listed, Possible, Covers, Reach, StepCost, Decoder!HopsWithin, SpanOf,
      Decoder!Serves, Decoder!Capped, Decoder!Boundaries
<1>6. Better(to, c) => to \notin Settled
  <2>1. to \in Settled => to \in DOMAIN best /\ best[to] <= cost /\ best[to] \in Nat
    BY <1>0, SearchTypes DEF FrontierInv, Settled
  <2> QED
    BY <1>2, <2>1 DEF Better
<1> HIDE DEF to, c
<1>7. /\ DOMAIN best' \subseteq DOMAIN best \cup {to} /\ DOMAIN best \subseteq DOMAIN best'
      /\ to \in DOMAIN best' /\ best'[to] \in Nat /\ best'[to] <= c
      /\ \A l \in DOMAIN best : best'[l] \in Nat /\ best'[l] <= best[l]
      /\ \A l \in DOMAIN best : l # to => best'[l] = best[l]
      /\ best' = [l \in DOMAIN best' |-> best'[l]]
  <2>0. \A l \in DOMAIN best : best[l] \in Nat
    BY <1>0, SearchTypes
  <2>00. best = [l \in DOMAIN best |-> best[l]]
    BY <1>0 DEF TypeOK
  <2>1. CASE best' = Put(best, to, c) /\ Better(to, c)
    BY <1>2, <2>0, <2>1 DEF Put, Better
  <2>2. CASE ~Better(to, c) /\ best' = best
    BY <1>2, <2>0, <2>00, <2>2 DEF Better
  <2> QED
    BY <1>4, <2>1, <2>2
<1>8. Settled' = Settled /\ \A l \in Settled : best'[l] = best[l]
  <2>1. CASE Better(to, c) /\ best' = Put(best, to, c) /\ heap' = heap \cup {<<c, to>>}
    <3>1. to \notin Settled
      BY <1>6, <2>1
    <3>2. DOMAIN best' = DOMAIN best \cup {to} /\ best'[to] = c
      BY <2>1 DEF Put
    <3>3. \A l \in DOMAIN best : l # to => best'[l] = best[l]
      BY <1>7
    <3>4. \A l \in DOMAIN best :
            l # to => (<<best[l], l>> \in heap' <=> <<best[l], l>> \in heap)
      BY <2>1
    <3> QED
      BY <2>1, <3>1, <3>2, <3>3, <3>4 DEF Settled
  <2>2. CASE UNCHANGED <<best, heap>>
    BY <2>2 DEF Settled
  <2> QED
    BY <1>4, <2>1, <2>2
<1>9. TypeOK'
  <2>1. start' \in DOMAIN best' /\ DOMAIN best' \subseteq Boundaries' /\ best' \in [DOMAIN best' -> Nat]
    BY <1>0, <1>1, <1>3, <1>5, <1>7 DEF TypeOK, Boundaries
  <2>2. /\ DOMAIN prev' = DOMAIN best' \ {start}
        /\ prev' \in [DOMAIN prev' -> [from : Boundaries, server : candidates]]
        /\ \A l \in DOMAIN prev' : prev'[l].from < l
    <3>0. /\ DOMAIN prev = DOMAIN best \ {start}
          /\ prev \in [DOMAIN prev -> [from : Boundaries, server : candidates]]
          /\ \A l \in DOMAIN prev : prev[l].from < l
      BY <1>0 DEF TypeOK
    <3>1. CASE best' = Put(best, to, c) /\ prev' = Put(prev, to, [from |-> layer, server |-> s])
      <4>1. [from |-> layer, server |-> s] \in [from : Boundaries, server : candidates]
        BY <1>1 DEF Boundaries
      <4>2. DOMAIN prev' = DOMAIN prev \cup {to} /\ DOMAIN best' = DOMAIN best \cup {to}
        BY <3>1 DEF Put
      <4>3. DOMAIN prev' = DOMAIN best' \ {start}
        BY <1>1, <3>0, <4>2
      <4>4. prev' \in [DOMAIN prev' -> [from : Boundaries, server : candidates]]
        BY <3>0, <3>1, <4>1, <4>2 DEF Put
      <4>5. \A l \in DOMAIN prev' : prev'[l].from < l
        BY <1>1, <3>0, <3>1, <4>2 DEF Put
      <4> QED
        BY <4>3, <4>4, <4>5
    <3>2. CASE UNCHANGED <<best, prev>>
      BY <3>0, <3>2
    <3> QED
      BY <1>4, <3>1, <3>2
  <2>3. heap' \subseteq Nat \X DOMAIN best'
    <3>1. heap \subseteq Nat \X DOMAIN best
      BY <1>0 DEF TypeOK
    <3> QED
      BY <1>2, <1>4, <1>7, <3>1
  <2>4. \A p \in heap' : p[1] >= best'[p[2]]
    <3>1. ASSUME NEW p \in heap PROVE p[1] >= best'[p[2]]
      <4>1. p[1] \in Nat /\ p[2] \in DOMAIN best /\ best[p[2]] <= p[1] /\ best[p[2]] \in Nat
        BY <1>0, SearchTypes
      <4>2. best'[p[2]] \in Nat /\ best'[p[2]] <= best[p[2]]
        BY <1>7, <4>1
      <4> QED
        BY <4>1, <4>2
    <3>2. c >= best'[to]
      BY <1>2, <1>7
    <3> QED
      BY <1>4, <3>1, <3>2
  <2>5. layer' \in DOMAIN best' /\ todo' \subseteq candidates'
    BY <1>0, <1>3, <1>7 DEF TypeOK
  <2> QED
    BY <1>0, <1>3, <1>5, <2>1, <2>2, <2>3, <2>4, <2>5 DEF TypeOK
<1>10. PrevInv'
  <2>1. CASE prev' = Put(prev, to, [from |-> layer, server |-> s])
    <3>1. DOMAIN prev' = DOMAIN prev \cup {to}
      BY <2>1 DEF Put
    <3>2. prev'[to] = [from |-> layer, server |-> s] /\ \A l \in DOMAIN prev : l # to => prev'[l] = prev[l]
      BY <2>1 DEF Put
    <3>3. layer \in DOMAIN best' /\ to = Reach(s)
      BY <1>1, <1>7 DEF to, Settled
    <3> QED
      BY <1>0, <1>1, <1>5, <1>7, <3>1, <3>2, <3>3 DEF PrevInv
  <2>2. CASE UNCHANGED prev
    BY <1>0, <1>5, <1>7, <2>2 DEF PrevInv
  <2> QED
    BY <1>4, <2>1, <2>2
<1>11. FrontierInv'
  <2>1. \A p \in heap' : cost' <= p[1]
    BY <1>0, <1>2, <1>3, <1>4 DEF FrontierInv
  <2>2. \A l \in Settled' : best'[l] <= cost'
    BY <1>0, <1>3, <1>8 DEF FrontierInv
  <2>3. end' \notin Settled' /\ layer' < end'
    BY <1>0, <1>3, <1>8 DEF FrontierInv
  <2>4. todo' # {} => layer' \in Settled' /\ best'[layer'] = cost'
    BY <1>1, <1>3, <1>8
  <2>5. \A t \in todo' : Covers(t, layer)'
    BY <1>0, <1>3, <1>5 DEF FrontierInv
  <2> QED
    BY <2>1, <2>2, <2>3, <2>4, <2>5 DEF FrontierInv
<1>12. NoShortcut'
  <2> SUFFICES ASSUME NEW l \in Settled, NEW t \in candidates, Covers(t, l), Considered(t, l)'
               PROVE  /\ Reach(t) \in DOMAIN best'
                      /\ best'[Reach(t)] <= best[l] + StepCost(t, l, Reach(t))
    BY <1>3, <1>5, <1>8 DEF NoShortcut
  <2>1. CASE l = layer /\ t = s
    BY <1>1, <1>2, <1>7, <2>1 DEF to, c
  <2>2. CASE ~(l = layer /\ t = s)
    <3>1. Considered(t, l)
      BY <1>3, <2>2 DEF Considered
    <3>2. Reach(t) \in DOMAIN best /\ best[Reach(t)] <= best[l] + StepCost(t, l, Reach(t))
      BY <1>0, <3>1 DEF NoShortcut
    <3>3. l \in Nat /\ l < Reach(t) /\ Reach(t) \in Nat /\ best[l] \in Nat /\ t \in Servers
      <4>1. l \in DOMAIN best /\ l # end /\ t \in Servers
        BY <1>0 DEF Settled, FrontierInv, TypeOK
      <4>2. l \in Nat /\ l <= end /\ best[l] \in Nat /\ end \in Nat
        BY <1>0, <4>1, SearchTypes, RangeType
      <4> QED
        BY <1>0, <4>1, <4>2, ReachIs
    <3>4. StepCost(t, l, Reach(t)) \in Nat
      BY <1>0, <3>3, StepCostType
    <3>5. /\ best[Reach(t)] \in Nat /\ best'[Reach(t)] \in Nat
          /\ best'[Reach(t)] <= best[Reach(t)] /\ Reach(t) \in DOMAIN best'
      BY <1>0, <1>7, <3>2, SearchTypes
    <3> QED
      BY <3>2, <3>3, <3>4, <3>5
  <2> QED
    BY <2>1, <2>2
<1>13. WalkInv'
  BY <1>0, <1>3 DEF WalkInv
<1> QED
  BY <1>9, <1>10, <1>11, <1>12, <1>13 DEF Inv

-----------------------------------------------------------------------------
(***************************************************************************)
(* The other steps.                                                        *)
(***************************************************************************)
LEMMA NoRouteStep == ASSUME Inv, NoRoute PROVE Inv'
<1>1. /\ UNCHANGED <<offer, candidates, start, end, best, prev, heap, cost, layer, todo, hops>>
      /\ pc = "search" /\ pc' = "no route" /\ todo = {} /\ heap = {}
  BY DEF NoRoute, inputs
<1>2. /\ Boundaries' = Boundaries /\ Listed' = Listed /\ Possible' = Possible
      /\ Settled' = Settled
      /\ \A s, l : Covers(s, l)' = Covers(s, l) /\ Considered(s, l)' = Considered(s, l)
      /\ \A s : Reach(s)' = Reach(s)
      /\ \A s, l, m : StepCost(s, l, m)' = StepCost(s, l, m)
  BY <1>1
  DEF Boundaries, Listed, Possible, Covers, Reach, StepCost, Settled, Considered,
      Decoder!HopsWithin, SpanOf, Decoder!Serves, Decoder!Capped, Decoder!Boundaries
<1>3. TypeOK'
  BY <1>1, <1>2 DEF Inv, TypeOK
<1>4. PrevInv' /\ FrontierInv'
  BY <1>1, <1>2 DEF Inv, PrevInv, FrontierInv
<1>5. NoShortcut' /\ WalkInv'
  BY <1>1, <1>2 DEF Inv, NoShortcut, WalkInv
<1> QED
  BY <1>3, <1>4, <1>5 DEF Inv

\* A hop put in front of a chain.
LEMMA ChainPrepend ==
  ASSUME NEW chain, NEW m \in Nat, NEW e \in Nat, Decoder!IsChain(chain, m, e),
         \A h \in chain : h.start \in Nat /\ h.end \in Nat,
         NEW g, g.start \in Nat, g.end = m, g.start < m, m <= e
  PROVE  Decoder!IsChain(chain \cup {g}, g.start, e)
<1>1. \A h \in chain : m <= h.start /\ h.start < h.end /\ h.end <= e
  BY DEF Decoder!IsChain
<1>2. \A l \in g.start .. e - 1 : l \in m .. e - 1 \/ Decoder!Serves(g, l)
  BY DEF Decoder!Serves
<1>3. \A l \in g.start .. e - 1 : \E h \in chain \cup {g} : Decoder!Serves(h, l)
  BY <1>2 DEF Decoder!IsChain
<1>4. \A l \in g.start .. e - 1 : \A h \in chain : ~(Decoder!Serves(h, l) /\ Decoder!Serves(g, l))
  BY <1>1 DEF Decoder!Serves
<1>5. \A l \in g.start .. e - 1 : \A h \in chain : Decoder!Serves(h, l) => l \in m .. e - 1
  BY <1>1 DEF Decoder!Serves
<1>6. \A l \in g.start .. e - 1 : \A f, h \in chain \cup {g} :
        Decoder!Serves(f, l) /\ Decoder!Serves(h, l) => f = h
  BY <1>4, <1>5 DEF Decoder!IsChain
<1>7. \A h \in chain \cup {g} : g.start <= h.start /\ h.start < h.end /\ h.end <= e
  BY <1>1
<1> QED
  BY <1>3, <1>6, <1>7 DEF Decoder!IsChain

\* The hop of prev is one that the search may take.
LEMMA WayIsPossible ==
  ASSUME TypeOK, PrevInv, NEW l \in DOMAIN prev
  PROVE  [peer |-> Peer(prev[l].server), start |-> prev[l].from, end |-> l] \in Possible
<1> DEFINE e == prev[l]
<1>1. e.from \in Boundaries /\ e.server \in candidates /\ e.server \in Servers
      /\ l \in Boundaries
  BY DEF TypeOK
<1>2. e.from < l /\ Covers(e.server, e.from) /\ l = Reach(e.server)
  BY DEF PrevInv
<1>3. start \in Nat /\ end \in Nat /\ end <= NumLayers /\ NumLayers \in Nat
  BY RangeType
<1> HIDE DEF e
<1>4. l \in start .. end /\ e.from \in start .. end
  BY <1>1 DEF Boundaries
<1>5. e.from \in start .. end - 1 /\ l \in 0 .. NumLayers
  BY <1>2, <1>3, <1>4
<1>6. Peer(e.server) \in Listed /\ Peer(e.server).addr = e.server
  BY <1>1 DEF Listed, Peer
<1>7. SpanOf[e.server].start = offer[e.server].start /\ SpanOf[e.server].end = offer[e.server].end
  BY <1>1 DEF SpanOf
<1>8. Reach(e.server) = Decoder!Capped(SpanOf[e.server].end, end)
  BY <1>1, <1>7, ReachIs DEF Decoder!Capped
<1>9. Decoder!Serves(SpanOf[e.server], e.from)
  BY <1>2, <1>7 DEF Covers, Decoder!Serves
<1>10. [peer |-> Peer(e.server), start |-> e.from, end |-> l]
          \in [peer : Listed, start : start .. end - 1, end : Decoder!Boundaries]
  BY <1>5, <1>6 DEF Decoder!Boundaries
<1> QED
  BY <1>2, <1>6, <1>8, <1>9, <1>10 DEF Possible, Decoder!HopsWithin, e

LEMMA WalkBackStep == ASSUME Inv, WalkBack PROVE Inv'
<1>0. TypeOK /\ PrevInv /\ WalkInv /\ pc = "walk"
  BY DEF Inv, WalkBack
<1>1. UNCHANGED <<offer, candidates, start, end, best, prev, heap, cost, todo>>
  BY DEF WalkBack, inputs
<1>2. /\ Boundaries' = Boundaries /\ Listed' = Listed /\ Possible' = Possible
      /\ \A s, l : Covers(s, l)' = Covers(s, l)
      /\ \A s : Reach(s)' = Reach(s)
  BY <1>1
  DEF Boundaries, Listed, Possible, Covers, Reach,
      Decoder!HopsWithin, SpanOf, Decoder!Serves, Decoder!Capped, Decoder!Boundaries
<1>3. PrevInv'
  BY <1>0, <1>1, <1>2 DEF PrevInv
<1>4. hops \subseteq Possible /\ Decoder!IsChain(hops, layer, end)
  BY <1>0 DEF WalkInv
<1>5. CASE layer = start /\ pc' = "done" /\ UNCHANGED <<layer, hops>>
  <2>1. TypeOK'
    BY <1>0, <1>1, <1>2, <1>5 DEF TypeOK
  <2>2. WalkInv'
    BY <1>1, <1>2, <1>4, <1>5 DEF WalkInv
  <2>3. FrontierInv' /\ NoShortcut'
    BY <1>5 DEF FrontierInv, NoShortcut
  <2> QED
    BY <1>3, <2>1, <2>2, <2>3 DEF Inv
<1>6. CASE layer # start
  <2> DEFINE g == [peer |-> Peer(prev[layer].server), start |-> prev[layer].from, end |-> layer]
  <2>1. hops' = hops \cup {g} /\ layer' = prev[layer].from /\ pc' = "walk"
    BY <1>0, <1>6 DEF WalkBack
  <2>2. layer \in DOMAIN prev
    BY <1>0, <1>6 DEF TypeOK
  <2>3. /\ prev[layer].from \in Boundaries /\ prev[layer].server \in candidates
        /\ prev[layer].from \in DOMAIN best /\ prev[layer].from < layer
    BY <1>0, <2>2 DEF TypeOK, PrevInv
  <2>4. g \in Possible
    BY <1>0, <2>2, WayIsPossible
  <2>5. g \in [peer : Listed, start : Boundaries, end : Boundaries]
    BY <1>0, <2>3 DEF TypeOK, Listed
  <2>6. /\ layer \in Nat /\ end \in Nat /\ layer <= end
        /\ prev[layer].from \in Nat
    BY <1>0, <2>3, SearchTypes, RangeType DEF TypeOK
  <2>7. \A h \in hops : h.start \in Nat /\ h.end \in Nat
    BY <1>0, RangeType DEF TypeOK, Boundaries
  <2>8. g.start = prev[layer].from /\ g.end = layer
    OBVIOUS
  <2> HIDE DEF g
  <2>9. Decoder!IsChain(hops \cup {g}, prev[layer].from, end)
    BY <1>4, <2>3, <2>6, <2>7, <2>8, ChainPrepend
  <2>10. TypeOK'
    BY <1>0, <1>1, <1>2, <2>1, <2>3, <2>5 DEF TypeOK
  <2>11. WalkInv'
    BY <1>1, <1>2, <1>4, <2>1, <2>4, <2>9 DEF WalkInv
  <2>12. FrontierInv' /\ NoShortcut'
    BY <2>1 DEF FrontierInv, NoShortcut
  <2> QED
    BY <1>3, <2>10, <2>11, <2>12 DEF Inv
<1> QED
  BY <1>0, <1>5, <1>6 DEF WalkBack

-----------------------------------------------------------------------------
(***************************************************************************)
(* The search from its start to its end.                                   *)
(***************************************************************************)
LEMMA InvInit == Init => Inv
<1> SUFFICES ASSUME Init PROVE Inv
  OBVIOUS
<1>1. NumLayers \in Nat /\ start \in 0 .. NumLayers - 1 /\ end \in start + 1 .. NumLayers
  BY OffersAreValid DEF Init, OffersAssumption
<1>2. start \in Nat /\ end \in Nat /\ start < end
  BY <1>1
<1>3. /\ pc = "search" /\ best = [l \in {start} |-> 0] /\ prev = << >> /\ heap = {<<0, start>>}
      /\ cost = 0 /\ layer = start /\ todo = {} /\ hops = {}
  BY DEF Init
<1>4. DOMAIN best = {start} /\ best[start] = 0 /\ DOMAIN prev = {} /\ Settled = {}
  BY <1>3 DEF Settled
<1>5. TypeOK
  <2>1. best \in [DOMAIN best -> Nat] /\ start \in DOMAIN best /\ DOMAIN best \subseteq Boundaries
    BY <1>2, <1>3, <1>4 DEF Boundaries
  <2>2. DOMAIN prev = DOMAIN best \ {start} /\ \A l \in DOMAIN prev : prev[l].from < l
    BY <1>4
  <2>3. prev \in [DOMAIN prev -> [from : Boundaries, server : candidates]]
    BY <1>3, <1>4
  <2>4. heap \subseteq Nat \X DOMAIN best /\ \A p \in heap : p[1] >= best[p[2]]
    BY <1>3, <1>4
  <2>5. offer \in [Servers -> Offers] /\ candidates \subseteq Servers
    BY DEF Init
  <2>6. /\ cost \in Nat /\ layer \in DOMAIN best /\ todo \subseteq candidates
        /\ hops \subseteq [peer : Listed, start : Boundaries, end : Boundaries]
    BY <1>3, <1>4
  <2> QED
    BY <1>1, <1>3, <2>1, <2>2, <2>3, <2>4, <2>5, <2>6 DEF TypeOK
<1>6. PrevInv
  BY <1>4 DEF PrevInv
<1>7. FrontierInv
  BY <1>2, <1>3, <1>4 DEF FrontierInv
<1>8. NoShortcut
  BY <1>4 DEF NoShortcut
<1>9. WalkInv
  BY <1>3 DEF WalkInv
<1> QED
  BY <1>5, <1>6, <1>7, <1>8, <1>9 DEF Inv

LEMMA InvStep == Inv /\ [Next]_vars => Inv'
<1> SUFFICES ASSUME Inv, [Next]_vars PROVE Inv'
  OBVIOUS
<1>1. ASSUME NEW p \in heap, Pop(p) PROVE Inv'
  BY <1>1, PopStep
<1>2. ASSUME NEW s \in todo, Relax(s) PROVE Inv'
  BY <1>2, RelaxStep
<1>3. CASE NoRoute
  BY <1>3, NoRouteStep
<1>4. CASE WalkBack
  BY <1>4, WalkBackStep
<1>5. CASE UNCHANGED vars
  <2>1. UNCHANGED <<offer, candidates, start, end, pc, best, prev, heap, cost, layer, todo, hops>>
    BY <1>5 DEF vars, inputs
  <2>2. /\ Boundaries' = Boundaries /\ Listed' = Listed /\ Possible' = Possible
        /\ Settled' = Settled
        /\ \A s, l : Covers(s, l)' = Covers(s, l) /\ Considered(s, l)' = Considered(s, l)
        /\ \A s : Reach(s)' = Reach(s)
        /\ \A s, l, m : StepCost(s, l, m)' = StepCost(s, l, m)
    BY <2>1
    DEF Boundaries, Listed, Possible, Covers, Reach, StepCost, Settled, Considered,
        Decoder!HopsWithin, SpanOf, Decoder!Serves, Decoder!Capped, Decoder!Boundaries
  <2>3. TypeOK'
    BY <2>1, <2>2 DEF Inv, TypeOK
  <2>4. PrevInv' /\ FrontierInv'
    BY <2>1, <2>2 DEF Inv, PrevInv, FrontierInv
  <2>5. NoShortcut' /\ WalkInv'
    BY <2>1, <2>2 DEF Inv, NoShortcut, WalkInv
  <2> QED
    BY <2>3, <2>4, <2>5 DEF Inv
<1> QED
  BY <1>1, <1>2, <1>3, <1>4, <1>5 DEF Next

(***************************************************************************)
(* The state of find_route is well typed at every step: in particular the  *)
(* walk back only ever looks up boundaries that have an entry in prev.     *)
(***************************************************************************)
THEOREM SearchTypeCorrect == Spec => []TypeOK
<1>1. Inv => TypeOK
  BY DEF Inv
<1> QED
  BY InvInit, InvStep, <1>1, PTL DEF Spec

LEMMA SearchInvariant == Spec => []Inv
  BY InvInit, InvStep, PTL DEF Spec

(***************************************************************************)
(* The hops that find_route returns are a chain over [start, end) of hops  *)
(* that candidates offer: it is a route of module Routing, the one         *)
(* property of it that the session model uses.                             *)
(***************************************************************************)
THEOREM ReturnsRoute == Spec => []FindsRoute
<1>1. Inv => FindsRoute
  BY DEF Inv, WalkInv, FindsRoute, Possible, Decoder!Routes
<1> QED
  BY SearchInvariant, <1>1, PTL

-----------------------------------------------------------------------------
\* A hop of a possible route is offered by a candidate.
LEMMA HopIsOffered ==
  ASSUME TypeOK, NEW h \in Possible
  PROVE  /\ h.peer.addr \in candidates /\ h.start \in Nat /\ h.end \in Nat
         /\ start <= h.start /\ h.start < end
         /\ Covers(h.peer.addr, h.start) /\ h.end = Reach(h.peer.addr)
         /\ HopCost(h) = StepCost(h.peer.addr, h.start, h.end) /\ HopCost(h) \in Nat
<1>1. PICK s \in candidates : h.peer = Peer(s)
  BY DEF Possible, Decoder!HopsWithin, Listed
<1>2. s \in Servers /\ h.peer.addr = s
  <2>1. Peer(s).addr = s
    BY DEF Peer
  <2> QED
    BY <1>1, <2>1 DEF TypeOK
<1>3. SpanOf[s].start = offer[s].start /\ SpanOf[s].end = offer[s].end
  BY <1>2 DEF SpanOf
<1>4. h.start \in start .. end - 1 /\ h.end \in 0 .. NumLayers
  BY DEF Possible, Decoder!HopsWithin, Decoder!Boundaries
<1>5. h.start \in Nat /\ h.end \in Nat /\ start <= h.start /\ h.start < end
  BY <1>4, RangeType
<1>6. Covers(s, h.start) /\ h.end = Reach(s)
  <2>1. Decoder!Serves(SpanOf[s], h.start) /\ h.end = Decoder!Capped(SpanOf[s].end, end)
    BY <1>2 DEF Possible, Decoder!HopsWithin
  <2> QED
    BY <1>2, <1>3, <2>1, ReachIs DEF Covers, Decoder!Serves, Decoder!Capped
<1>7. HopCost(h) = StepCost(s, h.start, h.end)
  BY <1>2 DEF HopCost
<1>8. h.start <= h.end
  BY <1>2, <1>5, <1>6, ReachIs
<1>9. StepCost(s, h.start, h.end) \in Nat
  BY <1>2, <1>5, <1>8, StepCostType
<1> QED
  BY <1>1, <1>2, <1>5, <1>6, <1>7, <1>9

\* Before a hop of a chain that is not the first there is another.
LEMMA HopBefore ==
  ASSUME NEW s \in Nat, NEW e \in Nat, NEW r, Decoder!IsChain(r, s, e),
         \A h \in r : h.start \in Nat /\ h.end \in Nat,
         NEW h \in r, h.start # s
  PROVE  \E g \in r : g.end = h.start /\ g.start < h.start
<1>1. s <= h.start /\ h.start < h.end /\ h.end <= e
  BY DEF Decoder!IsChain
<1>2. h.start - 1 \in s .. e - 1 /\ h.start \in s .. e - 1
  BY <1>1
<1>3. PICK g \in r : Decoder!Serves(g, h.start - 1)
  BY <1>2 DEF Decoder!IsChain
<1>4. g.start < h.start /\ h.start <= g.end
  BY <1>2, <1>3 DEF Decoder!Serves
<1>5. Decoder!Serves(h, h.start) /\ (h.start < g.end => Decoder!Serves(g, h.start))
  BY <1>1, <1>4 DEF Decoder!Serves
<1>6. ~(h.start < g.end)
  BY <1>2, <1>4, <1>5 DEF Decoder!IsChain
<1> QED
  BY <1>4, <1>6

(***************************************************************************)
(* NoRouteError is raised only when the candidates do not cover the range: *)
(* of a chain that exists, the first hop whose end was never reached       *)
(* starts at a boundary that was, and the search would have taken it.      *)
(***************************************************************************)
THEOREM NoRouteIsRight == Spec => []GivesUpRightly
<1>1. ASSUME Inv, pc = "no route", NEW r \in Decoder!Routes(Listed, start, end) PROVE FALSE
  <2>1. TypeOK /\ FrontierInv /\ NoShortcut /\ heap = {} /\ todo = {}
    BY <1>1 DEF Inv, WalkInv
  <2>2. Settled = DOMAIN best /\ end \notin DOMAIN best /\ start \in DOMAIN best
    BY <1>1, <2>1 DEF Settled, FrontierInv, TypeOK
  <2>3. start \in Nat /\ end \in Nat /\ start < end
    BY <2>1, RangeType
  <2>4. r \subseteq Possible /\ Decoder!IsChain(r, start, end)
    BY <1>1 DEF Decoder!Routes, Possible
  <2>5. \A h \in r : h.start \in Nat /\ h.end \in Nat
    BY <2>1, <2>4, HopIsOffered
  <2> DEFINE missed == {h \in r : h.end \notin DOMAIN best}
             entries == {h.start : h \in missed}
  <2>6. missed # {}
    <3>1. PICK h \in r : Decoder!Serves(h, end - 1)
      BY <2>3, <2>4 DEF Decoder!IsChain
    <3>2. h.end = end
      BY <2>3, <2>4, <2>5, <3>1 DEF Decoder!IsChain, Decoder!Serves
    <3> QED
      BY <2>2, <3>2
  <2>7. PICK h \in missed : \A g \in missed : h.start <= g.start
    <3>1. entries \subseteq Nat /\ entries # {}
      BY <2>5, <2>6
    <3> HIDE DEF entries
    <3>2. PICK x \in entries : \A y \in entries : x <= y
      BY <3>1, SmallestOf
    <3> QED
      BY <3>2 DEF entries
  <2>8. h.start \in DOMAIN best
    <3>1. CASE h.start # start
      <4>1. PICK g \in r : g.end = h.start /\ g.start < h.start
        BY <2>3, <2>4, <2>5, <2>7, <3>1, HopBefore
      <4>2. g \notin missed
        BY <2>5, <2>7, <4>1
      <4> QED
        BY <4>1, <4>2
    <3> QED
      BY <2>2, <3>1
  <2>9. /\ h.peer.addr \in candidates
        /\ Covers(h.peer.addr, h.start) /\ h.end = Reach(h.peer.addr)
    BY <2>1, <2>4, <2>7, HopIsOffered
  <2>10. h.end \in DOMAIN best
    BY <1>1, <2>1, <2>2, <2>8, <2>9 DEF NoShortcut, Considered
  <2> QED
    BY <2>7, <2>10
<1>2. Inv => GivesUpRightly
  BY <1>1 DEF GivesUpRightly
<1> QED
  BY SearchInvariant, <1>2, PTL

(***************************************************************************)
(* The cost of a boundary is final once it has been popped with it: no     *)
(* relaxation finds a cheaper way there, nor is it ever queued again.      *)
(***************************************************************************)
THEOREM PoppedStaysFinal == Spec => PoppedIsFinal
<1> DEFINE Final == \A l \in Settled : best'[l] = best[l]
<1>1. Inv /\ [Next]_vars => Final \/ UNCHANGED vars
  <2> SUFFICES ASSUME Inv, Next PROVE Final
    OBVIOUS
  <2>1. ASSUME NEW p \in heap, Pop(p) PROVE Final
    BY <2>1 DEF Pop
  <2>2. ASSUME NEW s \in todo, Relax(s) PROVE Final
    <3> DEFINE to == Reach(s)
               c == cost + StepCost(s, layer, to)
    <3>1. TypeOK /\ FrontierInv /\ pc = "search"
      BY <2>2 DEF Inv, Relax
    <3>2. cost \in Nat /\ StepCost(s, layer, to) \in Nat
      BY <2>2, <3>1, RelaxTypes, SearchTypes
    <3>3. \A l \in Settled : l \in DOMAIN best /\ best[l] \in Nat /\ best[l] <= cost
      BY <3>1, SearchTypes DEF FrontierInv, Settled
    <3>4. cost <= c /\ c \in Nat
      BY <3>2
    <3>5. \/ Better(to, c) /\ best' = Put(best, to, c)
          \/ UNCHANGED best
      BY <2>2 DEF Relax
    <3> HIDE DEF to, c
    <3>6. Better(to, c) => to \notin Settled
      BY <3>2, <3>3, <3>4 DEF Better
    <3> QED
      BY <3>3, <3>5, <3>6 DEF Put
  <2>3. NoRoute \/ WalkBack => Final
    BY DEF NoRoute, WalkBack
  <2> QED
    BY <2>1, <2>2, <2>3 DEF Next
<1>2. Spec => []Inv
  BY SearchInvariant
<1> QED
  BY <1>1, <1>2, PTL DEF Spec, PoppedIsFinal

-----------------------------------------------------------------------------
(***************************************************************************)
(* A server that joins takes a layer that no candidate serves, whichever   *)
(* they are and however many layers it wants, if there is such a layer     *)
(* (choose_span; test_choose_span_fills_gaps).                             *)
(***************************************************************************)
THEOREM JoinerFillsGap == Spec => []JoinFillsGap
<1>1. ASSUME TypeOK, NEW len \in 1 .. NumLayers,
             NEW gap \in 0 .. NumLayers - 1,
             \A o \in Offered : gap \notin LayersOf(o, NumLayers)
      PROVE  \E l \in LayersOf(ChooseSpan(Offered, NumLayers, len), NumLayers) :
               \A o \in Offered : l \notin LayersOf(o, NumLayers)
  <2> DEFINE O(s) == [id |-> s, start |-> offer[s].start, end |-> offer[s].end,
                      throughput |-> offer[s].throughput]
             f == [s \in candidates |-> O(s)]
  <2>1. candidates \subseteq Servers /\ IsFiniteSet(Servers)
    BY <1>1, OffersAreValid DEF TypeOK, OffersAssumption
  <2>2. IsFiniteSet(candidates)
    BY <2>1, FS_Subset
  <2>3. Offered = {O(s) : s \in candidates}
    BY DEF Offered
  <2> HIDE DEF O
  <2>4. f \in Surjection(candidates, Offered)
    BY <2>3 DEF Surjection
  <2>5. IsFiniteSet(Offered)
    BY <2>2, <2>4, FS_Surjection
  <2>6. \A s \in candidates : O(s).throughput \in Nat \ {0}
    <3>1. \A s \in candidates : offer[s].throughput \in Nat /\ offer[s].throughput > 0
      BY <1>1, <2>1, OfferType
    <3> QED
      BY <3>1 DEF O
  <2>7. Swarm(Offered, NumLayers)
    BY <2>3, <2>5, <2>6, OffersAreValid DEF Swarm, OffersAssumption
  <2> QED
    BY <1>1, <2>7, ChosenSpanFillsGap
<1>2. ASSUME TypeOK PROVE JoinFillsGap
  <2> DEFINE served == UNION {LayersOf(o, NumLayers) : o \in Offered}
             joined(len) == LayersOf(ChooseSpan(Offered, NumLayers, len), NumLayers)
  <2>1. ASSUME NEW len \in 1 .. NumLayers, NEW gap \in 0 .. NumLayers - 1, gap \notin served
        PROVE  ~(joined(len) \subseteq served)
    <3>1. \A o \in Offered : gap \notin LayersOf(o, NumLayers)
      BY <2>1
    <3>2. \E l \in joined(len) : \A o \in Offered : l \notin LayersOf(o, NumLayers)
      BY <1>2, <1>1, <3>1
    <3> QED
      BY <3>2
  <2> QED
    BY <2>1 DEF JoinFillsGap
<1>3. TypeOK => JoinFillsGap
  BY <1>2
<1> QED
  BY SearchTypeCorrect, <1>3, PTL

-----------------------------------------------------------------------------
(***************************************************************************)
(* The cost of a route.                                                    *)
(***************************************************************************)
LEMMA RouteCostIsSum ==
  ASSUME NEW r, NEW w, \A h \in r : w[h] = HopCost(h)
  PROVE  RouteCost(r) = SumOver(w, r)
<1> DEFINE Summed(g) == [T \in SUBSET r |->
             IF T = {} THEN 0
             ELSE HopCost(CHOOSE x \in T : TRUE) + g[T \ {CHOOSE x \in T : TRUE}]]
           Stepped(g) == [T \in SUBSET r |-> Step(w, g, T)]
<1>1. RouteCost(r) = (CHOOSE g : g = Summed(g))[r]
  BY DEF RouteCost, MapThenSumSet, MapThenFoldSet
<1>2. SumOver(w, r) = (CHOOSE g : g = Stepped(g))[r]
  BY SumUnfolds
<1>3. ASSUME NEW g PROVE Summed(g) = Stepped(g)
  <2> SUFFICES ASSUME NEW T \in SUBSET r, T # {}
               PROVE  HopCost(CHOOSE x \in T : TRUE) = w[CHOOSE x \in T : TRUE]
    BY DEF Step, Pick
  <2>1. (CHOOSE x \in T : TRUE) \in r
    OBVIOUS
  <2> QED
    BY <2>1
<1> HIDE DEF Summed, Stepped
<1> QED
  BY <1>1, <1>2, <1>3

\* The hops up to the end of a hop are those up to its start, and itself.
LEMMA HopsUpTo ==
  ASSUME NEW s \in Nat, NEW e \in Nat, NEW r, Decoder!IsChain(r, s, e),
         \A h \in r : h.start \in Nat /\ h.end \in Nat,
         NEW h \in r
  PROVE  {g \in r : g.end <= h.start} = {g \in r : g.end <= h.end} \ {h}
<1>1. \A g \in r : s <= g.start /\ g.start < g.end /\ g.end <= e
  BY DEF Decoder!IsChain
<1>2. ASSUME NEW g \in r, g.end <= h.end, ~(g.end <= h.start) PROVE g = h
  <2>1. g.end - 1 \in s .. e - 1
    BY <1>1
  <2>2. Decoder!Serves(g, g.end - 1) /\ Decoder!Serves(h, g.end - 1)
    BY <1>1, <1>2 DEF Decoder!Serves
  <2> QED
    BY <2>1, <2>2 DEF Decoder!IsChain
<1>3. \A g \in r : g.end <= h.start => g.end <= h.end /\ g # h
  BY <1>1
<1> QED
  BY <1>2, <1>3

\* The hops of a chain start at different layers.
LEMMA ChainIsFinite ==
  ASSUME NEW s \in Nat, NEW e \in Nat, NEW r, Decoder!IsChain(r, s, e),
         \A h \in r : h.start \in Nat /\ h.end \in Nat
  PROVE  IsFiniteSet(r)
<1> DEFINE f == [h \in r |-> h.start]
<1>1. \A h \in r : h.start \in s .. e - 1 /\ Decoder!Serves(h, h.start)
  BY DEF Decoder!IsChain, Decoder!Serves
<1>2. \A g, h \in r : g.start = h.start => g = h
  BY <1>1 DEF Decoder!IsChain
<1>3. f \in Injection(r, s .. e - 1)
  BY <1>1, <1>2 DEF Injection, IsInjective
<1>4. IsFiniteSet(s .. e - 1)
  BY FS_Interval
<1> QED
  BY <1>3, <1>4, FS_Injection

LEMMA SumsEqual ==
  ASSUME NEW w, NEW v, NEW S, \A x \in S : w[x] = v[x]
  PROVE  SumOver(w, S) = SumOver(v, S)
<1> DEFINE W(g) == [T \in SUBSET S |-> Step(w, g, T)]
           V(g) == [T \in SUBSET S |-> Step(v, g, T)]
<1>1. /\ SumOver(w, S) = (CHOOSE g : g = W(g))[S]
      /\ SumOver(v, S) = (CHOOSE g : g = V(g))[S]
  BY SumUnfolds
<1>2. ASSUME NEW g PROVE W(g) = V(g)
  <2>1. \A T \in SUBSET S : T # {} => Pick(T) \in S
    BY DEF Pick
  <2> QED
    BY <2>1 DEF Step
<1> HIDE DEF W, V
<1> QED
  BY <1>1, <1>2

-----------------------------------------------------------------------------
(***************************************************************************)
(* Once the end has been popped, no hop from a boundary that is cheaper to *)
(* reach improves on what has been found, and the walk back adds up the    *)
(* cost of the end.                                                        *)
(***************************************************************************)
Weights == [h \in hops |-> HopCost(h)]

Certified ==
  \A l \in DOMAIN best : best[l] < best[end] =>
    \A s \in candidates : Covers(s, l) =>
      Reach(s) \in DOMAIN best /\ best[Reach(s)] <= best[l] + StepCost(s, l, Reach(s))

WayCosts ==
  \A l \in DOMAIN prev :
    LET e == prev[l] IN
    e.from \in Settled /\ best[l] = best[e.from] + StepCost(e.server, e.from, l)

CostInv ==
  /\ best[start] = 0 /\ WayCosts
  /\ pc \in {"walk", "done"} =>
       /\ end \in DOMAIN best /\ Certified
       /\ IsFiniteSet(hops) /\ SumOver(Weights, hops) + best[layer] = best[end]

LEMMA CostPopStep == ASSUME Inv, CostInv, NEW p \in heap, Pop(p) PROVE CostInv'
<1>1. TypeOK /\ FrontierInv /\ NoShortcut /\ WalkInv /\ pc = "search" /\ todo = {}
  BY DEF Inv, Pop
<1>2. /\ UNCHANGED <<offer, candidates, start, end, best, prev, hops>>
      /\ heap' = heap \ {p}
  BY DEF Pop, inputs
<1>3. \/ p[2] = end /\ pc' = "walk" /\ layer' = end
      \/ pc' = "search"
  BY <1>1 DEF Pop
<1>4. /\ \A s, l : Covers(s, l)' = Covers(s, l)
      /\ \A s : Reach(s)' = Reach(s)
      /\ \A s, l, m : StepCost(s, l, m)' = StepCost(s, l, m)
  BY <1>2 DEF Covers, Reach, StepCost
<1>5. WayCosts'
  <2>1. Settled \subseteq Settled'
    BY <1>2 DEF Settled
  <2> QED
    BY <1>2, <1>4, <2>1 DEF CostInv, WayCosts
<1>6. best'[start'] = 0
  BY <1>2 DEF CostInv
<1>7. CASE p[2] = end /\ pc' = "walk" /\ layer' = end
  <2>1. /\ p[1] \in Nat /\ end \in DOMAIN best /\ best[end] <= p[1]
        /\ \A l \in DOMAIN best : best[l] \in Nat
        /\ \A q \in heap : q[1] \in Nat
    BY <1>1, <1>7, SearchTypes
  <2>2. \A q \in heap : p[1] <= q[1]
    <3>1. \A q \in heap : p[1] < q[1] \/ p[1] = q[1]
      BY DEF Pop, Cheapest
    <3> QED
      BY <2>1, <3>1
  <2>3. \A l \in DOMAIN best : best[l] < best[end] => l \in Settled
    <3> SUFFICES ASSUME NEW l \in DOMAIN best, l \notin Settled
                 PROVE  ~(best[l] < best[end])
      OBVIOUS
    <3>1. <<best[l], l>> \in heap
      BY DEF Settled
    <3>2. p[1] <= best[l]
      BY <2>2, <3>1
    <3> QED
      BY <2>1, <3>2
  <2>4. Certified'
    BY <1>1, <1>2, <1>4, <2>3 DEF Certified, NoShortcut, Considered
  <2>5. hops = {} /\ Weights' = Weights
    BY <1>1, <1>2, <1>4 DEF WalkInv, Weights, HopCost
  <2>6. IsFiniteSet({}) /\ SumOver(Weights, {}) = 0
    <3>1. IsFiniteSet({}) /\ \A h \in {} : Weights[h] \in Nat
      BY FS_EmptySet
    <3> QED
      BY <3>1, SumIsNatural
  <2>7. 0 + best[end] = best[end]
    BY <2>1
  <2> QED
    BY <1>2, <1>5, <1>6, <1>7, <2>1, <2>4, <2>5, <2>6, <2>7 DEF CostInv
<1>8. CASE pc' = "search"
  BY <1>5, <1>6, <1>8 DEF CostInv
<1> QED
  BY <1>3, <1>7, <1>8

LEMMA CostRelaxStep == ASSUME Inv, CostInv, NEW s \in todo, Relax(s) PROVE CostInv'
<1> DEFINE to == Reach(s)
           c == cost + StepCost(s, layer, to)
<1>1. TypeOK /\ FrontierInv /\ pc = "search"
  BY DEF Inv, Relax
<1>2. UNCHANGED <<offer, candidates, start, end, pc>>
  BY DEF Relax, inputs
<1>3. \/ /\ Better(to, c)
         /\ best' = Put(best, to, c)
         /\ prev' = Put(prev, to, [from |-> layer, server |-> s])
         /\ heap' = heap \cup {<<c, to>>}
      \/ UNCHANGED <<best, prev, heap>>
  BY DEF Relax
<1>4. /\ layer \in Settled /\ best[layer] = cost /\ layer \in Nat /\ layer < to /\ to # start
      /\ to \in Nat /\ StepCost(s, layer, to) \in Nat
  BY RelaxTypes
<1>5. \A t, l, m : StepCost(t, l, m)' = StepCost(t, l, m)
  BY <1>2 DEF StepCost
<1>6. CASE UNCHANGED <<best, prev, heap>>
  <2>1. Settled' = Settled
    BY <1>6 DEF Settled
  <2>2. WayCosts' /\ best'[start'] = 0
    BY <1>2, <1>5, <1>6, <2>1 DEF CostInv, WayCosts
  <2> QED
    BY <1>1, <1>2, <2>2 DEF CostInv
<1>7. CASE /\ Better(to, c)
           /\ best' = Put(best, to, c)
           /\ prev' = Put(prev, to, [from |-> layer, server |-> s])
           /\ heap' = heap \cup {<<c, to>>}
  <2>1. to \notin Settled
    <3>1. cost \in Nat /\ c \in Nat /\ cost <= c
      BY <1>1, <1>4, SearchTypes
    <3>2. \A l \in Settled : best[l] \in Nat /\ best[l] <= cost
      BY <1>1, SearchTypes DEF FrontierInv, Settled
    <3> HIDE DEF c, to
    <3> QED
      BY <1>7, <3>1, <3>2 DEF Better, Settled
  <2> HIDE DEF to
  <2>2. \A l \in Settled : l # to /\ l \in Settled' /\ best'[l] = best[l]
    BY <1>7, <2>1 DEF Settled, Put
  <2>3. start \in DOMAIN best /\ best'[start'] = 0
    BY <1>1, <1>2, <1>4, <1>7 DEF CostInv, TypeOK, Put
  <2>4. ASSUME NEW l \in DOMAIN prev'
        PROVE  /\ prev'[l].from \in Settled'
               /\ best'[l] = best'[prev'[l].from] + StepCost(prev'[l].server, prev'[l].from, l)
    <3>1. CASE l = to
      <4>1. prev'[l].from = layer /\ prev'[l].server = s /\ best'[l] = c
        BY <1>7, <3>1 DEF Put
      <4>2. layer \in Settled' /\ best'[layer] = cost
        BY <1>4, <2>2
      <4> QED
        BY <3>1, <4>1, <4>2
    <3>2. CASE l # to
      <4>1. l \in DOMAIN prev /\ prev'[l] = prev[l]
        BY <1>7, <3>2, <2>4 DEF Put
      <4>2. l \in DOMAIN best /\ best'[l] = best[l]
        BY <1>1, <1>7, <3>2, <4>1 DEF Put, TypeOK
      <4> QED
        BY <2>2, <4>1, <4>2 DEF CostInv, WayCosts
    <3> QED
      BY <3>1, <3>2
  <2>5. WayCosts'
    BY <1>5, <2>4 DEF WayCosts
  <2> QED
    BY <1>1, <1>2, <2>3, <2>5 DEF CostInv
<1> HIDE DEF to, c
<1> QED
  BY <1>3, <1>6, <1>7

LEMMA CostWalkBackStep == ASSUME Inv, CostInv, WalkBack PROVE CostInv'
<1>1. TypeOK /\ PrevInv /\ WalkInv /\ Inv' /\ pc = "walk"
  BY WalkBackStep DEF Inv, WalkBack
<1>2. UNCHANGED <<offer, candidates, start, end, best, prev, heap>>
  BY DEF WalkBack, inputs
<1>3. /\ \A s, l : Covers(s, l)' = Covers(s, l)
      /\ \A s : Reach(s)' = Reach(s)
      /\ \A s, l, m : StepCost(s, l, m)' = StepCost(s, l, m)
      /\ \A h : HopCost(h)' = HopCost(h)
      /\ Settled' = Settled
  BY <1>2 DEF Covers, Reach, StepCost, HopCost, Settled
<1>4. best'[start'] = 0 /\ WayCosts' /\ end' \in DOMAIN best' /\ Certified'
  BY <1>1, <1>2, <1>3 DEF CostInv, WayCosts, Certified
<1>5. IsFiniteSet(hops) /\ SumOver(Weights, hops) + best[layer] = best[end]
  BY <1>1 DEF CostInv
<1>6. CASE layer = start
  <2>1. UNCHANGED <<layer, hops>>
    BY <1>6 DEF WalkBack
  <2>2. Weights' = Weights
    BY <1>3, <2>1 DEF Weights
  <2> QED
    BY <1>2, <1>4, <1>5, <2>1, <2>2 DEF CostInv
<1>7. CASE layer # start
  <2> DEFINE h == [peer |-> Peer(prev[layer].server), start |-> prev[layer].from, end |-> layer]
             from == prev[layer].from
  <2>1. hops' = hops \cup {h} /\ layer' = from
    BY <1>7 DEF WalkBack
  <2>2. layer \in DOMAIN prev
    BY <1>1, <1>7 DEF TypeOK
  <2>3. best[layer] = best[from] + HopCost(h) /\ from < layer
    <3>1. Peer(prev[layer].server).addr = prev[layer].server
      BY DEF Peer
    <3> QED
      BY <1>1, <2>2, <3>1 DEF CostInv, WayCosts, PrevInv, HopCost
  <2>4. h \in Possible /\ h.start = from
    BY <1>1, <2>2, WayIsPossible
  <2>5. /\ hops \subseteq Possible
        /\ \A g \in hops : layer <= g.start /\ g.start \in Nat /\ HopCost(g) \in Nat
    BY <1>1, HopIsOffered DEF WalkInv, Decoder!IsChain
  <2>6. HopCost(h) \in Nat /\ from \in Nat /\ layer \in Nat
    BY <1>1, <2>4, HopIsOffered, SearchTypes
  <2> HIDE DEF h, from
  <2>7. h \notin hops
    BY <2>3, <2>4, <2>5, <2>6
  <2>8. IsFiniteSet(hops')
    BY <1>5, <2>1, FS_AddElement
  <2>9. \A g \in hops' : Weights'[g] = HopCost(g) /\ Weights'[g] \in Nat
    BY <1>3, <2>1, <2>5, <2>6 DEF Weights
  <2>10. SumOver(Weights', hops') = HopCost(h) + SumOver(Weights', hops' \ {h})
    BY <2>1, <2>8, <2>9, SumOfAdded
  <2>11. hops' \ {h} = hops
    BY <2>1, <2>7
  <2>12. SumOver(Weights', hops) = SumOver(Weights, hops)
    <3>1. \A g \in hops : Weights'[g] = Weights[g]
      BY <2>1, <2>9 DEF Weights
    <3> QED
      BY <3>1, SumsEqual
  <2>13. SumOver(Weights, hops) \in Nat /\ best[from] \in Nat
    <3>1. \A g \in hops : Weights[g] \in Nat
      BY <2>5 DEF Weights
    <3>2. from \in DOMAIN best
      BY <1>1, <2>2 DEF PrevInv, from
    <3> QED
      BY <1>1, <1>5, <3>1, <3>2, SumIsNatural, SearchTypes
  <2>14. SumOver(Weights', hops') + best[from] = best[end]
    <3>1. SumOver(Weights', hops') = HopCost(h) + SumOver(Weights, hops)
      BY <2>10, <2>11, <2>12
    <3> DEFINE sum == SumOver(Weights, hops)
    <3>2. sum \in Nat /\ sum + best[layer] = best[end]
      BY <1>5, <2>13
    <3> HIDE DEF sum
    <3>3. (HopCost(h) + sum) + best[from] = sum + (best[from] + HopCost(h))
      BY <2>6, <2>13, <3>2
    <3>4. SumOver(Weights', hops') = HopCost(h) + sum
      BY <3>1 DEF sum
    <3> QED
      BY <2>3, <3>2, <3>3, <3>4
  <2> QED
    BY <1>2, <1>4, <2>1, <2>8, <2>14 DEF CostInv
<1> QED
  BY <1>6, <1>7

LEMMA CostInvStep == Inv /\ CostInv /\ [Next]_vars => CostInv'
<1> SUFFICES ASSUME Inv, CostInv, [Next]_vars PROVE CostInv'
  OBVIOUS
<1>1. ASSUME NEW p \in heap, Pop(p) PROVE CostInv'
  BY <1>1, CostPopStep
<1>2. ASSUME NEW s \in todo, Relax(s) PROVE CostInv'
  BY <1>2, CostRelaxStep
<1>3. CASE WalkBack
  BY <1>3, CostWalkBackStep
<1>4. CASE NoRoute \/ UNCHANGED vars
  <2>1. /\ UNCHANGED <<offer, candidates, start, end, best, prev, heap, layer, hops>>
        /\ pc' = pc \/ pc' = "no route"
    BY <1>4 DEF NoRoute, vars, inputs
  <2>2. /\ \A s, l : Covers(s, l)' = Covers(s, l)
        /\ \A s : Reach(s)' = Reach(s)
        /\ \A s, l, m : StepCost(s, l, m)' = StepCost(s, l, m)
        /\ \A h : HopCost(h)' = HopCost(h)
        /\ Settled' = Settled
    BY <2>1 DEF Covers, Reach, StepCost, HopCost, Settled
  <2>3. best'[start'] = 0 /\ WayCosts'
    BY <2>1, <2>2 DEF CostInv, WayCosts
  <2>4. CASE pc' = pc
    <3>1. Weights' = Weights
      BY <2>1, <2>2 DEF Weights
    <3>2. Certified' <=> Certified
      BY <2>1, <2>2 DEF Certified
    <3> QED
      BY <2>1, <2>3, <2>4, <3>1, <3>2 DEF CostInv
  <2>5. CASE pc' = "no route"
    BY <2>3, <2>5 DEF CostInv
  <2> QED
    BY <2>1, <2>4, <2>5
<1> QED
  BY <1>1, <1>2, <1>3, <1>4 DEF Next

LEMMA CostInvariant == Spec => [](Inv /\ CostInv)
<1>1. Init => CostInv
  <2> SUFFICES ASSUME Init PROVE CostInv
    OBVIOUS
  <2>1. pc = "search" /\ best = [l \in {start} |-> 0] /\ prev = << >>
    BY DEF Init
  <2> QED
    BY <2>1 DEF CostInv, WayCosts
<1> QED
  BY InvInit, InvStep, <1>1, CostInvStep, PTL DEF Spec

(***************************************************************************)
(* A chain from start to end costs no less than what was found: along its  *)
(* hops, its cost so far is at least that of the boundary where it stands, *)
(* or of the end.                                                          *)
(***************************************************************************)
LEMMA EveryRouteCosts ==
  ASSUME Inv, CostInv, pc \in {"walk", "done"}, NEW r \in Decoder!Routes(Listed, start, end)
  PROVE  best[end] <= RouteCost(r)
<1> DEFINE w == [h \in r |-> HopCost(h)]
           upto(l) == {h \in r : h.end <= l}
           sum(l) == SumOver(w, upto(l))
           Above(l) == best[end] <= sum(l) \/ (l \in DOMAIN best /\ best[l] <= sum(l))
<1>1. TypeOK /\ best[start] = 0 /\ start \in DOMAIN best /\ end \in DOMAIN best /\ Certified
  BY DEF Inv, CostInv, TypeOK
<1>2. start \in Nat /\ end \in Nat /\ start < end /\ \A l \in DOMAIN best : best[l] \in Nat
  BY <1>1, RangeType, SearchTypes
<1>3. r \subseteq Possible /\ Decoder!IsChain(r, start, end)
  BY DEF Decoder!Routes, Possible
<1>4. \A h \in r : /\ h.start \in Nat /\ h.end \in Nat /\ HopCost(h) \in Nat
                  /\ h.peer.addr \in candidates
                  /\ Covers(h.peer.addr, h.start) /\ h.end = Reach(h.peer.addr)
                  /\ HopCost(h) = StepCost(h.peer.addr, h.start, h.end)
  BY <1>1, <1>3, HopIsOffered
<1>5. IsFiniteSet(r) /\ \A h \in r : w[h] = HopCost(h) /\ w[h] \in Nat
  BY <1>2, <1>3, <1>4, ChainIsFinite
<1> HIDE DEF w
<1>6. ASSUME NEW l PROVE IsFiniteSet(upto(l)) /\ sum(l) \in Nat
  <2>1. IsFiniteSet(upto(l))
    BY <1>5, FS_Subset
  <2>2. \A h \in upto(l) : w[h] \in Nat
    BY <1>5
  <2> QED
    BY <2>1, <2>2, SumIsNatural
<1>7. Above(start)
  <2>1. 0 <= sum(start)
    BY <1>6
  <2> QED
    BY <1>1, <2>1
<1>8. ASSUME NEW h \in r, Above(h.start) PROVE Above(h.end)
  <2>1. upto(h.start) = upto(h.end) \ {h} /\ h \in upto(h.end)
    <3>1. upto(h.start) = upto(h.end) \ {h}
      BY <1>2, <1>3, <1>4, HopsUpTo
    <3>2. h.end <= h.end
      BY <1>4
    <3> QED
      BY <3>1, <3>2
  <2>2. \A g \in upto(h.end) : w[g] \in Nat
    BY <1>5
  <2>3. sum(h.end) = HopCost(h) + sum(h.start)
    <3> HIDE DEF upto
    <3>1. SumOver(w, upto(h.end)) = w[h] + SumOver(w, upto(h.end) \ {h})
      BY <1>6, <2>1, <2>2, SumOfAdded
    <3> QED
      BY <1>5, <2>1, <3>1
  <2>4. sum(h.start) \in Nat /\ sum(h.end) \in Nat /\ HopCost(h) \in Nat
    BY <1>4, <1>6
  <2> HIDE DEF sum
  <2>5. CASE best[end] <= sum(h.start)
    BY <1>1, <1>2, <2>3, <2>4, <2>5
  <2>6. CASE ~(best[end] <= sum(h.start))
    <3>1. h.start \in DOMAIN best /\ best[h.start] <= sum(h.start)
      BY <1>8, <2>6
    <3>2. best[h.start] < best[end]
      BY <1>1, <1>2, <2>4, <2>6, <3>1
    <3>3. h.end \in DOMAIN best /\ best[h.end] <= best[h.start] + HopCost(h)
      BY <1>1, <1>4, <3>1, <3>2 DEF Certified
    <3>4. best[h.end] <= sum(h.end)
      BY <1>2, <2>3, <2>4, <3>1, <3>3
    <3> QED
      BY <3>3, <3>4
  <2> QED
    BY <2>5, <2>6
<1> HIDE DEF Above
<1> DEFINE low == {h \in r : ~Above(h.end)}
           entries == {h.start : h \in low}
<1>9. low = {}
  <2> SUFFICES ASSUME low # {} PROVE FALSE
    OBVIOUS
  <2>1. PICK h \in low : \A g \in low : h.start <= g.start
    <3>1. entries \subseteq Nat /\ entries # {}
      BY <1>4
    <3> HIDE DEF entries
    <3>2. PICK x \in entries : \A y \in entries : x <= y
      BY <3>1, SmallestOf
    <3> QED
      BY <3>2 DEF entries
  <2>2. h \in r /\ ~Above(h.start)
    BY <1>8, <2>1
  <2>3. h.start # start
    BY <1>7, <2>2
  <2>4. PICK g \in r : g.end = h.start /\ g.start < h.start
    BY <1>2, <1>3, <1>4, <2>2, <2>3, HopBefore
  <2>5. g \in low
    BY <2>2, <2>4
  <2> QED
    BY <1>4, <2>1, <2>2, <2>4, <2>5
<1>10. PICK h \in r : h.end = end
  <2>1. PICK h \in r : Decoder!Serves(h, end - 1)
    BY <1>2, <1>3 DEF Decoder!IsChain
  <2> QED
    BY <1>2, <1>3, <1>4, <2>1 DEF Decoder!IsChain, Decoder!Serves
<1>11. Above(end)
  BY <1>9, <1>10
<1>12. best[end] <= sum(end)
  BY <1>11 DEF Above
<1>13. upto(end) = r
  BY <1>3 DEF Decoder!IsChain
<1>14. RouteCost(r) = SumOver(w, r)
  BY <1>5, RouteCostIsSum
<1> QED
  BY <1>12, <1>13, <1>14

(***************************************************************************)
(* The route that find_route returns costs no more than any other chain of *)
(* the candidates over the range, whatever their spans, round-trip times   *)
(* and throughputs (find_route: "Dijkstra over layer boundaries").         *)
(***************************************************************************)
THEOREM RouteIsCheapest == Spec => []FindsCheapest
<1>1. ASSUME Inv, CostInv, pc = "done", NEW r \in Decoder!Routes(Listed, start, end)
      PROVE  RouteCost(hops) <= RouteCost(r)
  <2>1. best[end] <= RouteCost(r)
    BY <1>1, EveryRouteCosts
  <2>2. /\ SumOver(Weights, hops) + best[layer] = best[end]
        /\ layer = start /\ best[start] = 0
        /\ IsFiniteSet(hops) /\ hops \subseteq Possible
    BY <1>1 DEF Inv, CostInv, WalkInv
  <2>3. \A h \in hops : Weights[h] = HopCost(h) /\ Weights[h] \in Nat
    BY <1>1, <2>2, HopIsOffered DEF Inv, Weights
  <2>4. SumOver(Weights, hops) \in Nat
    BY <2>2, <2>3, SumIsNatural
  <2>5. RouteCost(hops) = SumOver(Weights, hops)
    BY <2>3, RouteCostIsSum
  <2>6. RouteCost(hops) = best[end]
    BY <2>2, <2>4, <2>5
  <2> QED
    BY <2>1, <2>6
<1>2. Inv /\ CostInv => FindsCheapest
  BY <1>1 DEF FindsCheapest
<1> QED
  BY CostInvariant, <1>2, PTL

=============================================================================
