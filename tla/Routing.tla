------------------------------ MODULE Routing ------------------------------
(***************************************************************************)
(* Routes over the decoder (dvlm/routing.py).  find_route returns a list   *)
(* of hops, each entering where the one before it ends.  The list order is *)
(* the order of the entry layers, so a route is kept as the SET of its     *)
(* hops, and "the next hop" is the one whose start is the current layer.   *)
(* Throughputs are measured on the peers and may be anything, so any chain *)
(* find_route could rank first is a possible result.                       *)
(***************************************************************************)
EXTENDS Activations, FiniteSets

CONSTANTS
  Addrs,    \* host:port at which a span server can run
  SpanOf    \* SpanOf[a] : the layers [start, end) the server at a serves

SpanAssumption ==
  \A a \in Addrs : /\ SpanOf[a].start \in Layers
                   /\ SpanOf[a].end \in Boundaries
                   /\ SpanOf[a].start < SpanOf[a].end

ASSUME SpansAreValid == SpanAssumption

\* Every Server process draws a fresh peer_id; inc counts the processes
\* that have run at one address.
Peers == [addr : Addrs, inc : Nat \ {0}]

\* The Hop dataclass.
Hops == [peer : Peers, start : Layers, end : Boundaries]

Capped(e, end) == IF e < end THEN e ELSE end

Serves(h, l) == h.start <= l /\ l < h.end

(***************************************************************************)
(* The hops find_route considers over [start, end): any peer that covers   *)
(* the entry layer, run to the end of its span or to `end'.                *)
(***************************************************************************)
HopsWithin(peers, start, end) ==
  {h \in [peer : peers, start : start .. end - 1, end : Boundaries] :
     /\ Serves(SpanOf[h.peer.addr], h.start)
     /\ h.end = Capped(SpanOf[h.peer.addr].end, end)}

(***************************************************************************)
(* A set of hops is a chain over [start, end) when it tiles the layers:    *)
(* every layer is computed by exactly one hop, and no hop leaves the range.*)
(***************************************************************************)
IsChain(hops, start, end) ==
  /\ \A h \in hops : start <= h.start /\ h.start < h.end /\ h.end <= end
  /\ \A l \in start .. end - 1 : \E h \in hops : Serves(h, l)
  /\ \A l \in start .. end - 1 : \A g, h \in hops :
       Serves(g, l) /\ Serves(h, l) => g = h

Routes(peers, start, end) ==
  {r \in SUBSET HopsWithin(peers, start, end) : IsChain(r, start, end)}

============================================================================
