-------------------------- MODULE SessionInvariant --------------------------
(***************************************************************************)
(* The inductive invariant behind the safety properties of a generation.   *)
(* Plumbing says how route, plan, requests and session ids hang together   *)
(* and holds whatever servers do.  Contents says what histories, caches    *)
(* and tensors hold, and needs what the code relies on without checking    *)
(* it: that a worker keeps a session for as long as the client uses it.    *)
(***************************************************************************)
EXTENDS SessionProperties

\* No server is restarted at the same address, no session in use looks idle.
SessionsKept == MaxInc = 1 /\ ~LongIdle

Calling == pc \in {"await", "awaitReplay"}
Replaying == pc \in {"replay", "awaitReplay"}
InStep == pc \in {"forward", "await"} \/ Recovering
Ended == pc \in {"closing", "closed"}

-----------------------------------------------------------------------------
(***************************************************************************)
(* The route tiles the decoder, the plan tiles the hop it replaces, and    *)
(* the client is always at the entry of some hop of each.                  *)
(***************************************************************************)
RouteInv ==
  /\ route = {} \/ IsChain(route, 0, NumLayers)
  /\ InStep => \E hop \in route : hop.start = at
  /\ pc = "plan" => at = 0 /\ route = {}

PlanInv ==
  IF Replaying
  THEN /\ \E hop \in route : hop.start = at /\ IsChain(plan, hop.start, hop.end)
       /\ \E hop \in plan : hop.start = rat
  ELSE plan = {}

\* r is the request for hop that is on its way.
Asks(r, hop) ==
  /\ r.addr = hop.peer.addr /\ r.sid = hop.sid
  /\ r.start = hop.start /\ r.end = hop.end
  /\ r.x = IF pc = "await" THEN hidden ELSE x

\* The client waits for one call at most, and for the hop it is at.
CallInv ==
  /\ \A r \in rpcs : r.live => Calling /\ \E hop \in route \cup plan : Hop(hop) /\ Asks(r, hop)
  /\ \A r, s \in rpcs : r.live /\ s.live => r = s

\* sid was drawn for a hop entering at l.
Drawn(sid, l) == sid[1] < gen /\ sid[2] = l

SidInv ==
  /\ \A hop \in route \cup plan : Drawn(hop.sid, hop.start)
  /\ \A r \in rpcs : Drawn(r.sid, r.start)
  /\ \A a \in Addrs : \A key \in DOMAIN sessions[a] : Drawn(key[1], key[2])
  /\ \A p \in plan, h \in route : p.sid # h.sid

\* Nothing was ever sent to hop.
Untouched(hop) ==
  /\ \A r \in rpcs : r.sid # hop.sid
  /\ \A a \in Addrs : HopKey(hop) \notin DOMAIN sessions[a]

\* The plan has not reached hop.
Ahead(hop) == hop.start > rat \/ (pc = "replay" /\ hop.start = rat)

(***************************************************************************)
(* A request the client gave up on has a session id of its own: of the     *)
(* hops still to be used, only the one being replaced may share it.        *)
(***************************************************************************)
Fenced ==
  \A r \in rpcs : ~r.live /\ ~Ended =>
    \A hop \in route \cup plan :
      hop.sid = r.sid => Recovering /\ hop \in route /\ hop.start = at

PlanUntouched == \A hop \in plan : Ahead(hop) => Untouched(hop)

FenceInv == Fenced /\ CachesNotShared /\ PlanUntouched

Plumbing == TypeOK /\ RouteInv /\ PlanInv /\ CallInv /\ SidInv /\ FenceInv

-----------------------------------------------------------------------------
Remembered(a, key) ==
  \E hop \in opened \cup missed : HopKey(hop) = key /\ hop.peer.addr = a

Failed(a) == \E p \in exclude : p.addr = a

(***************************************************************************)
(* What a worker holds for the client is on the client's list, or a call   *)
(* to that worker failed; only such a worker may still be busy with a      *)
(* request the client gave up on, and fill a session again after close().  *)
(***************************************************************************)
Accounts ==
  /\ ~Ended => route \cup plan \subseteq opened
  /\ \A r \in rpcs : ~r.live => Failed(r.addr)
  /\ SessionsAccountedFor

-----------------------------------------------------------------------------
\* The first position of the step in progress.
Base == IF steps = 0 THEN 0 ELSE past - 1

(***************************************************************************)
(* The caller has submitted the prompt and one token for every step since; *)
(* what the last step returned ends where the step in progress begins.     *)
(***************************************************************************)
CallerInv ==
  /\ steps > 0 => route # {}
  /\ IF pc = "idle" /\ steps = 0
     THEN past = 0 /\ at = 0 /\ route = {} /\ output = Empty(NumLayers)
     ELSE past = IF pc = "idle" THEN PromptLen + steps - 1 ELSE PromptLen + steps
  /\ pc = "idle" /\ steps > 0 =>
       at = NumLayers /\ output = Block(NumLayers, IF steps = 1 THEN 0 ELSE past - 1, past)
  /\ pc # "idle" => output.hi = Base

\* The tensors that enter the hop of the step and of the replay are exact.
TensorInv ==
  /\ pc # "idle" => hidden = Block(at, Base, past)
  /\ Replaying => x = Block(rat, 0, Base)

(***************************************************************************)
(* A hop behind the client has seen the step in progress, a hop ahead of   *)
(* it has seen all before; in the first step nothing ahead is remembered.  *)
(***************************************************************************)
Seen(hop) == Block(hop.start, 0, IF hop.start < at THEN past ELSE Base)

HistoryInv ==
  /\ \A hop \in route : history[hop.start] = Seen(hop)
  /\ \A hop \in plan :
       hop.start < rat => history[hop.start] = Block(hop.start, 0, Base)
  /\ steps = 0 => \A l \in Layers : l >= at => history[l] = Empty(l)

\* The session a worker holds for hop after it absorbed b.
Session(hop, b) == [end |-> hop.end, kv |-> b, length |-> b.hi]

Table(hop) == sessions[hop.peer.addr]

Holds(hop, b) ==
  HopKey(hop) \in DOMAIN Table(hop) /\ Table(hop)[HopKey(hop)] = Session(hop, b)

\* hop has absorbed b, unless its server is gone.
Absorbed(hop, b) ==
  up[hop.peer.addr] =>
    \/ Holds(hop, b)
    \/ HopKey(hop) \notin DOMAIN Table(hop) /\ b = Empty(hop.start)

\* How far the call r to hop has come, of the input t after the prefix b.
Called(r, hop, b, t) ==
  /\ r.st = "sent" => Absorbed(hop, b)
  /\ r.st = "running" => Holds(hop, b) /\ r.past = b.hi
  /\ r.st = "done" => /\ Holds(hop, Block(hop.start, 0, t.hi))
                      /\ r.out = Block(hop.end, t.lo, t.hi)

\* The hops of the route that are not being called.
Settled(hop) == hop.start # at \/ pc \in {"idle", "forward"}

SettledInv ==
  /\ \A hop \in route : Settled(hop) => Absorbed(hop, history[hop.start])
  /\ \A hop \in plan : hop.start < rat => Absorbed(hop, history[hop.start])

CalledInv ==
  /\ Calling => \E r \in rpcs : r.live
  /\ \A r \in rpcs : r.live =>
       /\ \A hop \in route :
            pc = "await" /\ hop.start = at => Called(r, hop, history[at], hidden)
       /\ \A hop \in plan :
            pc = "awaitReplay" /\ hop.start = rat => Called(r, hop, Empty(rat), x)

\* The peers the client knows of have been started.
PeersInv ==
  /\ \A p \in listed : inc[p.addr] > 0
  /\ \A hop \in route \cup plan : inc[hop.peer.addr] > 0

Contents ==
  ~Ended =>
    CallerInv /\ TensorInv /\ HistoryInv /\ SettledInv /\ CalledInv /\ PeersInv

Invariant == Plumbing /\ (SessionsKept => Contents)

-----------------------------------------------------------------------------
(***************************************************************************)
(* When the failure budget cannot run out: servers that never fail cover   *)
(* the decoder, every other may fail at each layer it serves, and the      *)
(* reliable ones have room for one session of every plan.                  *)
(***************************************************************************)
FailurePoints ==
  {point \in [addr : Addrs \ Reliable, inc : 1 .. MaxInc] \X Layers :
     Serves(SpanOf[point[1].addr], point[2])}

Enough ==
  /\ Reliable \subseteq Founders
  /\ \A l \in Layers : \E a \in Reliable : Serves(SpanOf[a], l)
  /\ IsFiniteSet(FailurePoints) /\ Cardinality(FailurePoints) <= MaxFailures
  /\ \A a \in Reliable : MaxFailures + MaxLoad[a] < MaxSessions

\* The reliable servers run, are listed and never failed.
Steady ==
  /\ \A a \in Reliable : up[a] /\ inc[a] = 1 /\ CurrentPeer(a) \in listed
  /\ \A p \in listed : p.inc <= inc[p.addr]
  /\ \A p \in exclude : p.addr \notin Reliable
  /\ \A a \in Addrs : load[a] <= MaxLoad[a]

\* A plan opens one session at a server at most.
OpenedInv ==
  /\ \A hop \in opened :
       /\ Drawn(hop.sid, hop.start)
       /\ hop.peer.inc <= inc[hop.peer.addr]
       /\ Serves(SpanOf[hop.peer.addr], hop.start)
  /\ \A g, h \in opened : g.peer.addr = h.peer.addr /\ g.sid[1] = h.sid[1] => g = h

Names(hop, a, sid, start, end) ==
  hop.peer.addr = a /\ hop.sid = sid /\ hop.start = start /\ hop.end = end

\* Requests and sessions are those of a plan, and no reliable server refuses.
ServedInv ==
  /\ \A r \in rpcs : \E hop \in opened : Names(hop, r.addr, r.sid, r.start, r.end)
  /\ \A a \in Addrs : \A key \in DOMAIN sessions[a] :
       \E hop \in opened : Names(hop, a, key[1], key[2], sessions[a][key].end)
  /\ \A r \in rpcs : r.addr \in Reliable => r.st \notin {"refused", "lost"}

\* A hop of a server that has failed at another: it may fail here as well.
Suspect(hop) == hop.peer \in exclude /\ ~(Recovering /\ hop.start = at)

(***************************************************************************)
(* No server fails twice at a layer: it is not planned for again, and the  *)
(* hop at which it failed leaves the route.                                *)
(***************************************************************************)
BudgetInv ==
  /\ gen <= IF route = {} \/ pc = "recover" THEN failures ELSE failures + 1
  /\ \A hop \in plan : hop.peer \notin exclude
  /\ \E points \in SUBSET FailurePoints :
       /\ Cardinality(points) = failures
       /\ \A point \in points : point[1] \in exclude
       /\ \A hop \in route : Suspect(hop) => <<hop.peer, hop.start>> \notin points

Surviving == Steady /\ (~Ended => OpenedInv /\ ServedInv /\ BudgetInv)

=============================================================================
