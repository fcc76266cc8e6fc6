---------------------------- MODULE ContentProofs ----------------------------
(***************************************************************************)
(* Contents is inductive relative to Plumbing as long as workers keep the  *)
(* sessions in use (SessionsKept): every tensor, history and cache of a    *)
(* generation is exact, and the session implements the decoder of one      *)
(* process.                                                                *)
(***************************************************************************)
EXTENDS SessionProofs

-----------------------------------------------------------------------------
(***************************************************************************)
(* What the layers make of exact tensors.                                  *)
(***************************************************************************)
LEMMA CatExact ==
  ASSUME NEW l, NEW m \in Nat, NEW n \in Nat
  PROVE  Cat(Block(l, 0, m), Block(l, m, n)) = Block(l, 0, n)
<1>1. m + (n - m) = n
  OBVIOUS
<1> QED
  BY <1>1 DEF Cat, Block, Width

LEMMA ForwardedExact ==
  ASSUME NEW l, NEW m \in Nat, NEW n \in Nat, NEW e
  PROVE  Forwarded(Block(l, 0, m), m, Block(l, m, n), e) = Block(e, m, n)
<1> DEFINE good == Cat(Block(l, 0, m), Block(l, m, n)).ok /\ m = Block(l, 0, m).hi
<1>1. good = TRUE
  BY DEF Cat, Block
<1>2. Forwarded(Block(l, 0, m), m, Block(l, m, n), e)
        = [layer |-> e, lo |-> m, hi |-> n, ok |-> good]
  BY DEF Forwarded, Block
<1> HIDE DEF good
<1> QED
  BY <1>1, <1>2 DEF Block

LEMMA AbsorbExact ==
  ASSUME NEW hop, NEW l, NEW m \in Nat, NEW n \in Nat
  PROVE  Absorb(Session(hop, Block(l, 0, m)), Block(l, m, n))
           = Session(hop, Block(l, 0, n))
<1>1. m + (n - m) = n
  OBVIOUS
<1>2. Cat(Block(l, 0, m), Block(l, m, n)) = Block(l, 0, n)
  BY CatExact
<1>3. Width(Block(l, m, n)) = n - m /\ Block(l, 0, m).hi = m /\ Block(l, 0, n).hi = n
  BY DEF Width, Block
<1> QED
  BY <1>1, <1>2, <1>3 DEF Absorb, Session

-----------------------------------------------------------------------------
(***************************************************************************)
(* What the steps of a server leave alone.                                 *)
(***************************************************************************)
\* The server of hop has the session for it, or has none, as before.
Undisturbed(hop) ==
  /\ HopKey(hop) \in DOMAIN Table(hop)' <=> HopKey(hop) \in DOMAIN Table(hop)
  /\ HopKey(hop) \in DOMAIN Table(hop) =>
       Table(hop)'[HopKey(hop)] = Table(hop)[HopKey(hop)]

LEMMA HoldsKept ==
  ASSUME NEW hop, Undisturbed(hop), NEW b, Holds(hop, b) PROVE Holds(hop, b)'
  BY DEF Undisturbed, Holds, Table

LEMMA AbsorbedKept ==
  ASSUME NEW hop, Undisturbed(hop), up'[hop.peer.addr] => up[hop.peer.addr],
         NEW b, Absorbed(hop, b)
  PROVE  Absorbed(hop, b)'
  BY DEF Undisturbed, Absorbed, Holds, Table

LEMMA CalledKept ==
  ASSUME NEW hop, Undisturbed(hop), up'[hop.peer.addr] => up[hop.peer.addr],
         NEW r, NEW b, NEW t, Called(r, hop, b, t)
  PROVE  Called(r, hop, b, t)'
<1>1. \A c : Holds(hop, c) => Holds(hop, c)'
  BY HoldsKept
<1>2. \A c : Absorbed(hop, c) => Absorbed(hop, c)'
  BY AbsorbedKept
<1> QED
  BY <1>1, <1>2 DEF Called

\* Only the table of one server changes, and not at the key of hop.
LEMMA ElsewhereUndisturbed ==
  ASSUME TypeOK, NEW hop \in Assigned, NEW a \in Addrs, NEW t,
         sessions' = [sessions EXCEPT ![a] = t],
         HopKey(hop) \in DOMAIN t <=> HopKey(hop) \in DOMAIN sessions[a],
         HopKey(hop) \in DOMAIN sessions[a] => t[HopKey(hop)] = sessions[a][HopKey(hop)]
  PROVE  Undisturbed(hop)
<1>1. hop.peer.addr \in Addrs
  BY DEF Assigned, Peers
<1>2. \A b \in Addrs : sessions'[b] = IF b = a THEN t ELSE sessions[b]
  BY DEF TypeOK, ServersTypeOK
<1> QED
  BY <1>1, <1>2 DEF Undisturbed, Table

LEMMA WithElsewhere ==
  ASSUME NEW t, NEW k, NEW s, NEW key, key # k
  PROVE  /\ key \in DOMAIN With(t, k, s) <=> key \in DOMAIN t
         /\ key \in DOMAIN t => With(t, k, s)[key] = t[key]
  BY DEF With

LEMMA WithoutElsewhere ==
  ASSUME NEW t, NEW keys, NEW key, key \notin keys
  PROVE  /\ key \in DOMAIN Without(t, keys) <=> key \in DOMAIN t
         /\ key \in DOMAIN t => Without(t, keys)[key] = t[key]
  BY DEF Without

\* A session in use never looks idle.
LEMMA InUseNotIdle ==
  ASSUME ~LongIdle, NEW hop \in route \cup plan, NEW a PROVE HopKey(hop) \notin Idle(a)
  BY DEF Idle, InUse

\* The handler of a request leaves the sessions of other session ids alone.
LEMMA RequestUndisturbed ==
  ASSUME TypeOK, ~LongIdle, NEW hop \in route \cup plan, NEW q \in rpcs, q.sid # hop.sid,
         ForwardKnown(q) \/ ForwardNew(q, Idle(q.addr)) \/ ForwardDone(q)
         \/ ForwardDoneOrphan(q) \/ ForwardCancelled(q)
  PROVE  Undisturbed(hop)
<1> DEFINE key == HopKey(hop)
           table == sessions[q.addr]
<1>1. hop \in Assigned /\ q.addr \in Addrs /\ key # Key(q)
  BY Shapes DEF TypeOK, ServersTypeOK, Rpcs, HopKey, Key
<1>2. CASE UNCHANGED sessions
  BY <1>2 DEF Undisturbed, Table
<1>3. ASSUME NEW s, sessions' = [sessions EXCEPT ![q.addr] = With(table, Key(q), s)]
      PROVE  Undisturbed(hop)
  BY <1>1, <1>3, WithElsewhere, ElsewhereUndisturbed
<1>4. CASE ForwardKnown(q) \/ ForwardDoneOrphan(q)
  BY <1>2, <1>4 DEF ForwardKnown, ForwardDoneOrphan
<1>5. CASE ForwardNew(q, Idle(q.addr))
  <2>1. PICK gone \in (SUBSET Idle(q.addr)) \cup {{}} :
          \/ sessions' = [sessions EXCEPT ![q.addr] = Without(table, gone)]
          \/ sessions' = [sessions EXCEPT ![q.addr] =
               With(Without(table, gone), Key(q),
                    [end |-> q.end, kv |-> Empty(q.start), length |-> 0])]
    BY <1>5 DEF ForwardNew, MakeRoom
  <2> DEFINE kept == Without(table, gone)
             s == [end |-> q.end, kv |-> Empty(q.start), length |-> 0]
  <2>2. /\ key \in DOMAIN kept <=> key \in DOMAIN table
        /\ key \in DOMAIN table => kept[key] = table[key]
    BY <2>1, InUseNotIdle, WithoutElsewhere
  <2>3. /\ key \in DOMAIN With(kept, Key(q), s) <=> key \in DOMAIN kept
        /\ key \in DOMAIN kept => With(kept, Key(q), s)[key] = kept[key]
    BY <1>1, WithElsewhere
  <2>4. \/ sessions' = [sessions EXCEPT ![q.addr] = kept]
        \/ sessions' = [sessions EXCEPT ![q.addr] = With(kept, Key(q), s)]
    BY <2>1
  <2> HIDE DEF kept, s
  <2> QED
    BY <1>1, <2>2, <2>3, <2>4, ElsewhereUndisturbed
<1>6. CASE ForwardDone(q) \/ ForwardCancelled(q)
  <2>1. \/ UNCHANGED sessions
        \/ \E s : sessions' = [sessions EXCEPT ![q.addr] = With(table, Key(q), s)]
    BY <1>1, <1>6 DEF ForwardDone, ForwardCancelled, TypeOK, ServersTypeOK
  <2> QED
    BY <1>2, <1>3, <2>1
<1> QED
  BY <1>4, <1>5, <1>6

\* Nor do the other steps of a server, unless it goes down.
LEMMA HousekeepingUndisturbed ==
  ASSUME TypeOK, ~LongIdle, NEW hop \in route \cup plan, NEW a \in Addrs,
         Collect(a, Idle(a)) \/ OtherClients(a) \/ Crash(a) \/ Start(a)
  PROVE  Undisturbed(hop) \/ (Crash(a) /\ a = hop.peer.addr)
<1>1. hop \in Assigned /\ hop.peer.addr \in Addrs
  BY Shapes DEF Assigned, Peers
<1>2. CASE Collect(a, Idle(a))
  <2>1. PICK gone \in SUBSET Idle(a) :
          sessions' = [sessions EXCEPT ![a] = Without(sessions[a], gone)]
    BY <1>2 DEF Collect, TypeOK, ServersTypeOK
  <2> DEFINE kept == Without(sessions[a], gone)
  <2>2. HopKey(hop) \notin gone
    BY <2>1, InUseNotIdle
  <2>3. /\ HopKey(hop) \in DOMAIN kept <=> HopKey(hop) \in DOMAIN sessions[a]
        /\ HopKey(hop) \in DOMAIN sessions[a] =>
             kept[HopKey(hop)] = sessions[a][HopKey(hop)]
    BY <2>2, WithoutElsewhere
  <2> HIDE DEF kept
  <2> QED
    BY <1>1, <2>1, <2>3, ElsewhereUndisturbed DEF kept
<1>3. CASE Crash(a) /\ a # hop.peer.addr
  <2>1. Table(hop)' = Table(hop)
    BY <1>1, <1>3 DEF Crash, Table, TypeOK, ServersTypeOK
  <2> QED
    BY <2>1 DEF Undisturbed
<1>4. CASE OtherClients(a) \/ Start(a)
  BY <1>4 DEF OtherClients, Start, Undisturbed, Table
<1> QED
  BY <1>2, <1>3, <1>4

LEMMA ServerUndisturbed ==
  ASSUME TypeOK, ~LongIdle, ServerStep, NEW hop \in route \cup plan,
         \A q \in rpcs : q.sid # hop.sid
  PROVE  Undisturbed(hop) \/ ~up'[hop.peer.addr]
<1>1. ASSUME NEW a \in Addrs, Crash(a) PROVE ~up'[a]
  BY <1>1 DEF Crash, TypeOK, ServersTypeOK
<1> QED
  BY <1>1, RequestUndisturbed, HousekeepingUndisturbed DEF ServerStep

\* A server that is known to the client is not started again.
LEMMA NotRestarted ==
  ASSUME TypeOK, MaxInc = 1, ServerStep, NEW a \in Addrs, inc[a] > 0
  PROVE  up'[a] => up[a]
<1>1. ASSUME NEW b \in Addrs, Start(b) PROVE b # a
  BY <1>1 DEF Start, TypeOK, ServersTypeOK
<1>2. ASSUME NEW b \in Addrs, Start(b) PROVE up'[a] = up[a]
  BY <1>1, <1>2 DEF Start, TypeOK, ServersTypeOK
<1>3. ASSUME NEW b \in Addrs, Crash(b) PROVE up'[a] => up[a]
  BY <1>3 DEF Crash, TypeOK, ServersTypeOK
<1>4. CASE UNCHANGED up
  BY <1>4
<1> QED
  BY <1>2, <1>3, <1>4
  DEF ServerStep, ForwardKnown, ForwardNew, ForwardDone, ForwardDoneOrphan,
      ForwardCancelled, Collect, OtherClients

-----------------------------------------------------------------------------
(***************************************************************************)
(* Facts every step starts from.                                           *)
(***************************************************************************)
LEMMA Positions ==
  ASSUME TypeOK, CallerInv
  PROVE  /\ past \in Nat /\ steps \in Nat /\ Base \in Nat
         /\ PromptLen \in Nat \ {0}
         /\ pc # "idle" => Base < past
         /\ pc # "idle" /\ steps > 0 => Base > 0
  BY SessionParametersAreValid
  DEF TypeOK, ClientTypeOK, CallerInv, Base, InferenceSessionAssumption

\* A hop of the route is known by the layer it enters at.
LEMMA RouteUnique ==
  ASSUME Plumbing, NEW g \in route, NEW h \in route, g.start = h.start PROVE g = h
<1>1. IsChain(route, 0, NumLayers)
  BY DEF Plumbing, RouteInv
<1> QED
  BY <1>1, Shapes, ChainUnique DEF Plumbing

LEMMA PlanUnique ==
  ASSUME Plumbing, NEW g \in plan, NEW h \in plan, g.start = h.start PROVE g = h
<1>1. PICK hop \in route : IsChain(plan, hop.start, hop.end)
  BY DEF Plumbing, PlanInv
<1> QED
  BY <1>1, Shapes, ChainUnique DEF Plumbing, Bounded

\* The hops of a new plan have the same peers as the route find_route found,
\* and nothing was ever sent to them.
LEMMA PlannedFresh ==
  ASSUME Plumbing, NEW s \in Layers, NEW e \in Boundaries,
         NEW r \in Routes(listed \ exclude, s, e), NEW hop \in Assign(r, gen)
  PROVE  /\ Untouched(hop)
         /\ hop.peer \in listed
         /\ hop \in Assigned /\ s <= hop.start
<1>1. TypeOK /\ SidInv
  BY DEF Plumbing
<1>2. /\ listed \ exclude \in SUBSET Peers /\ gen \in Nat
      /\ Assign(r, gen) \subseteq Assigned
  BY <1>1, Shapes, PlannedType
<1>3. hop.sid = <<gen, hop.start>> /\ s <= hop.start
  <2>1. IsChain(Assign(r, gen), s, e) /\ hop.sid = <<gen, hop.start>>
    BY <1>2, PlannedChain
  <2> QED
    BY <2>1 DEF IsChain
<1>4. \A q \in rpcs : q.sid[1] # gen
  BY <1>1, <1>2 DEF SidInv, Drawn, TypeOK, ServersTypeOK, Rpcs, Sids
<1>5. \A a \in Addrs : \A key \in DOMAIN sessions[a] : key[1][1] # gen
  BY <1>1, <1>2 DEF SidInv, Drawn, TypeOK, ServersTypeOK, IsTable, Keys, Sids
<1>6. Untouched(hop)
  BY <1>3, <1>4, <1>5 DEF Untouched, HopKey
<1>7. hop.peer \in listed
  BY DEF Assign, Routes, HopsWithin
<1> QED
  BY <1>2, <1>3, <1>6, <1>7

\* A worker that never heard of a hop has absorbed nothing for it.
LEMMA UntouchedAbsorbed ==
  ASSUME NEW hop \in Assigned, Untouched(hop) PROVE Absorbed(hop, Empty(hop.start))
  BY DEF Untouched, Absorbed, Table, Assigned, Peers

(***************************************************************************)
(* A call that is answered: its hop has absorbed the input, and returned   *)
(* what its layers make of it.                                             *)
(***************************************************************************)
LEMMA Answered ==
  ASSUME Plumbing, CallerInv, TensorInv, CalledInv,
         NEW r \in rpcs, Awaited(r), r.st = "done"
  PROVE  /\ pc = "await" => \E hop \in route :
              /\ hop.start = at /\ hop.end = r.end
              /\ Holds(hop, Block(at, 0, past))
              /\ r.out = Block(r.end, Base, past)
         /\ pc = "awaitReplay" => \E hop \in plan :
              /\ hop.start = rat /\ hop.end = r.end
              /\ Holds(hop, Block(rat, 0, Base))
              /\ r.out = Block(r.end, 0, Base)
<1>1. CASE pc = "await"
  <2>1. PICK hop \in route : hop.start = at /\ Asks(r, hop)
    BY <1>1, AwaitedHop
  <2>2. Called(r, hop, history[at], hidden)
    BY <1>1, <2>1 DEF CalledInv, Awaited
  <2>3. hidden.lo = Base /\ hidden.hi = past
    BY <1>1 DEF TensorInv, Block
  <2> QED
    BY <1>1, <2>1, <2>2, <2>3 DEF Called, Asks
<1>2. CASE pc = "awaitReplay"
  <2>1. PICK hop \in plan : hop.start = rat /\ Asks(r, hop)
    BY <1>2, AwaitedHop
  <2>2. Called(r, hop, Empty(rat), x)
    BY <1>2, <2>1 DEF CalledInv, Awaited
  <2>3. x.lo = 0 /\ x.hi = Base
    BY <1>2 DEF TensorInv, Block, Replaying
  <2> QED
    BY <1>2, <2>1, <2>2, <2>3 DEF Called, Asks
<1> QED
  BY <1>1, <1>2

-----------------------------------------------------------------------------
(***************************************************************************)
(* Positions and tensors.                                                  *)
(***************************************************************************)
LEMMA CallerStep ==
  ASSUME Plumbing, CallerInv, TensorInv, HistoryInv, CalledInv, [Next]_vars, ~Ended'
  PROVE  CallerInv' /\ TensorInv'
<1>0. /\ TypeOK /\ RouteInv /\ PlanInv
      /\ past \in Nat /\ steps \in Nat /\ Base \in Nat /\ PromptLen \in Nat \ {0}
      /\ pc # "idle" => Base < past
  BY Positions DEF Plumbing
<1>1. ASSUME UNCHANGED <<at, hidden, rat, x, past, steps, output>>,
             pc # "idle", pc' # "idle", Replaying' => Replaying, route # {} => route' # {}
      PROVE  CallerInv' /\ TensorInv'
  BY <1>1 DEF CallerInv, TensorInv, Base
<1>2. CASE BeginStep
  <2>1. /\ pc = "idle" /\ pc' # "idle" /\ at' = 0 /\ UNCHANGED <<route, steps, output>>
        /\ past' = past + (IF steps = 0 THEN PromptLen ELSE 1)
        /\ hidden' = [Block(0, past, past') EXCEPT !.ok = output.ok]
        /\ ~Replaying'
    BY <1>2 DEF BeginStep, Replaying
  <2>2. output.ok = TRUE /\ output.hi = past
    BY <1>0, <2>1 DEF CallerInv, Block, Empty
  <2>3. hidden' = Block(0, past, past')
    BY <2>1, <2>2 DEF Block
  <2>4. Base' = past
    BY <1>0, <2>1 DEF Base, CallerInv
  <2> QED
    BY <1>0, <2>1, <2>2, <2>3, <2>4 DEF CallerInv, TensorInv
<1>3. CASE EndGenerate \/ NoRoute \/ RegistryFails \/ Closed
  BY <1>3 DEF EndGenerate, NoRoute, RegistryFails, Closed, Fail, Ended
<1>4. CASE PlanRoute
  <2>1. route = {}
    BY <1>0, <1>4 DEF PlanRoute, RouteInv
  <2> QED
    BY <1>1, <1>4, <2>1 DEF PlanRoute, Replaying, replayVars, callerVars
<1>5. ASSUME NEW hop \in route \cup plan, Recover(hop) PROVE CallerInv' /\ TensorInv'
  <2>1. /\ route' # {}
        /\ UNCHANGED <<at, hidden, past, steps, output>> /\ pc = "recover" /\ pc' # "idle"
    <3>1. RouteInv' /\ pc' \in {"forward", "replay"}
      BY <1>5, RouteStep DEF Recover
    <3> QED
      BY <1>5, <3>1 DEF Recover, RouteInv, InStep, Recovering, callerVars
  <2>2. Replaying' => rat' = at /\ x' = history[at]
    BY <1>5 DEF Recover, Replaying
  <2>3. history[at] = Block(at, 0, Base)
    BY <1>0, <1>5, Shapes DEF Recover, HistoryInv, Seen
  <2> QED
    BY <2>1, <2>2, <2>3 DEF CallerInv, TensorInv, Base
<1>6. ASSUME NEW hop \in opened, SkipClose(hop) \/ CloseHop(hop) PROVE FALSE
  BY <1>6 DEF SkipClose, CloseHop, Ended
<1>7. ASSUME NEW hop \in route \cup plan, Send(hop) PROVE CallerInv' /\ TensorInv'
  BY <1>1, <1>7 DEF Send, Hop, Replaying, stepVars, replayVars, callerVars
<1>8. ASSUME NEW hop \in route \cup plan, NEW r \in rpcs,
             CallFailed(r, hop) \/ CallAbandoned(r, hop)
      PROVE  CallerInv' /\ TensorInv'
  <2>1. pc' = "recover"
    BY <1>8 DEF CallFailed, CallAbandoned, RecordFailure, Fail, Ended
  <2> QED
    BY <1>1, <1>8, <2>1
    DEF CallFailed, CallAbandoned, RecordFailure, Awaited, Replaying, stepVars, callerVars
<1>9. ASSUME NEW hop \in route \cup plan, NEW r \in rpcs, ReplayDone(r, hop)
      PROVE  CallerInv' /\ TensorInv'
  <2>1. r.out = Block(r.end, 0, Base)
    BY <1>9, Answered DEF ReplayDone
  <2>2. /\ x' = r.out /\ rat' = r.end /\ pc = "awaitReplay" /\ pc' # "idle"
        /\ UNCHANGED <<at, hidden, past, steps, output>>
    BY <1>9 DEF ReplayDone, callerVars
  <2>3. route' # {}
    <3>1. RouteInv' /\ pc' \in {"forward", "replay"}
      BY <1>9, RouteStep DEF ReplayDone
    <3> QED
      BY <3>1 DEF RouteInv, InStep, Recovering
  <2> QED
    BY <2>1, <2>2, <2>3 DEF CallerInv, TensorInv, Base
<1>10. ASSUME NEW r \in rpcs, HopDone(r) PROVE CallerInv' /\ TensorInv'
  <2>1. r.out = Block(r.end, Base, past) /\ route # {}
    BY <1>10, Answered DEF HopDone
  <2>2. /\ hidden' = r.out /\ at' = r.end /\ UNCHANGED <<route, past, rat, x>>
        /\ pc = "await" /\ ~Replaying'
    BY <1>10 DEF HopDone, Replaying, replayVars
  <2>3. CASE r.end = NumLayers
    <3>1. pc' = "idle" /\ steps' = steps + 1 /\ output' = r.out
      BY <1>10, <2>3 DEF HopDone
    <3>2. steps' = 1 <=> steps = 0
      BY <1>0, <3>1
    <3>3. past = PromptLen + steps
      BY <2>2 DEF CallerInv
    <3>4. CallerInv'
      BY <1>0, <2>1, <2>2, <2>3, <3>1, <3>2, <3>3 DEF CallerInv, Base
    <3> QED
      BY <2>2, <3>1, <3>4 DEF TensorInv
  <2>4. CASE r.end # NumLayers
    <3>1. pc' = "forward" /\ UNCHANGED <<steps, output>>
      BY <1>10, <2>4 DEF HopDone
    <3> QED
      BY <2>1, <2>2, <3>1 DEF CallerInv, TensorInv, Base
  <2> QED
    BY <2>3, <2>4
<1>11. ASSUME UNCHANGED <<pc, route, at, hidden, rat, x, past, steps, output>>
       PROVE  CallerInv' /\ TensorInv'
  BY <1>11 DEF CallerInv, TensorInv, Replaying, Base
<1>12. CASE ServerStep /\ UNCHANGED <<listed, clientVars>>
  BY <1>11, <1>12 DEF clientVars, stepVars, replayVars, callerVars
<1>13. CASE RegistryStep
  BY <1>11, <1>13
  DEF RegistryStep, Announce, Expire, clientVars, stepVars, replayVars, callerVars
<1>14. CASE UNCHANGED vars
  BY <1>11, <1>14 DEF vars, clientVars, stepVars, replayVars, callerVars
<1> QED
  BY <1>2, <1>3, <1>4, <1>5, <1>6, <1>7, <1>8, <1>9, <1>10, <1>12, <1>13, <1>14
  DEF Next, ClientStep

-----------------------------------------------------------------------------
(***************************************************************************)
(* Histories.                                                              *)
(***************************************************************************)
\* With nothing to replay the generation is in its first step.
LEMMA NothingToReplay ==
  ASSUME TypeOK, CallerInv, HistoryInv, pc = "recover",
         NEW hop \in route, hop.start = at, ~ReplayNeeded(at)
  PROVE  steps = 0
<1>1. Block(at, 0, Base) = Block(at, 0, 0)
  BY Shapes DEF HistoryInv, Seen, ReplayNeeded, Empty
<1>2. Base = 0
  BY <1>1 DEF Block
<1> QED
  BY <1>2, Positions

\* A replay changes what is remembered for the replacement that answered only.
LEMMA ReplayRemembered ==
  ASSUME Plumbing, CallerInv, TensorInv, HistoryInv, CalledInv,
         NEW hop, NEW r \in rpcs, ReplayDone(r, hop)
  PROVE  /\ \A h \in route : history'[h.start] = history[h.start]
         /\ \A h \in plan : h.start < r.end =>
              /\ history'[h.start] = Block(h.start, 0, Base)
              /\ h.start < rat \/ h.start = rat
              /\ h.start < rat => history'[h.start] = history[h.start]
         /\ \A h \in plan : at <= h.start /\ h.end <= hop.end /\ h.start < h.end
         /\ history' = [history EXCEPT ![rat] = Block(rat, 0, Base)]
         /\ \E p \in plan : p.start = rat
<1>0. /\ TypeOK /\ RouteInv /\ at \in Nat /\ rat \in Nat /\ history \in [Layers -> Blocks]
      /\ \A h \in route \cup plan : h.start \in Layers /\ h.start \in Nat /\ h.end \in Nat
  <2>1. Plumbing => TypeOK /\ RouteInv
    BY DEF Plumbing
  <2>2. history \in [Layers -> Blocks] /\ route \cup plan \subseteq Assigned
    BY <2>1 DEF TypeOK, ClientTypeOK
  <2> QED
    BY <2>1, <2>2, Shapes, BoundariesAreNat DEF Assigned
<1>1. PICK p \in plan : p.start = rat /\ p.end = r.end
  BY Answered DEF ReplayDone
<1>2. /\ hop \in route /\ hop.start = at /\ pc = "awaitReplay"
      /\ history' = [history EXCEPT ![rat] = x] /\ x = Block(rat, 0, Base)
  BY DEF ReplayDone, RememberReplay, TensorInv, Replaying
<1>3. /\ history'[rat] = Block(rat, 0, Base)
      /\ \A l \in Layers : l # rat => history'[l] = history[l]
  BY <1>0, <1>1, <1>2
<1>4. /\ IsChain(plan, at, hop.end)
      /\ \A h \in plan : at <= h.start /\ h.start < h.end /\ h.end <= hop.end
  <2>1. IsChain(plan, at, hop.end)
    BY <1>2, FailedHop DEF Replaying
  <2> QED
    BY <2>1 DEF IsChain
<1>5. ASSUME NEW h \in route PROVE history'[h.start] = history[h.start]
  <2>1. CASE h.start = rat
    <3>1. ~(h.start < at)
      BY <1>0, <1>1, <1>4, <2>1
    <3> QED
      BY <1>3, <2>1, <3>1 DEF HistoryInv, Seen
  <2> QED
    BY <1>0, <1>3, <2>1
<1>6. ASSUME NEW h \in plan, h.start < r.end
      PROVE  /\ history'[h.start] = Block(h.start, 0, Base)
             /\ h.start < rat \/ h.start = rat
             /\ h.start < rat => history'[h.start] = history[h.start]
  <2>1. CASE h.start = rat
    BY <1>0, <1>3, <2>1
  <2>2. CASE h.start # rat
    <3>1. h.end <= p.start \/ p.end <= h.start
      BY <1>0, <1>1, <1>2, <1>4, <2>2, Shapes, ChainApart
    <3>2. h.start < rat
      BY <1>0, <1>1, <1>4, <1>6, <3>1
    <3> QED
      BY <1>0, <1>3, <2>2, <3>2 DEF HistoryInv
  <2> QED
    BY <2>1, <2>2
<1> QED
  BY <1>1, <1>2, <1>4, <1>5, <1>6

LEMMA HistoryStep ==
  ASSUME Plumbing, CallerInv, TensorInv, HistoryInv, CalledInv, [Next]_vars, ~Ended'
  PROVE  HistoryInv'
<1>0. /\ TypeOK /\ RouteInv /\ PlanInv
      /\ past \in Nat /\ steps \in Nat /\ Base \in Nat /\ PromptLen \in Nat \ {0}
      /\ pc # "idle" => Base < past
      /\ at \in Nat /\ rat \in Nat /\ NumLayers \in Nat \ {0}
      /\ history \in [Layers -> Blocks]
      /\ \A h \in route \cup plan : h.start \in Layers /\ h.start \in Nat /\ h.end \in Nat
  <2>1. Plumbing => TypeOK /\ RouteInv /\ PlanInv
    BY DEF Plumbing
  <2>2. history \in [Layers -> Blocks] /\ route \cup plan \subseteq Assigned
    BY <2>1 DEF TypeOK, ClientTypeOK
  <2> QED
    BY <2>1, <2>2, Positions, Shapes, BoundariesAreNat DEF Assigned
<1>1. ASSUME UNCHANGED <<route, at, history, steps, past>>, plan' \subseteq plan,
             rat' = rat \/ plan' = {}
      PROVE  HistoryInv'
  BY <1>1 DEF HistoryInv, Seen, Base
<1>2. CASE BeginStep
  <2>1. /\ pc = "idle" /\ at' = 0 /\ UNCHANGED <<route, plan, history, steps>>
        /\ past' = past + (IF steps = 0 THEN PromptLen ELSE 1) /\ plan = {}
    BY <1>0, <1>2 DEF BeginStep, PlanInv, Replaying, replayVars
  <2>2. CASE steps = 0
    BY <1>0, <2>1, <2>2 DEF CallerInv, HistoryInv
  <2>3. CASE steps > 0
    <3>1. at = NumLayers /\ Base' = past
      BY <1>0, <2>1, <2>3 DEF CallerInv, Base
    <3>2. \A h \in route : history[h.start] = Block(h.start, 0, past)
      <4>1. \A h \in route : h.start < NumLayers
        BY <1>0 DEF Layers
      <4> QED
        BY <3>1, <4>1 DEF HistoryInv, Seen
    <3>3. \A h \in route : ~(h.start < at')
      BY <1>0, <2>1
    <3> QED
      BY <2>1, <2>3, <3>1, <3>2, <3>3 DEF HistoryInv, Seen
  <2> QED
    BY <1>0, <2>2, <2>3
<1>3. CASE EndGenerate \/ NoRoute \/ RegistryFails \/ Closed
  BY <1>3 DEF EndGenerate, NoRoute, RegistryFails, Closed, Fail, Ended
<1>4. CASE PlanRoute
  <2>1. /\ route = {} /\ at = 0 /\ steps = 0 /\ plan = {}
        /\ UNCHANGED <<plan, at, history, steps, past>>
    BY <1>0, <1>4
    DEF PlanRoute, RouteInv, PlanInv, Replaying, CallerInv, replayVars, callerVars
  <2>2. \A h \in route' : h.start \in Layers /\ ~(h.start < at')
    <3>1. TypeOK'
      BY <1>0, TypesStep
    <3>2. route' \subseteq Assigned
      BY <3>1 DEF TypeOK, ClientTypeOK
    <3>3. \A l \in Layers : ~(l < 0)
      BY BoundariesAreNat
    <3> QED
      BY <2>1, <3>2, <3>3 DEF Assigned
  <2>3. \A l \in Layers : history[l] = Block(l, 0, 0)
    BY <1>0, <2>1, BoundariesAreNat DEF HistoryInv, Empty
  <2>4. \A h \in route' : Seen(h)' = Block(h.start, 0, 0)
    BY <2>1, <2>2 DEF Seen, Base
  <2> QED
    BY <2>1, <2>2, <2>3, <2>4 DEF HistoryInv
<1>5. ASSUME NEW hop \in route \cup plan, Recover(hop) PROVE HistoryInv'
  <2>1. PICK r \in Routes(listed \ exclude, hop.start, hop.end) :
          \/ /\ route' = (route \ {hop}) \cup Assign(r, gen) /\ plan' = plan
             /\ ~ReplayNeeded(at)
          \/ plan' = Assign(r, gen) /\ rat' = at /\ route' = route
    BY <1>5 DEF Recover, Splice, replayVars
  <2> DEFINE new == Assign(r, gen)
  <2>2. /\ hop \in route /\ hop.start = at /\ pc = "recover" /\ plan = {}
        /\ UNCHANGED <<at, history, steps, past>>
    BY <1>0, <1>5 DEF Recover, PlanInv, Replaying, callerVars
  <2>3. hop.start \in Layers /\ hop.end \in Boundaries
    BY <1>0, <2>2, Shapes DEF Assigned
  <2>4. \A h \in new : h.start \in Layers /\ h.start \in Nat /\ at <= h.start
    BY <2>2, <2>3, PlannedFresh, BoundariesAreNat DEF Assigned
  <2> HIDE DEF new
  <2>5. CASE route' = (route \ {hop}) \cup new /\ plan' = plan /\ ~ReplayNeeded(at)
    <3>1. steps = 0
      BY <1>0, <2>2, <2>5, NothingToReplay
    <3>2. Base = 0 /\ Base' = 0
      BY <2>2, <3>1 DEF Base
    <3>3. \A h \in new : history[h.start] = Block(h.start, 0, 0) /\ ~(h.start < at)
      BY <1>0, <2>4, <3>1 DEF HistoryInv, Empty
    <3> QED
      BY <2>2, <2>5, <3>2, <3>3 DEF HistoryInv, Seen
  <2>6. CASE plan' = new /\ rat' = at /\ route' = route
    <3>1. \A h \in new : ~(h.start < rat')
      BY <1>0, <2>4, <2>6
    <3> QED
      BY <2>2, <2>6, <3>1 DEF HistoryInv, Seen, Base
  <2> QED
    BY <2>1, <2>5, <2>6 DEF new
<1>6. ASSUME NEW hop \in opened, SkipClose(hop) \/ CloseHop(hop) PROVE FALSE
  BY <1>6 DEF SkipClose, CloseHop, Ended
<1>7. ASSUME NEW hop \in route \cup plan, Send(hop) PROVE HistoryInv'
  BY <1>1, <1>7 DEF Send, stepVars, replayVars, callerVars
<1>8. ASSUME NEW hop \in route \cup plan, NEW r \in rpcs,
             CallFailed(r, hop) \/ CallAbandoned(r, hop)
      PROVE  HistoryInv'
  BY <1>1, <1>8 DEF CallFailed, CallAbandoned, RecordFailure, stepVars, callerVars
<1>9. ASSUME NEW hop \in route \cup plan, NEW r \in rpcs, ReplayDone(r, hop) PROVE HistoryInv'
  <2>1. /\ rat' = r.end /\ UNCHANGED <<at, steps, past>> /\ hop.end \in Nat
        /\ \/ /\ route' = (route \ {hop}) \cup plan /\ plan' = {} /\ r.end = hop.end
           \/ UNCHANGED <<route, plan>>
    BY <1>0, <1>9 DEF ReplayDone, Splice, callerVars
  <2>2. Base' = Base /\ \A h : Seen(h)' = Seen(h)
    BY <2>1 DEF Seen, Base
  <2>3. \A h \in route : history'[h.start] = Seen(h)
    BY <1>9, ReplayRemembered DEF HistoryInv
  <2>4. /\ \A h \in plan : h.start < r.end => history'[h.start] = Block(h.start, 0, Base)
        /\ \A h \in plan : at <= h.start /\ h.start < hop.end
    BY <1>0, <1>9, <2>1, ReplayRemembered
  <2>5. steps = 0 => \A l \in Layers : l >= at => history'[l] = Empty(l)
    <3>1. history' = [history EXCEPT ![rat] = Block(rat, 0, Base)]
      BY <1>9, ReplayRemembered
    <3>2. steps = 0 => Base = 0
      BY DEF Base
    <3> QED
      BY <1>0, <3>1, <3>2 DEF HistoryInv, Empty
  <2>6. \A h \in plan : Seen(h) = Block(h.start, 0, Base)
    BY <1>0, <2>4 DEF Seen
  <2>7. CASE route' = (route \ {hop}) \cup plan /\ plan' = {} /\ r.end = hop.end
    <3>1. \A h \in route' : history'[h.start] = Seen(h)
      BY <2>3, <2>4, <2>6, <2>7
    <3> QED
      BY <2>1, <2>2, <2>5, <2>7, <3>1 DEF HistoryInv
  <2>8. CASE UNCHANGED <<route, plan>>
    BY <2>1, <2>2, <2>3, <2>4, <2>5, <2>8 DEF HistoryInv
  <2> QED
    BY <2>1, <2>7, <2>8
<1>10. ASSUME NEW r \in rpcs, HopDone(r) PROVE HistoryInv'
  <2>1. PICK hop \in route : hop.start = at /\ hop.end = r.end
    BY <1>10, Answered DEF HopDone
  <2>2. /\ pc = "await" /\ plan = {} /\ at' = r.end /\ UNCHANGED <<route, plan, past>>
        /\ history' = [history EXCEPT ![at] = Cat(history[at], hidden)]
        /\ \/ r.end = NumLayers /\ steps' = steps + 1
           \/ UNCHANGED steps
    BY <1>0, <1>10 DEF HopDone, Remember, PlanInv, Replaying, replayVars
  <2>3. Cat(history[at], hidden) = Block(at, 0, past)
    <3>1. history[at] = Block(at, 0, Base) /\ hidden = Block(at, Base, past)
      BY <1>0, <2>1, <2>2 DEF HistoryInv, Seen, TensorInv
    <3> QED
      BY <1>0, <3>1, CatExact
  <2>4. /\ history'[at] = Block(at, 0, past)
        /\ \A l \in Layers : l # at => history'[l] = history[l]
    BY <1>0, <2>1, <2>2, <2>3
  <2>5. at < at' /\ at' \in Nat /\ at' <= NumLayers
    <3>1. IsChain(route, 0, NumLayers)
      BY <1>0, <2>1 DEF RouteInv
    <3> QED
      BY <1>0, <2>1, <2>2, <3>1 DEF IsChain
  <2>6. \A h \in route : h.start <= at \/ at' <= h.start
    <3>1. IsChain(route, 0, NumLayers)
      BY <1>0, <2>1 DEF RouteInv
    <3>2. \A h \in route : h.start # at => h.end <= at \/ at' <= h.start
      BY <1>0, <2>1, <2>2, <3>1, Shapes, ChainApart
    <3> QED
      BY <1>0, <3>1, <3>2 DEF IsChain
  <2>7. \A h \in route : h.start < NumLayers
    BY <1>0 DEF Layers
  <2>8. \A h \in route : h.start < at' => history'[h.start] = Block(h.start, 0, past)
    BY <1>0, <2>4, <2>5, <2>6 DEF HistoryInv, Seen
  <2>9. \A h \in route : ~(h.start < at') => history'[h.start] = Block(h.start, 0, Base)
    BY <1>0, <2>4, <2>5 DEF HistoryInv, Seen
  <2>10. CASE r.end = NumLayers /\ steps' = steps + 1
    BY <1>0, <2>2, <2>7, <2>8, <2>10 DEF HistoryInv, Seen
  <2>11. CASE UNCHANGED steps
    <3>1. Base' = Base
      BY <2>2, <2>11 DEF Base
    <3>2. steps = 0 => \A l \in Layers : l >= at' => history'[l] = Empty(l)
      BY <1>0, <2>4, <2>5, BoundariesAreNat DEF HistoryInv
    <3> QED
      BY <2>2, <2>8, <2>9, <2>11, <3>1, <3>2 DEF HistoryInv, Seen
  <2> QED
    BY <2>2, <2>10, <2>11
<1>11. CASE ServerStep /\ UNCHANGED <<listed, clientVars>>
  BY <1>1, <1>11 DEF clientVars, stepVars, replayVars, callerVars
<1>12. CASE RegistryStep
  BY <1>1, <1>12
  DEF RegistryStep, Announce, Expire, clientVars, stepVars, replayVars, callerVars
<1>13. CASE UNCHANGED vars
  BY <1>1, <1>13 DEF vars, clientVars, stepVars, replayVars, callerVars
<1> QED
  BY <1>2, <1>3, <1>4, <1>5, <1>6, <1>7, <1>8, <1>9, <1>10, <1>11, <1>12, <1>13
  DEF Next, ClientStep

-----------------------------------------------------------------------------
(***************************************************************************)
(* Peers.                                                                  *)
(***************************************************************************)
LEMMA StartedStays ==
  ASSUME TypeOK, [Next]_vars, NEW a \in Addrs, inc[a] > 0 PROVE inc'[a] > 0
<1>1. CASE UNCHANGED inc
  BY <1>1
<1>2. ASSUME NEW b \in Addrs, Start(b) PROVE inc'[a] > 0
  BY <1>2, WorkerBoundsAreValid DEF Start, TypeOK, ServersTypeOK, SpanWorkerAssumption
<1>3. CASE ServerStep
  BY <1>1, <1>2, <1>3
  DEF ServerStep, ForwardKnown, ForwardNew, ForwardDone, ForwardDoneOrphan,
      ForwardCancelled, Collect, OtherClients, Crash
<1>4. CASE ClientStep
  BY <1>1, <1>4
  DEF ClientStep, BeginStep, EndGenerate, PlanRoute, NoRoute, RegistryFails, Closed, Send,
      Recover, CallFailed, CallAbandoned, RecordFailure, ReplayDone, HopDone, SkipClose,
      CloseHop, serverVars
<1>5. CASE RegistryStep \/ UNCHANGED vars
  BY <1>1, <1>5 DEF RegistryStep, Announce, Expire, vars, serverVars
<1> QED
  BY <1>3, <1>4, <1>5 DEF Next

LEMMA PeersStep ==
  ASSUME Plumbing, PeersInv, [Next]_vars, ~Ended' PROVE PeersInv'
<1>0. /\ TypeOK /\ listed \subseteq Peers /\ route \cup plan \subseteq Assigned
      /\ \A a \in Addrs : inc[a] > 0 => inc'[a] > 0
  BY StartedStays DEF Plumbing, TypeOK, ClientTypeOK
<1>1. ASSUME \A p \in listed' : p \in listed \/ (p.addr \in Addrs /\ inc[p.addr] > 0),
             \A hop \in route' \cup plan' :
               \/ hop \in route \cup plan
               \/ hop.peer \in listed
      PROVE  PeersInv'
  <2>1. \A p \in listed : p.addr \in Addrs /\ inc[p.addr] > 0
    BY <1>0 DEF PeersInv, Peers
  <2>2. \A hop \in route \cup plan : hop.peer.addr \in Addrs /\ inc[hop.peer.addr] > 0
    BY <1>0 DEF PeersInv, Assigned, Peers
  <2> QED
    BY <1>0, <1>1, <2>1, <2>2 DEF PeersInv
<1>2. CASE BeginStep \/ EndGenerate \/ NoRoute \/ RegistryFails \/ Closed
  BY <1>1, <1>2
  DEF BeginStep, EndGenerate, NoRoute, RegistryFails, Closed, stepVars, replayVars
<1>3. CASE PlanRoute
  <2>1. PICK r \in Routes(listed \ exclude, 0, NumLayers) : route' = Assign(r, gen)
    BY <1>3 DEF PlanRoute
  <2>2. \A hop \in route' : hop.peer \in listed
    BY <1>0, <2>1, Shapes, PlannedFresh
  <2> QED
    BY <1>1, <1>3, <2>2 DEF PlanRoute, replayVars
<1>4. ASSUME NEW hop \in route \cup plan, Recover(hop) PROVE PeersInv'
  <2>1. PICK r \in Routes(listed \ exclude, hop.start, hop.end) :
          \/ route' = (route \ {hop}) \cup Assign(r, gen) /\ plan' = plan
          \/ plan' = Assign(r, gen) /\ route' = route
    BY <1>4 DEF Recover, Splice, replayVars
  <2>2. hop.start \in Layers /\ hop.end \in Boundaries
    BY <1>0 DEF Assigned
  <2>3. \A h \in Assign(r, gen) : h.peer \in listed
    BY <2>2, PlannedFresh
  <2>4. listed' = listed
    BY <1>4 DEF Recover
  <2> QED
    BY <1>1, <2>1, <2>3, <2>4
<1>5. ASSUME NEW hop \in opened, SkipClose(hop) \/ CloseHop(hop) PROVE FALSE
  BY <1>5 DEF SkipClose, CloseHop, Ended
<1>6. ASSUME NEW hop \in route \cup plan, Send(hop) PROVE PeersInv'
  BY <1>1, <1>6 DEF Send, stepVars, replayVars
<1>7. ASSUME NEW hop \in route \cup plan, NEW r \in rpcs,
             CallFailed(r, hop) \/ CallAbandoned(r, hop)
      PROVE  PeersInv'
  BY <1>1, <1>7 DEF CallFailed, CallAbandoned, RecordFailure, stepVars
<1>8. ASSUME NEW hop \in route \cup plan, NEW r \in rpcs, ReplayDone(r, hop) PROVE PeersInv'
  BY <1>1, <1>8 DEF ReplayDone, Splice
<1>9. ASSUME NEW r \in rpcs, HopDone(r) PROVE PeersInv'
  BY <1>1, <1>9 DEF HopDone, replayVars
<1>10. CASE ServerStep /\ UNCHANGED <<listed, clientVars>>
  BY <1>1, <1>10 DEF clientVars, stepVars, replayVars
<1>11. CASE RegistryStep
  <2>1. \A a \in Addrs : up[a] => inc[a] > 0 /\ CurrentPeer(a).addr = a
    BY <1>0 DEF TypeOK, ServersTypeOK, CurrentPeer
  <2>2. \A p \in listed' : p \in listed \/ (p.addr \in Addrs /\ inc[p.addr] > 0)
    BY <1>11, <2>1 DEF RegistryStep, Announce, Expire
  <2> QED
    BY <1>1, <1>11, <2>2
    DEF RegistryStep, Announce, Expire, clientVars, stepVars, replayVars
<1>12. CASE UNCHANGED vars
  BY <1>1, <1>12 DEF vars, clientVars, stepVars, replayVars
<1> QED
  BY <1>2, <1>3, <1>4, <1>5, <1>6, <1>7, <1>8, <1>9, <1>10, <1>11, <1>12
  DEF Next, ClientStep

-----------------------------------------------------------------------------
(***************************************************************************)
(* Caches of the hops that are not being called.                           *)
(***************************************************************************)
\* Nobody works for a hop of the route between two calls to it, nor for a
\* replacement but the one that is being called.
LEMMA SettledAlone ==
  ASSUME Plumbing, ~Ended, NEW hop,
         (hop \in route /\ Settled(hop)) \/ (hop \in plan /\ hop.start # rat),
         NEW q \in rpcs
  PROVE  q.sid # hop.sid
<1>1. CASE ~q.live
  <2>1. hop \in plan => q.sid # hop.sid
    BY <1>1, PlanFenced
  <2>2. hop \in route /\ Settled(hop) => q.sid # hop.sid
    BY <1>1 DEF Plumbing, FenceInv, Fenced, Settled, Recovering
  <2> QED
    BY <2>1, <2>2
<1>2. CASE q.live
  <2>1. PICK h \in route \cup plan : Hop(h) /\ Asks(q, h) /\ Calling
    BY <1>2 DEF Plumbing, CallInv
  <2>2. CASE h \in route /\ h.start = at /\ pc = "await"
    <3>1. plan = {}
      BY <2>2 DEF Plumbing, PlanInv, Replaying
    <3>2. hop \in route /\ hop.start # at
      BY <2>2, <3>1 DEF Settled
    <3> QED
      BY <2>1, <2>2, <3>2, SidsApart DEF Asks
  <2>3. CASE h \in plan /\ h.start = rat
    <3>1. hop \in plan => hop.sid # h.sid
      BY <2>3 DEF Plumbing, SidInv, Drawn
    <3>2. hop \in route => hop.sid # h.sid
      BY <2>3 DEF Plumbing, SidInv
    <3> QED
      BY <2>1, <3>1, <3>2 DEF Asks
  <2> QED
    BY <2>1, <2>2, <2>3 DEF Hop, Calling
<1> QED
  BY <1>1, <1>2

LEMMA SettledStep ==
  ASSUME Plumbing, CallerInv, TensorInv, HistoryInv, SettledInv, CalledInv, PeersInv,
         SessionsKept, [Next]_vars, ~Ended'
  PROVE  SettledInv'
<1>0. /\ TypeOK /\ RouteInv /\ PlanInv
      /\ at \in Nat /\ rat \in Nat /\ history \in [Layers -> Blocks]
      /\ route \cup plan \subseteq Assigned
      /\ \A h \in route \cup plan : h.start \in Layers /\ h.start \in Nat /\ h.end \in Nat
  <2>1. Plumbing => TypeOK /\ RouteInv /\ PlanInv
    BY DEF Plumbing
  <2>2. history \in [Layers -> Blocks] /\ route \cup plan \subseteq Assigned
    BY <2>1 DEF TypeOK, ClientTypeOK
  <2> QED
    BY <2>1, <2>2, Shapes, BoundariesAreNat DEF Assigned
<1> DEFINE Ready(hop) == \/ hop \in route /\ Settled(hop)
                         \/ hop \in plan /\ hop.start < rat
\* The workers did nothing: what has caught up still has.
<1>1. ASSUME UNCHANGED <<up, sessions, history>>,
             \A hop \in route' : Settled(hop)' =>
               Ready(hop) \/ Absorbed(hop, history[hop.start]),
             \A hop \in plan' : hop.start < rat' => Ready(hop)
      PROVE  SettledInv'
  <2>1. \A hop : Ready(hop) => Absorbed(hop, history[hop.start])
    BY DEF SettledInv
  <2>2. \A hop : Absorbed(hop, history[hop.start]) => Absorbed(hop, history[hop.start])'
    BY <1>1 DEF Absorbed, Holds, Table
  <2> QED
    BY <1>1, <2>1, <2>2 DEF SettledInv
<1>2. CASE BeginStep
  <2>1. /\ UNCHANGED <<up, sessions, history, route, plan>> /\ pc = "idle" /\ plan = {}
    BY <1>0, <1>2 DEF BeginStep, PlanInv, Replaying, serverVars, replayVars
  <2> QED
    BY <1>1, <2>1 DEF Settled
<1>3. CASE EndGenerate \/ NoRoute \/ RegistryFails \/ Closed
  BY <1>3 DEF EndGenerate, NoRoute, RegistryFails, Closed, Fail, Ended
<1>4. CASE PlanRoute
  <2>1. PICK r \in Routes(listed \ exclude, 0, NumLayers) : route' = Assign(r, gen)
    BY <1>4 DEF PlanRoute
  <2>2. /\ at = 0 /\ steps = 0 /\ plan = {} /\ UNCHANGED <<up, sessions, history, plan>>
    BY <1>0, <1>4, Positions
    DEF PlanRoute, RouteInv, PlanInv, Replaying, CallerInv, serverVars, replayVars
  <2>3. \A h \in route' : Absorbed(h, Empty(h.start)) /\ h.start \in Layers
    BY <1>0, <2>1, Shapes, PlannedFresh, UntouchedAbsorbed DEF Assigned
  <2>4. \A l \in Layers : history[l] = Empty(l)
    BY <2>2, BoundariesAreNat DEF HistoryInv
  <2> QED
    BY <1>1, <2>2, <2>3, <2>4
<1>5. ASSUME NEW hop \in route \cup plan, Recover(hop) PROVE SettledInv'
  <2>1. PICK r \in Routes(listed \ exclude, hop.start, hop.end) :
          \/ /\ route' = (route \ {hop}) \cup Assign(r, gen) /\ plan' = plan
             /\ ~ReplayNeeded(at)
          \/ /\ plan' = Assign(r, gen) /\ rat' = at /\ route' = route /\ pc' = "replay"
    BY <1>5 DEF Recover, Splice, replayVars
  <2> DEFINE new == Assign(r, gen)
  <2>2. /\ hop \in route /\ hop.start = at /\ at' = at /\ pc = "recover" /\ plan = {}
        /\ UNCHANGED <<up, sessions, history>>
    BY <1>0, <1>5 DEF Recover, PlanInv, Replaying, serverVars
  <2>3. hop.start \in Layers /\ hop.end \in Boundaries
    BY <1>0, <2>2 DEF Assigned
  <2>4. \A h \in new : /\ Absorbed(h, Empty(h.start))
                       /\ h.start \in Layers /\ h.start \in Nat /\ at <= h.start
    BY <2>2, <2>3, PlannedFresh, UntouchedAbsorbed, BoundariesAreNat DEF Assigned
  <2> HIDE DEF new
  <2>5. CASE route' = (route \ {hop}) \cup new /\ plan' = plan /\ ~ReplayNeeded(at)
    <3>1. steps = 0
      BY <1>0, <2>2, <2>5, NothingToReplay
    <3>2. \A h \in new : Absorbed(h, history[h.start])
      BY <1>0, <2>4, <3>1 DEF HistoryInv
    <3>3. \A h \in route \ {hop} : h.start # at
      BY <2>2, RouteUnique
    <3> QED
      BY <1>1, <2>2, <2>5, <3>2, <3>3 DEF Settled
  <2>6. CASE plan' = new /\ rat' = at /\ route' = route /\ pc' = "replay"
    <3>1. \A h \in new : ~(h.start < rat')
      BY <1>0, <2>4, <2>6
    <3> QED
      BY <1>1, <2>2, <2>6, <3>1 DEF Settled
  <2> QED
    BY <2>1, <2>5, <2>6 DEF new
<1>6. ASSUME NEW hop \in opened, SkipClose(hop) \/ CloseHop(hop) PROVE FALSE
  BY <1>6 DEF SkipClose, CloseHop, Ended
<1>7. ASSUME NEW hop \in route \cup plan, Send(hop) PROVE SettledInv'
  BY <1>1, <1>7 DEF Send, Settled, stepVars, replayVars
<1>8. ASSUME NEW hop \in route \cup plan, NEW r \in rpcs,
             CallFailed(r, hop) \/ CallAbandoned(r, hop)
      PROVE  SettledInv'
  <2>1. pc' = "recover" /\ plan' = {} /\ UNCHANGED <<up, sessions, history, route, at>>
    BY <1>8 DEF CallFailed, CallAbandoned, RecordFailure, Fail, Ended, stepVars
  <2> QED
    BY <1>1, <2>1 DEF Settled
<1>9. ASSUME NEW hop \in route \cup plan, NEW r \in rpcs, ReplayDone(r, hop) PROVE SettledInv'
  <2>1. PICK p \in plan : p.start = rat /\ Holds(p, Block(rat, 0, Base))
    BY <1>9, Answered DEF ReplayDone
  <2>2. /\ hop \in route /\ hop.start = at /\ at' = at /\ pc = "awaitReplay" /\ rat' = r.end
        /\ UNCHANGED <<up, sessions>>
        /\ \/ /\ route' = (route \ {hop}) \cup plan /\ plan' = {} /\ r.end = hop.end
           \/ UNCHANGED <<route, plan>> /\ pc' = "replay"
    BY <1>9 DEF ReplayDone, Splice
  <2>3. \A h : \A b : Absorbed(h, b) => Absorbed(h, b)'
    BY <2>2 DEF Absorbed, Holds, Table
  <2>4. \A h \in route : h.start # at => Absorbed(h, history'[h.start])
    BY <1>9, ReplayRemembered DEF SettledInv, Settled
  <2>5. \A h \in plan : h.start < r.end => Absorbed(h, history'[h.start])
    <3> SUFFICES ASSUME NEW h \in plan, h.start < r.end
                 PROVE  Absorbed(h, history'[h.start])
      OBVIOUS
    <3>1. CASE h.start < rat
      BY <1>9, <3>1, ReplayRemembered DEF SettledInv
    <3>2. CASE h.start = rat
      <4>1. h = p
        BY <2>1, <3>2, PlanUnique
      <4>2. history'[h.start] = Block(rat, 0, Base)
        BY <1>9, <3>2, ReplayRemembered
      <4> QED
        BY <2>1, <4>1, <4>2 DEF Absorbed
    <3> QED
      BY <1>9, <3>1, <3>2, ReplayRemembered
  <2>6. CASE route' = (route \ {hop}) \cup plan /\ plan' = {} /\ r.end = hop.end
    <3>1. \A h \in plan : h.start < r.end
      <4>1. \A h \in plan : h.start < h.end /\ h.end <= hop.end
        BY <1>9, ReplayRemembered
      <4> QED
        BY <1>0, <2>2, <2>6, <4>1
    <3>2. \A h \in route \ {hop} : h.start # at
      BY <2>2, RouteUnique
    <3> QED
      BY <2>3, <2>4, <2>5, <2>6, <3>1, <3>2 DEF SettledInv
  <2>7. CASE UNCHANGED <<route, plan>> /\ pc' = "replay"
    BY <2>2, <2>3, <2>4, <2>5, <2>7 DEF SettledInv, Settled
  <2> QED
    BY <2>2, <2>6, <2>7
<1>10. ASSUME NEW r \in rpcs, HopDone(r) PROVE SettledInv'
  <2>1. PICK hop \in route : hop.start = at /\ Holds(hop, Block(at, 0, past))
    BY <1>10, Answered DEF HopDone
  <2>2. /\ pc = "await" /\ plan = {} /\ UNCHANGED <<up, sessions, route, plan>>
        /\ history' = [history EXCEPT ![at] = Cat(history[at], hidden)]
    BY <1>0, <1>10 DEF HopDone, Remember, PlanInv, Replaying, replayVars
  <2>3. Cat(history[at], hidden) = Block(at, 0, past)
    <3>1. history[at] = Block(at, 0, Base) /\ hidden = Block(at, Base, past)
      BY <1>0, <2>1, <2>2 DEF HistoryInv, Seen, TensorInv
    <3> QED
      BY <1>0, <3>1, CatExact, Positions
  <2>4. /\ history'[at] = Block(at, 0, past)
        /\ \A l \in Layers : l # at => history'[l] = history[l]
    BY <1>0, <2>1, <2>2, <2>3
  <2>5. ASSUME NEW h \in route PROVE Absorbed(h, history'[h.start])
    <3>1. CASE h.start = at
      <4>1. h = hop
        BY <2>1, <3>1, RouteUnique
      <4> QED
        BY <2>1, <2>4, <4>1 DEF Absorbed
    <3>2. CASE h.start # at
      BY <1>0, <2>4, <3>2 DEF SettledInv, Settled
    <3> QED
      BY <3>1, <3>2
  <2>6. \A h : \A b : Absorbed(h, b) => Absorbed(h, b)'
    BY <2>2 DEF Absorbed, Holds, Table
  <2> QED
    BY <2>2, <2>5, <2>6 DEF SettledInv
<1>11. CASE ServerStep /\ UNCHANGED <<listed, clientVars>>
  <2>1. UNCHANGED <<pc, route, plan, at, rat, history>> /\ ~Ended
    BY <1>11 DEF clientVars, stepVars, replayVars, Ended
  <2>2. ASSUME NEW hop, Ready(hop) PROVE Absorbed(hop, history[hop.start])'
    <3>1. \A q \in rpcs : q.sid # hop.sid
      BY <1>0, <2>1, <2>2, SettledAlone
    <3>2. hop \in route \cup plan /\ hop.peer.addr \in Addrs /\ inc[hop.peer.addr] > 0
      BY <1>0, <2>2 DEF PeersInv, Assigned, Peers
    <3>3. Undisturbed(hop) \/ ~up'[hop.peer.addr]
      BY <1>0, <1>11, <3>1, <3>2, ServerUndisturbed DEF SessionsKept
    <3>4. up'[hop.peer.addr] => up[hop.peer.addr]
      BY <1>0, <1>11, <3>2, NotRestarted DEF SessionsKept
    <3>5. Absorbed(hop, history[hop.start])
      BY <2>2 DEF SettledInv
    <3>6. \A b : Undisturbed(hop) /\ Absorbed(hop, b) => Absorbed(hop, b)'
      BY <3>4, AbsorbedKept
    <3>7. ~up'[hop.peer.addr] => \A b : Absorbed(hop, b)'
      BY DEF Absorbed
    <3> QED
      BY <2>1, <3>3, <3>5, <3>6, <3>7
  <2> QED
    BY <2>1, <2>2 DEF SettledInv, Settled
<1>12. ASSUME UNCHANGED <<up, sessions, history, pc, route, plan, at, rat>> PROVE SettledInv'
  BY <1>1, <1>12 DEF Settled
<1>13. CASE RegistryStep
  BY <1>12, <1>13
  DEF RegistryStep, Announce, Expire, serverVars, clientVars, stepVars, replayVars
<1>14. CASE UNCHANGED vars
  BY <1>12, <1>14 DEF vars, serverVars, clientVars, stepVars, replayVars
<1> QED
  BY <1>2, <1>3, <1>4, <1>5, <1>6, <1>7, <1>8, <1>9, <1>10, <1>11, <1>13, <1>14
  DEF Next, ClientStep

-----------------------------------------------------------------------------
(***************************************************************************)
(* The hop that is being called.                                           *)
(***************************************************************************)
(***************************************************************************)
(* A step of the servers while the client waits for r: nobody else works   *)
(* in the session of its hop, and the worker of the hop is not restarted.  *)
(***************************************************************************)
LEMMA CalledServer ==
  ASSUME TypeOK, SessionsKept, ServerStep, NEW hop \in route \cup plan,
         inc[hop.peer.addr] > 0, NEW r \in rpcs, r.live, Asks(r, hop),
         \A q \in rpcs : q.sid = hop.sid => q = r,
         NEW m \in Nat, NEW n \in Nat, r.x = Block(hop.start, m, n),
         Called(r, hop, Block(hop.start, 0, m), r.x)
  PROVE  \E s \in rpcs' : s.live /\ Called(s, hop, Block(hop.start, 0, m), r.x)'
<1> DEFINE b == Block(hop.start, 0, m)
           a == hop.peer.addr
           key == HopKey(hop)
           Goal == \E s \in rpcs' : s.live /\ Called(s, hop, b, r.x)'
<1>0. /\ hop \in Assigned /\ a \in Addrs /\ r \in Rpcs
      /\ r.addr = a /\ Key(r) = key /\ r.start = hop.start /\ r.end = hop.end
      /\ ~LongIdle /\ MaxInc = 1 /\ b.hi = m
      /\ sessions = [c \in Addrs |-> sessions[c]]
  <2>1. hop \in Assigned /\ r \in Rpcs /\ sessions = [c \in Addrs |-> sessions[c]]
    BY Shapes DEF TypeOK, ServersTypeOK
  <2> QED
    BY <2>1 DEF Assigned, Peers, Asks, Key, HopKey, SessionsKept, Block
<1>1. up'[a] => up[a]
  BY <1>0, NotRestarted
<1>2. ASSUME r \in rpcs', Undisturbed(hop) PROVE Goal
  BY <1>1, <1>2, CalledKept
<1>3. ASSUME NEW t, Holds(hop, t) PROVE key \in DOMAIN sessions[a] /\ sessions[a][key] = Session(hop, t)
  BY <1>3 DEF Holds, Table
\* Only what is done for r changes the session.
<1>4. ASSUME NEW s, s.live, rpcs' = (rpcs \ {r}) \cup {s}, Called(s, hop, b, r.x)' PROVE Goal
  BY <1>4
<1>5. CASE ForwardKnown(r)
  <2>1. r.st = "sent" /\ up[a] /\ key \in DOMAIN sessions[a]
    BY <1>0, <1>5 DEF ForwardKnown, Arrives
  <2>2. Holds(hop, b)
    BY <1>0, <2>1 DEF Called, Absorbed, Table
  <2>3. sessions[a][key].end = r.end /\ sessions[a][key].length = m
    <3>1. sessions[a][key] = Session(hop, b)
      BY <1>3, <2>2
    <3> HIDE DEF b
    <3>2. Session(hop, b).end = hop.end /\ Session(hop, b).length = b.hi
      BY DEF Session
    <3> QED
      BY <1>0, <3>1, <3>2
  <2> DEFINE s == [r EXCEPT !.st = "running", !.past = m]
  <2>4. rpcs' = (rpcs \ {r}) \cup {s} /\ sessions' = sessions
    BY <1>0, <1>5, <2>3 DEF ForwardKnown, Advance
  <2>5. s.live /\ s.st = "running" /\ s.past = m
    BY <1>0 DEF Rpcs
  <2>6. Holds(hop, b)'
    BY <2>2, <2>4 DEF Holds, Table
  <2>7. Called(s, hop, b, r.x)'
    <3> HIDE DEF s
    <3> QED
      BY <1>0, <2>5, <2>6 DEF Called
  <2> QED
    BY <1>4, <2>4, <2>5, <2>7
<1>6. CASE ForwardNew(r, Idle(r.addr))
  <2>1. r.st = "sent" /\ up[a] /\ key \notin DOMAIN sessions[a]
    BY <1>0, <1>6 DEF ForwardNew, Arrives
  <2>2. b = Empty(hop.start)
    BY <1>0, <2>1 DEF Called, Absorbed, Holds, Table
  <2> DEFINE refused == [r EXCEPT !.st = "refused"]
             s == [r EXCEPT !.st = "running", !.past = 0]
             new == [end |-> r.end, kv |-> Empty(r.start), length |-> 0]
  <2>3. PICK gone :
          \/ rpcs' = (rpcs \ {r}) \cup {refused}
          \/ /\ rpcs' = (rpcs \ {r}) \cup {s}
             /\ sessions' = [sessions EXCEPT ![a] = With(Without(sessions[a], gone), key, new)]
    BY <1>0, <1>6 DEF ForwardNew, Advance
  <2>4. CASE rpcs' = (rpcs \ {r}) \cup {refused}
    <3>1. refused.live /\ refused.st = "refused"
      BY <1>0 DEF Rpcs
    <3>2. Called(refused, hop, b, r.x)'
      <4> HIDE DEF refused
      <4> QED
        BY <3>1 DEF Called
    <3> QED
      BY <1>4, <2>4, <3>1, <3>2
  <2>5. CASE /\ rpcs' = (rpcs \ {r}) \cup {s}
             /\ sessions' = [sessions EXCEPT ![a] = With(Without(sessions[a], gone), key, new)]
    <3>1. s.live /\ s.st = "running" /\ s.past = 0
      BY <1>0 DEF Rpcs
    <3>2. b.hi = 0 /\ new = Session(hop, b)
      BY <1>0, <2>2 DEF Session, Empty, Block
    <3>3. Table(hop)' = With(Without(sessions[a], gone), key, new)
      BY <1>0, <2>5 DEF Table
    <3>4. Holds(hop, b)'
      BY <3>2, <3>3 DEF Holds, With
    <3>5. Called(s, hop, b, r.x)'
      <4> HIDE DEF s
      <4> QED
        BY <3>1, <3>2, <3>4 DEF Called
    <3> QED
      BY <1>4, <2>5, <3>1, <3>5
  <2> QED
    BY <2>3, <2>4, <2>5
<1>7. CASE ForwardDone(r)
  <2>1. Holds(hop, b) /\ r.past = m
    BY <1>0, <1>7 DEF ForwardDone, Called
  <2>2. sessions[a][key] = Session(hop, b)
    BY <1>3, <2>1
  <2> DEFINE out == Forwarded(b, m, r.x, r.end)
             s == [r EXCEPT !.st = "done", !.out = out]
  <2>3. rpcs' = (rpcs \ {r}) \cup {s}
    <3>1. sessions[a][key].kv = b
      <4> HIDE DEF b
      <4> QED
        BY <2>2 DEF Session
    <3> QED
      BY <1>0, <1>7, <2>1, <3>1 DEF ForwardDone, Advance
  <2>3a. sessions' = [sessions EXCEPT ![a] = With(sessions[a], key, Absorb(Session(hop, b), r.x))]
    BY <1>0, <1>7, <2>2 DEF ForwardDone
  <2>4. out = Block(hop.end, m, n)
    BY <1>0, ForwardedExact
  <2>5. Absorb(Session(hop, b), r.x) = Session(hop, Block(hop.start, 0, n))
    BY AbsorbExact
  <2>6. Table(hop)' = With(sessions[a], key, Session(hop, Block(hop.start, 0, n)))
    BY <1>0, <2>3a, <2>5 DEF Table
  <2>7. Holds(hop, Block(hop.start, 0, n))'
    BY <2>6 DEF Holds, With
  <2>8. r.x.lo = m /\ r.x.hi = n
    BY DEF Block
  <2> HIDE DEF out
  <2>9. s.live /\ s.st = "done" /\ s.out = out
    BY <1>0 DEF Rpcs
  <2>10. Called(s, hop, b, r.x)'
    <3> HIDE DEF s
    <3> QED
      BY <2>4, <2>7, <2>8, <2>9 DEF Called
  <2> QED
    BY <1>4, <2>3, <2>9, <2>10
<1>8. CASE ForwardDoneOrphan(r) \/ ForwardCancelled(r)
  <2>1. ASSUME ForwardDoneOrphan(r) PROVE FALSE
    BY <1>0, <2>1 DEF ForwardDoneOrphan, Called, Holds, Table
  <2>2. ~ForwardCancelled(r)
    BY DEF ForwardCancelled
  <2> QED
    BY <1>8, <2>1, <2>2
<1>9. ASSUME NEW q \in rpcs, q # r,
             ForwardKnown(q) \/ ForwardNew(q, Idle(q.addr)) \/ ForwardDone(q)
             \/ ForwardDoneOrphan(q) \/ ForwardCancelled(q)
      PROVE  Goal
  <2>1. Undisturbed(hop)
    BY <1>0, <1>9, RequestUndisturbed
  <2>2. r \in rpcs'
    BY <1>9
    DEF ForwardKnown, ForwardNew, ForwardDone, ForwardDoneOrphan, ForwardCancelled, Advance
  <2> QED
    BY <1>2, <2>1, <2>2
<1>10. ASSUME NEW c \in Addrs, Collect(c, Idle(c)) \/ OtherClients(c) \/ Crash(c) \/ Start(c)
       PROVE  Goal
  <2>1. CASE Crash(c) /\ c = a
    <3> DEFINE s == [r EXCEPT !.st = "lost"]
    <3>1. s \in rpcs'
      BY <1>0, <2>1 DEF Crash
    <3>2. s.live /\ s.st = "lost"
      BY <1>0 DEF Rpcs
    <3>3. Called(s, hop, b, r.x)'
      <4> HIDE DEF s
      <4> QED
        BY <3>2 DEF Called
    <3> QED
      BY <3>1, <3>2, <3>3
  <2>2. CASE Undisturbed(hop) /\ ~(Crash(c) /\ c = a)
    <3>1. r \in rpcs'
      BY <1>0, <1>10, <2>2 DEF Collect, OtherClients, Crash, Start
    <3> QED
      BY <1>2, <2>2, <3>1
  <2> QED
    BY <1>0, <1>10, <2>1, <2>2, HousekeepingUndisturbed
<1> QED
  BY <1>5, <1>6, <1>7, <1>8, <1>9, <1>10 DEF ServerStep

LEMMA CalledStep ==
  ASSUME Plumbing, CallerInv, TensorInv, HistoryInv, SettledInv, CalledInv, PeersInv,
         SessionsKept, [Next]_vars, ~Ended'
  PROVE  CalledInv'
<1>0. /\ TypeOK /\ RouteInv /\ PlanInv /\ CallInv'
      /\ at \in Nat /\ rat \in Nat /\ Base \in Nat /\ past \in Nat
      /\ route \cup plan \subseteq Assigned
  BY CallStep, Shapes, Positions DEF Plumbing, TypeOK, ClientTypeOK
<1>1. ASSUME ~Calling' PROVE CalledInv'
  BY <1>0, <1>1 DEF CallInv, CalledInv
<1>2. CASE BeginStep \/ EndGenerate \/ PlanRoute \/ NoRoute \/ RegistryFails \/ Closed
  BY <1>1, <1>2
  DEF BeginStep, EndGenerate, PlanRoute, NoRoute, RegistryFails, Closed, Fail, Calling
<1>3. ASSUME NEW hop \in route \cup plan, Recover(hop) PROVE CalledInv'
  BY <1>1, <1>3 DEF Recover, Calling
<1>4. ASSUME NEW hop \in opened, SkipClose(hop) \/ CloseHop(hop) PROVE FALSE
  BY <1>4 DEF SkipClose, CloseHop, Ended
<1>5. ASSUME NEW hop \in route \cup plan, Send(hop) PROVE CalledInv'
  <2>1. \A r \in rpcs : ~r.live
    BY <1>5, Quiet DEF Send, Hop, Calling
  <2>2. PICK r : /\ rpcs' = rpcs \cup {r}
                 /\ r = Request(hop, IF pc = "forward" THEN hidden ELSE x, up[hop.peer.addr])
    BY <1>5 DEF Send
  <2>3. r.live /\ r.st \in {"sent", "lost"}
    BY <2>2 DEF Request
  <2>4. UNCHANGED <<up, sessions, route, plan, at, rat, hidden, x, history>>
    BY <1>5 DEF Send, stepVars, replayVars
  <2>5. \A h, b : Absorbed(h, b) => Absorbed(h, b)'
    BY <2>4 DEF Absorbed, Holds, Table
  <2>6. CASE pc = "forward" /\ pc' = "await" /\ hop \in route /\ hop.start = at
    <3>1. \A h \in route : h.start = at => Absorbed(h, history[at])
      BY <2>6 DEF SettledInv, Settled
    <3> QED
      BY <2>1, <2>2, <2>3, <2>4, <2>5, <2>6, <3>1 DEF CalledInv, Called
  <2>7. CASE pc = "replay" /\ pc' = "awaitReplay"
    <3>1. \A h \in plan : h.start = rat => Absorbed(h, Empty(rat))
      BY <1>0, <2>7, UntouchedAbsorbed DEF Plumbing, FenceInv, PlanUntouched, Ahead
    <3> QED
      BY <2>1, <2>2, <2>3, <2>4, <2>5, <2>7, <3>1 DEF CalledInv, Called
  <2> QED
    BY <1>5, <2>6, <2>7 DEF Send, Hop
<1>6. ASSUME NEW hop \in route \cup plan, NEW r \in rpcs,
             CallFailed(r, hop) \/ CallAbandoned(r, hop) \/ ReplayDone(r, hop)
      PROVE  CalledInv'
  BY <1>1, <1>6 DEF CallFailed, CallAbandoned, RecordFailure, Fail, ReplayDone, Calling
<1>7. ASSUME NEW r \in rpcs, HopDone(r) PROVE CalledInv'
  BY <1>1, <1>7 DEF HopDone, Calling
<1>8. CASE ServerStep /\ UNCHANGED <<listed, clientVars>>
  <2>1. UNCHANGED <<pc, route, plan, at, rat, hidden, x, history>> /\ ~Ended
    BY <1>8 DEF clientVars, stepVars, replayVars, Ended
  <2>2. CASE ~Calling
    BY <1>1, <2>1, <2>2 DEF Calling
  <2>3. CASE Calling
    <3>1. PICK r \in rpcs : r.live /\ Awaited(r)
      BY <2>3 DEF CalledInv, Awaited, Calling
    <3>2. PICK hop \in route \cup plan : Hop(hop) /\ Asks(r, hop)
      BY <3>1 DEF Plumbing, CallInv
    <3>3. inc[hop.peer.addr] > 0
      BY DEF PeersInv
    <3>4. ASSUME NEW q \in rpcs, q.sid = hop.sid PROVE q = r
      <4>1. CASE q.live
        BY <3>1, <4>1 DEF Plumbing, CallInv
      <4>2. CASE ~q.live
        <5>1. hop \notin plan
          BY <2>1, <3>4, <4>2, PlanFenced
        <5>2. ~Recovering
          BY <3>2, <5>1 DEF Hop, Recovering
        <5> QED
          BY <2>1, <3>4, <4>2, <5>2 DEF Plumbing, FenceInv, Fenced
      <4> QED
        BY <4>1, <4>2
    <3>5. CASE pc = "await"
      <4>1. hop \in route /\ hop.start = at
        BY <3>2, <3>5 DEF Hop
      <4>2. PICK m \in Nat, n \in Nat : m = Base /\ n = past
        BY <1>0
      <4>3. r.x = Block(hop.start, m, n) /\ hidden = r.x
        BY <3>2, <3>5, <4>1, <4>2 DEF Asks, TensorInv
      <4>4. history[at] = Block(hop.start, 0, m)
        BY <1>0, <4>1, <4>2 DEF HistoryInv, Seen
      <4>5. Called(r, hop, Block(hop.start, 0, m), r.x)
        BY <3>1, <3>5, <4>1, <4>3, <4>4 DEF CalledInv
      <4>6. PICK s \in rpcs' : s.live /\ Called(s, hop, Block(hop.start, 0, m), r.x)'
        BY <1>0, <1>8, <3>1, <3>2, <3>3, <3>4, <4>3, <4>5, CalledServer
      <4>7. \A q \in rpcs' : q.live => q = s
        BY <1>0, <4>6 DEF CallInv
      <4>8. \A h \in route : h.start = at => h = hop
        BY <4>1, RouteUnique DEF Plumbing
      <4>9. history'[at'] = Block(hop.start, 0, m) /\ hidden' = r.x
        BY <2>1, <4>3, <4>4
      <4> QED
        BY <2>1, <3>5, <4>6, <4>7, <4>8, <4>9 DEF CalledInv
    <3>6. CASE pc = "awaitReplay"
      <4>1. hop \in plan /\ hop.start = rat
        BY <3>2, <3>6 DEF Hop
      <4>2. PICK n \in Nat : n = Base
        BY <1>0
      <4>3. r.x = Block(hop.start, 0, n) /\ x = r.x
        BY <3>2, <3>6, <4>1, <4>2 DEF Asks, TensorInv, Replaying
      <4>4. Called(r, hop, Block(hop.start, 0, 0), r.x)
        BY <3>1, <3>6, <4>1, <4>3 DEF CalledInv, Empty
      <4>5. PICK s \in rpcs' : s.live /\ Called(s, hop, Block(hop.start, 0, 0), r.x)'
        BY <1>0, <1>8, <3>1, <3>2, <3>3, <3>4, <4>3, <4>4, CalledServer
      <4>6. \A q \in rpcs' : q.live => q = s
        BY <1>0, <4>5 DEF CallInv
      <4>7. \A h \in plan : h.start = rat => h = hop
        BY <4>1, PlanUnique DEF Plumbing
      <4>8. Empty(rat)' = Block(hop.start, 0, 0) /\ x' = r.x
        BY <2>1, <4>1, <4>3 DEF Empty
      <4> QED
        BY <2>1, <3>6, <4>5, <4>6, <4>7, <4>8 DEF CalledInv
    <3> QED
      BY <2>3, <3>5, <3>6 DEF Calling
  <2> QED
    BY <2>2, <2>3
<1>9. ASSUME UNCHANGED <<up, sessions, rpcs, pc, route, plan, at, rat, hidden, x, history>>
      PROVE  CalledInv'
  BY <1>9 DEF CalledInv, Calling, Called, Absorbed, Holds, Table
<1>10. CASE RegistryStep
  BY <1>9, <1>10
  DEF RegistryStep, Announce, Expire, serverVars, clientVars, stepVars, replayVars
<1>11. CASE UNCHANGED vars
  BY <1>9, <1>11 DEF vars, serverVars, clientVars, stepVars, replayVars
<1> QED
  BY <1>2, <1>3, <1>4, <1>5, <1>6, <1>7, <1>8, <1>10, <1>11 DEF Next, ClientStep

-----------------------------------------------------------------------------
(***************************************************************************)
(* The results.                                                            *)
(***************************************************************************)
LEMMA ContentsInit == Init => Contents
<1> SUFFICES ASSUME Init PROVE Contents
  OBVIOUS
<1>1. /\ pc = "idle" /\ steps = 0 /\ past = 0 /\ at = 0
      /\ route = {} /\ plan = {} /\ rpcs = {} /\ output = Empty(NumLayers)
      /\ history = [l \in Layers |-> Empty(l)]
  BY DEF Init, ServersInit
<1>2. CallerInv /\ TensorInv /\ HistoryInv /\ SettledInv
  BY <1>1 DEF CallerInv, TensorInv, HistoryInv, SettledInv, Replaying
<1>3. CalledInv
  BY <1>1 DEF CalledInv, Calling
<1>4. PeersInv
  <2>1. listed = {CurrentPeer(a) : a \in Founders}
    BY DEF Init
  <2>2. inc = [a \in Addrs |-> IF a \in Founders THEN 1 ELSE 0]
    BY DEF Init, ServersInit
  <2> QED
    BY <1>1, <2>1, <2>2, SessionParametersAreValid
    DEF PeersInv, CurrentPeer, InferenceSessionAssumption
<1> QED
  BY <1>2, <1>3, <1>4 DEF Contents

LEMMA ContentsStep ==
  SessionsKept /\ Plumbing /\ Contents /\ [Next]_vars => Contents'
<1> SUFFICES ASSUME SessionsKept, Plumbing, Contents, [Next]_vars, ~Ended'
             PROVE  /\ CallerInv' /\ TensorInv' /\ HistoryInv'
                    /\ SettledInv' /\ CalledInv' /\ PeersInv'
  BY DEF Contents
<1>1. CallerInv /\ TensorInv /\ HistoryInv /\ SettledInv /\ CalledInv /\ PeersInv
  BY EndedStays DEF Contents
<1> QED
  BY <1>1, CallerStep, HistoryStep, SettledStep, CalledStep, PeersStep

(***************************************************************************)
(* What a generation remembers, sends and returns, and what the workers    *)
(* hold for it, is exact in every generation whose workers keep the        *)
(* sessions in use, whatever fails and is replayed (client.py, step and    *)
(* _recover; server.py, forward).                                          *)
(***************************************************************************)
THEOREM ContentsCorrect == ASSUME SessionsKept PROVE Spec => []Contents
<1>1. Plumbing /\ Contents /\ [Next]_vars => Contents'
  BY ContentsStep
<1> QED
  BY PlumbingCorrect, ContentsInit, <1>1, PTL DEF Spec

(***************************************************************************)
(* A step returns what the unsharded decoder would (client.py, step).      *)
(***************************************************************************)
THEOREM OutputAlwaysExact == ASSUME SessionsKept PROVE Spec => []OutputExact
<1>1. Contents => OutputExact
  BY DEF Contents, CallerInv, OutputExact, Ended
<1> QED
  BY ContentsCorrect, <1>1, PTL

(***************************************************************************)
(* A replacement is asked to absorb the whole prefix its layers missed,    *)
(* and nothing of the step in progress (client.py, _recover).              *)
(***************************************************************************)
THEOREM ReplayAlwaysExact == ASSUME SessionsKept PROVE Spec => []ReplayExact
<1>1. Contents => ReplayExact
  BY DEF Contents, TensorInv, Replaying, ReplayExact, Ended, Block
<1> QED
  BY ContentsCorrect, <1>1, PTL

(***************************************************************************)
(* Between two calls the worker of every hop holds exactly what the client *)
(* would replay to its replacement (client.py, history; server.py,         *)
(* forward).                                                               *)
(***************************************************************************)
THEOREM CachesAlwaysCaughtUp == ASSUME SessionsKept PROVE Spec => []CachesCaughtUp
<1>1. ASSUME Plumbing, Contents PROVE CachesCaughtUp
  <2> SUFFICES ASSUME pc \in {"idle", "forward", "await"}, NEW hop \in route,
                      up[hop.peer.addr], ~Unfinished(hop)
               PROVE  CacheOf(hop) = history[hop.start]
    BY DEF CachesCaughtUp
  <2>1. SettledInv /\ CalledInv
    BY <1>1 DEF Contents, Ended
  <2>2. CASE Settled(hop)
    <3> DEFINE b == history[hop.start]
    <3>1. Absorbed(hop, b)
      BY <2>1, <2>2 DEF SettledInv
    <3>2. Holds(hop, b) => CacheOf(hop) = b
      <4> HIDE DEF b
      <4> QED
        BY DEF Holds, Table, CacheOf, Session
    <3> QED
      BY <3>1, <3>2 DEF Absorbed, CacheOf, Table
  <2>3. CASE ~Settled(hop)
    <3>1. hop.start = at /\ pc = "await"
      BY <2>3 DEF Settled
    <3>2. PICK r \in rpcs : r.live
      BY <2>1, <3>1 DEF CalledInv, Calling
    <3>3. PICK h \in route : h.start = at /\ Asks(r, h)
      BY <1>1, <3>1, <3>2, AwaitedHop DEF Awaited
    <3>4. h = hop
      BY <1>1, <3>1, <3>3, RouteUnique
    <3> QED
      BY <3>2, <3>3, <3>4 DEF Asks, Unfinished, Key, HopKey
  <2> QED
    BY <2>2, <2>3
<1> QED
  BY PlumbingCorrect, ContentsCorrect, <1>1, PTL

-----------------------------------------------------------------------------
(***************************************************************************)
(* What a recovery leaves alone.                                           *)
(***************************************************************************)
\* The replay never reaches a hop that did not fail.
LEMMA ReplayElsewhere ==
  ASSUME Plumbing, NEW hop, NEW r \in rpcs, ReplayDone(r, hop),
         NEW h \in route, h.start # at
  PROVE  h.start # rat
<1>0. /\ hop \in route /\ hop.start = at /\ Awaited(r) /\ pc = "awaitReplay"
      /\ h \in Assigned /\ hop \in Assigned /\ rat \in Nat
  BY Shapes DEF ReplayDone, Plumbing
<1>1. PICK p \in plan : p.start = rat
  BY <1>0, AwaitedHop
<1>2. IsChain(plan, hop.start, hop.end)
  BY <1>0, FailedHop DEF Replaying
<1>3. hop.start <= rat /\ rat < hop.end
  <2>1. p \in Assigned /\ p.start \in Nat /\ p.end \in Nat /\ hop.end \in Nat
    BY <1>0, <1>1, Shapes, AssignedBounded DEF Plumbing, Bounded
  <2> QED
    BY <1>1, <1>2, <2>1 DEF IsChain
<1>4. h.end <= hop.start \/ hop.end <= h.start
  BY <1>0, Shapes, ChainApart DEF Plumbing, RouteInv
<1>5. h.start \in Nat /\ h.end \in Nat /\ h.start < h.end /\ hop.start \in Nat /\ hop.end \in Nat
  BY <1>0, Shapes DEF Plumbing, RouteInv, IsChain, Bounded
<1> QED
  BY <1>0, <1>3, <1>4, <1>5

\* The cache of an undisturbed hop does not change.
LEMMA CacheKept ==
  ASSUME NEW hop, Undisturbed(hop) PROVE CacheOf(hop)' = CacheOf(hop)
  BY DEF Undisturbed, CacheOf, Table

(***************************************************************************)
(* "Servers on other hops are untouched" by a recovery, even when servers  *)
(* are restarted under it; only a worker that takes a session in use for   *)
(* an idle one can disturb them (client.py, step and _recover).            *)
(***************************************************************************)
THEOREM OtherHopsAlwaysUntouched == ASSUME ~LongIdle PROVE Spec => OtherHopsUntouched
<1>1. Plumbing /\ [Next]_vars => [Recovering => LeavesOtherHops]_vars
  <2> SUFFICES ASSUME Plumbing, [Next]_vars, Recovering, NEW hop \in route, hop.start # at
               PROVE  /\ hop \in route'
                      /\ history'[hop.start] = history[hop.start]
                      /\ up'[hop.peer.addr] => CacheOf(hop)' = CacheOf(hop)
    BY DEF LeavesOtherHops
  <2> DEFINE Goal == /\ hop \in route'
                     /\ history'[hop.start] = history[hop.start]
                     /\ up'[hop.peer.addr] => CacheOf(hop)' = CacheOf(hop)
  <2>1. ASSUME UNCHANGED sessions, hop \in route', history'[hop.start] = history[hop.start]
        PROVE  Goal
    BY <2>1 DEF CacheOf
  <2>2. CASE ServerStep /\ UNCHANGED <<listed, clientVars>>
    <3>1. \A q \in rpcs : q.sid # hop.sid
      BY SettledAlone DEF Recovering, Ended, Settled
    <3>2. Undisturbed(hop) \/ ~up'[hop.peer.addr]
      BY <2>2, <3>1, ServerUndisturbed DEF Plumbing
    <3> QED
      BY <2>2, <3>2, CacheKept DEF clientVars, stepVars
  <2>3. ASSUME NEW h \in route \cup plan, NEW r \in rpcs, ReplayDone(r, h) PROVE Goal
    <3>1. hop.start # rat /\ hop # h
      BY <2>3, ReplayElsewhere DEF ReplayDone
    <3>2. hop.start \in Layers /\ history \in [Layers -> Blocks]
      BY Shapes DEF Plumbing, TypeOK, ClientTypeOK, Assigned
    <3>3. history'[hop.start] = history[hop.start]
      BY <2>3, <3>1, <3>2 DEF ReplayDone, RememberReplay
    <3>4. hop \in route' /\ UNCHANGED sessions
      BY <2>3, <3>1 DEF ReplayDone, Splice
    <3> QED
      BY <2>1, <3>3, <3>4
  <2>4. ASSUME NEW h \in route \cup plan, Recover(h) PROVE Goal
    BY <2>1, <2>4 DEF Recover, Splice, serverVars
  <2>5. ASSUME NEW h \in route \cup plan, NEW r \in rpcs, CallFailed(r, h) \/ CallAbandoned(r, h)
        PROVE  Goal
    BY <2>1, <2>5 DEF CallFailed, CallAbandoned, RecordFailure, stepVars
  <2>6. ASSUME NEW h \in route \cup plan, Send(h) PROVE Goal
    BY <2>1, <2>6 DEF Send, stepVars
  <2>7. CASE NoRoute \/ RegistryFails
    BY <2>1, <2>7 DEF NoRoute, RegistryFails, serverVars, stepVars
  <2>8. CASE \/ BeginStep \/ EndGenerate \/ PlanRoute \/ Closed
             \/ \E r \in rpcs : HopDone(r)
             \/ \E h \in opened : SkipClose(h) \/ CloseHop(h)
    BY <2>8
    DEF Recovering, BeginStep, EndGenerate, PlanRoute, Closed, HopDone, SkipClose, CloseHop
  <2>9. CASE RegistryStep
    BY <2>1, <2>9 DEF RegistryStep, Announce, Expire, serverVars, clientVars, stepVars
  <2>10. CASE UNCHANGED vars
    BY <2>1, <2>10 DEF vars, serverVars, clientVars, stepVars
  <2> QED
    BY <2>2, <2>3, <2>4, <2>5, <2>6, <2>7, <2>8, <2>9, <2>10 DEF Next, ClientStep
<1> QED
  BY PlumbingCorrect, <1>1, PTL DEF Spec, OtherHopsUntouched

-----------------------------------------------------------------------------
(***************************************************************************)
(* The refinement.                                                         *)
(***************************************************************************)
LEMMA PhaseOf ==
  /\ pc = "idle" => Phase = "idle"
  /\ Ended => Phase = "ended"
  /\ pc # "idle" /\ ~Ended => Phase = "computing"
  BY DEF Phase, Ended

\* A step that ends is what the decoder of one process answers.
LEMMA AnswerStep ==
  ASSUME Plumbing, CallerInv, TensorInv, CalledInv,
         NEW r \in rpcs, HopDone(r), r.end = NumLayers
  PROVE  Gen!Answer
<1>1. pc = "await" /\ pc' = "idle" /\ output' = r.out /\ UNCHANGED <<status, past>>
  BY DEF HopDone
<1>2. r.out = Block(NumLayers, Base, past) /\ output.hi = Base
  BY <1>1, Answered DEF HopDone, CallerInv
<1>3. Phase = "computing" /\ Phase' = "idle"
  BY <1>1 DEF Phase
<1> QED
  BY <1>1, <1>2, <1>3 DEF Gen!Answer, Gen!Block, Block

\* What the caller submits is what generate() would of a decoder of its own.
LEMMA SubmitStep ==
  ASSUME TypeOK, CallerInv, BeginStep PROVE Gen!Submit
<1>1. /\ pc = "idle" /\ pc' \in {"plan", "forward"} /\ steps < MaxSteps
      /\ past' = past + (IF steps = 0 THEN PromptLen ELSE 1)
      /\ UNCHANGED <<status, output>>
  BY DEF BeginStep, callerVars
<1>2. Phase = "idle" /\ Phase' = "computing"
  BY <1>1 DEF Phase
<1>3. /\ steps \in Nat /\ past \in Nat /\ PromptLen \in Nat \ {0} /\ MaxSteps \in Nat
      /\ past = IF steps = 0 THEN 0 ELSE PromptLen + steps - 1
  BY <1>1, SessionParametersAreValid
  DEF TypeOK, ClientTypeOK, CallerInv, InferenceSessionAssumption
<1> QED
  BY <1>1, <1>2, <1>3 DEF Gen!Submit

(***************************************************************************)
(* The session implements the decoder of one process as long as workers    *)
(* keep the sessions in use: routing, failures, replays and late replies   *)
(* are steps the caller does not see (client.py, InferenceSession;         *)
(* docs/DESIGN.md, D11).  That a generation ends stays with TLC.           *)
(***************************************************************************)
THEOREM GenerationImplemented == ASSUME SessionsKept PROVE Spec => ImplementsGeneration
<1>1. Init => Gen!Init
  BY DEF Init, Gen!Init, Phase, Gen!Empty, Gen!Block, Empty, Block
<1>2. Plumbing /\ Contents /\ [Next]_vars => [Gen!Next]_(Gen!vars)
  <2> SUFFICES ASSUME Plumbing, Contents, [Next]_vars PROVE [Gen!Next]_(Gen!vars)
    OBVIOUS
  <2>0. TypeOK /\ (~Ended => CallerInv /\ TensorInv /\ CalledInv)
    BY DEF Plumbing, Contents
  <2>1. ASSUME Phase' = Phase, UNCHANGED <<status, past, output>>
        PROVE  UNCHANGED Gen!vars
    BY <2>1 DEF Gen!vars
  <2>2. CASE BeginStep
    BY <2>0, <2>2, SubmitStep DEF BeginStep, Ended, Gen!Next
  <2>3. CASE EndGenerate
    <3>1. Phase = "idle" /\ Phase' = "ended" /\ status' = "ok" /\ UNCHANGED <<past, output>>
      BY <2>3 DEF EndGenerate, Phase, callerVars
    <3> QED
      BY <3>1 DEF Gen!Next, Gen!End
  <2>4. ASSUME Fail, pc # "idle", ~Ended, UNCHANGED <<past, output>> PROVE Gen!Next
    <3>1. Phase = "computing" /\ Phase' = "ended" /\ status' = "failed"
      BY <2>4 DEF Fail, Phase, Ended
    <3> QED
      BY <2>4, <3>1 DEF Gen!Next, Gen!End
  <2>5. ASSUME pc # "idle", ~Ended, pc' # "idle", ~Ended', UNCHANGED <<status, past, output>>
        PROVE  UNCHANGED Gen!vars
    <3>1. Phase' = Phase
      BY <2>5 DEF Phase, Ended
    <3> QED
      BY <2>1, <2>5, <3>1
  <2>6. CASE NoRoute \/ RegistryFails
    BY <2>4, <2>6 DEF NoRoute, RegistryFails, Ended, callerVars
  <2>7. CASE PlanRoute
    BY <2>5, <2>7 DEF PlanRoute, Ended, callerVars
  <2>8. CASE Closed \/ \E hop \in opened : SkipClose(hop) \/ CloseHop(hop)
    <3>1. Phase' = Phase
      BY <2>8 DEF Closed, SkipClose, CloseHop, Phase
    <3> QED
      BY <2>1, <2>8, <3>1 DEF Closed, SkipClose, CloseHop, callerVars
  <2>9. ASSUME NEW hop \in route \cup plan, Send(hop) \/ Recover(hop)
        PROVE  UNCHANGED Gen!vars
    BY <2>5, <2>9 DEF Send, Hop, Recover, Ended, callerVars
  <2>10. ASSUME NEW hop \in route \cup plan, NEW r \in rpcs,
                CallFailed(r, hop) \/ CallAbandoned(r, hop)
         PROVE  Gen!Next \/ UNCHANGED Gen!vars
    <3>1. pc \in {"await", "awaitReplay"} /\ RecordFailure(hop)
      BY <2>10 DEF CallFailed, CallAbandoned, Awaited
    <3>2. UNCHANGED <<past, output>> /\ (Fail \/ (pc' = "recover" /\ UNCHANGED status))
      BY <3>1 DEF RecordFailure, callerVars
    <3> QED
      BY <2>4, <2>5, <3>1, <3>2 DEF Ended
  <2>11. ASSUME NEW hop \in route \cup plan, NEW r \in rpcs, ReplayDone(r, hop)
         PROVE  UNCHANGED Gen!vars
    BY <2>5, <2>11 DEF ReplayDone, Ended, callerVars
  <2>12. ASSUME NEW r \in rpcs, HopDone(r) PROVE Gen!Next \/ UNCHANGED Gen!vars
    <3>1. CASE r.end = NumLayers
      BY <2>0, <2>12, <3>1, AnswerStep DEF HopDone, Ended, Gen!Next
    <3>2. CASE r.end # NumLayers
      BY <2>5, <2>12, <3>2 DEF HopDone, Ended
    <3> QED
      BY <3>1, <3>2
  <2>13. ASSUME UNCHANGED clientVars PROVE UNCHANGED Gen!vars
    <3>1. Phase' = Phase
      BY <2>13 DEF clientVars, Phase
    <3> QED
      BY <2>1, <2>13, <3>1 DEF clientVars, callerVars
  <2>14. CASE RegistryStep
    BY <2>13, <2>14 DEF RegistryStep, Announce, Expire
  <2>15. CASE UNCHANGED vars
    BY <2>13, <2>15 DEF vars
  <2> QED
    BY <2>2, <2>3, <2>6, <2>7, <2>8, <2>9, <2>10, <2>11, <2>12, <2>13, <2>14, <2>15
    DEF Next, ClientStep
<1> QED
  BY PlumbingCorrect, ContentsCorrect, <1>1, <1>2, PTL
  DEF Spec, ImplementsGeneration, Gen!Spec

=============================================================================
