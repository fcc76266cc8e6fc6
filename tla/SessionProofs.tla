---------------------------- MODULE SessionProofs ----------------------------
(***************************************************************************)
(* Theorems about a generation over the swarm, for every number of layers, *)
(* servers, spans, steps and failures.                                     *)
(***************************************************************************)
EXTENDS SessionInvariant, FiniteSetTheorems, TLAPS

-----------------------------------------------------------------------------
(***************************************************************************)
(* Lemmas about the data: what the operators on tensors, routes and        *)
(* session tables return.                                                  *)
(***************************************************************************)
LEMMA EmptyType == ASSUME NEW l \in Boundaries PROVE Empty(l) \in Blocks
  BY DEF Empty, Block, Blocks

LEMMA CatType ==
  ASSUME NEW c \in Blocks, NEW t \in Blocks
  PROVE  Cat(c, t) \in Blocks
  BY DEF Cat, Width, Blocks

LEMMA ForwardedType ==
  ASSUME NEW c \in Blocks, NEW n \in Nat, NEW t \in Blocks, NEW e \in Boundaries
  PROVE  Forwarded(c, n, t, e) \in Blocks
  BY DEF Forwarded, Cat, Width, Blocks

LEMMA LayersInBoundaries == Layers \subseteq Boundaries
  BY LayersAssumption DEF Layers, Boundaries

LEMMA AbsorbType ==
  ASSUME NEW s \in Sessions, NEW t \in Blocks
  PROVE  Absorb(s, t) \in Sessions
<1>1. Cat(s.kv, t) \in Blocks
  BY CatType DEF Sessions
<1>2. Width(t) \in Nat
  BY DEF Width, Blocks
<1> QED
  BY <1>1, <1>2 DEF Absorb, Sessions

LEMMA EmptyTable == IsTable(<< >>)
<1>1. DOMAIN << >> = {}
  OBVIOUS
<1>2. << >> \in [{} -> Sessions]
  OBVIOUS
<1> QED
  BY <1>1, <1>2 DEF IsTable

LEMMA WithType ==
  ASSUME NEW t, IsTable(t), NEW key \in Keys, NEW s \in Sessions
  PROVE  IsTable(With(t, key, s))
  BY DEF IsTable, With

LEMMA WithoutType ==
  ASSUME NEW t, IsTable(t), NEW keys
  PROVE  IsTable(Without(t, keys))
  BY DEF IsTable, Without

LEMMA PlannedType ==
  ASSUME NEW peers \in SUBSET Peers, NEW s \in Layers, NEW e \in Boundaries,
         NEW r \in Routes(peers, s, e), NEW g \in Nat
  PROVE  Assign(r, g) \subseteq Assigned
<1>1. \A h \in r : h.peer \in Peers /\ h.start \in Layers /\ h.end \in Boundaries
  BY LayersAssumption DEF Routes, HopsWithin, Layers, Boundaries
<1> QED
  BY <1>1 DEF Assign, Assigned, Sids

LEMMA RequestType ==
  ASSUME NEW hop \in Assigned, NEW t \in Blocks, NEW reached \in BOOLEAN
  PROVE  Request(hop, t, reached) \in Rpcs
<1>1. Empty(0) \in Blocks
  BY EmptyType, LayersAssumption DEF Boundaries
<1>2. hop.peer.addr \in Addrs
  BY DEF Assigned, Peers
<1> QED
  BY <1>1, <1>2 DEF Request, Assigned, Rpcs

LEMMA KeyType == ASSUME NEW r \in Rpcs PROVE Key(r) \in Keys
  BY DEF Key, Keys, Rpcs

LEMMA TablesUpdated ==
  ASSUME ServersTypeOK, NEW a \in Addrs, NEW t, IsTable(t),
         sessions' = [sessions EXCEPT ![a] = t]
  PROVE  /\ sessions' = [b \in Addrs |-> sessions'[b]]
         /\ \A b \in Addrs : IsTable(sessions'[b])
  BY DEF ServersTypeOK

-----------------------------------------------------------------------------
(***************************************************************************)
(* Type correctness, one lemma per actor.                                  *)
(***************************************************************************)
LEMMA ServerTypes == TypeOK /\ ServerStep => ServersTypeOK'
<1> SUFFICES ASSUME TypeOK, ServerStep PROVE ServersTypeOK'
  OBVIOUS
<1> USE DEF TypeOK
<1>1. ASSUME NEW r \in rpcs, ForwardKnown(r) PROVE ServersTypeOK'
  <2>1. r \in Rpcs /\ IsTable(sessions[r.addr])
    BY DEF ServersTypeOK, Rpcs
  <2>2. [r EXCEPT !.st = "refused"] \in Rpcs
    BY <2>1 DEF Rpcs
  <2>3. Key(r) \in DOMAIN sessions[r.addr] =>
          [r EXCEPT !.st = "running", !.past = sessions[r.addr][Key(r)].length] \in Rpcs
    BY <2>1 DEF Rpcs, IsTable, Sessions
  <2> QED
    BY <1>1, <2>2, <2>3 DEF ForwardKnown, Advance, ServersTypeOK
<1>2. ASSUME NEW r \in rpcs, NEW idle, ForwardNew(r, idle) PROVE ServersTypeOK'
  <2> DEFINE a == r.addr
  <2>1. r \in Rpcs /\ a \in Addrs /\ IsTable(sessions[a])
    BY DEF ServersTypeOK, Rpcs
  <2>2. [r EXCEPT !.st = "refused"] \in Rpcs
    BY <2>1 DEF Rpcs
  <2>3. [r EXCEPT !.st = "running", !.past = 0] \in Rpcs
    BY <2>1 DEF Rpcs
  <2>4. [end |-> r.end, kv |-> Empty(r.start), length |-> 0] \in Sessions
    BY <2>1, EmptyType, LayersInBoundaries DEF Rpcs, Sessions
  <2>5. PICK gone : LET table == Without(sessions[a], gone) IN
          \/ /\ Advance(r, [r EXCEPT !.st = "refused"])
             /\ sessions' = [sessions EXCEPT ![a] = table]
          \/ /\ Advance(r, [r EXCEPT !.st = "running", !.past = 0])
             /\ sessions' = [sessions EXCEPT ![a] = With(table, Key(r),
                  [end |-> r.end, kv |-> Empty(r.start), length |-> 0])]
    BY <1>2 DEF ForwardNew
  <2>6. IsTable(Without(sessions[a], gone))
    BY <2>1, WithoutType
  <2>7. IsTable(With(Without(sessions[a], gone), Key(r),
                  [end |-> r.end, kv |-> Empty(r.start), length |-> 0]))
    BY <2>1, <2>4, <2>6, KeyType, WithType
  <2>8. /\ sessions' = [b \in Addrs |-> sessions'[b]]
        /\ \A b \in Addrs : IsTable(sessions'[b])
    BY <2>1, <2>5, <2>6, <2>7, TablesUpdated
  <2>9. rpcs' \subseteq Rpcs
    BY <2>2, <2>3, <2>5 DEF Advance, ServersTypeOK
  <2> QED
    BY <1>2, <2>8, <2>9 DEF ForwardNew, ServersTypeOK
<1>3. ASSUME NEW r \in rpcs, ForwardDone(r) PROVE ServersTypeOK'
  <2> DEFINE a == r.addr
             s == sessions[a][Key(r)]
             answer == [r EXCEPT !.st = "done", !.out = Forwarded(s.kv, r.past, r.x, r.end)]
  <2>1. r \in Rpcs /\ a \in Addrs /\ IsTable(sessions[a]) /\ s \in Sessions
    BY <1>3 DEF ServersTypeOK, Rpcs, ForwardDone, IsTable
  <2>2. r.x \in Blocks /\ r.past \in Nat /\ r.end \in Boundaries /\ s.kv \in Blocks
    BY <2>1 DEF Rpcs, Sessions
  <2>3. Forwarded(s.kv, r.past, r.x, r.end) \in Blocks
    BY <2>2, ForwardedType
  <2>4. answer \in Rpcs
    BY <2>1, <2>3 DEF Rpcs
  <2>5. IsTable(With(sessions[a], Key(r), Absorb(s, r.x)))
    BY <2>1, <2>2, KeyType, AbsorbType, WithType
  <2>6. sessions' = [sessions EXCEPT ![a] = With(sessions[a], Key(r), Absorb(s, r.x))]
    BY <1>3, <2>1 DEF ForwardDone
  <2>7. /\ sessions' = [b \in Addrs |-> sessions'[b]]
        /\ \A b \in Addrs : IsTable(sessions'[b])
    BY <2>1, <2>5, <2>6, TablesUpdated
  <2>8. rpcs' \subseteq Rpcs
    BY <1>3, <2>4 DEF ForwardDone, ServersTypeOK
  <2> QED
    BY <1>3, <2>7, <2>8 DEF ForwardDone, ServersTypeOK
<1>4. ASSUME NEW r \in rpcs, ForwardDoneOrphan(r) PROVE ServersTypeOK'
  BY <1>4 DEF ForwardDoneOrphan, ServersTypeOK
<1>5. ASSUME NEW r \in rpcs, ForwardCancelled(r) PROVE ServersTypeOK'
  <2> DEFINE a == r.addr
             s == sessions[a][Key(r)]
  <2>1. r \in Rpcs /\ a \in Addrs /\ IsTable(sessions[a])
    BY DEF ServersTypeOK, Rpcs
  <2>2. CASE UNCHANGED sessions
    BY <1>5, <2>2 DEF ForwardCancelled, ServersTypeOK
  <2>3. CASE Key(r) \in DOMAIN sessions[a] /\
             sessions' = [sessions EXCEPT ![a] =
                            With(@, Key(r), [s EXCEPT !.kv = Cat(s.kv, r.x)])]
    <3>1. s \in Sessions
      BY <2>1, <2>3 DEF IsTable
    <3>2. Cat(s.kv, r.x) \in Blocks
      BY <2>1, <3>1, CatType DEF Rpcs, Sessions
    <3>3. [s EXCEPT !.kv = Cat(s.kv, r.x)] \in Sessions
      BY <3>1, <3>2 DEF Sessions
    <3>4. IsTable(With(sessions[a], Key(r), [s EXCEPT !.kv = Cat(s.kv, r.x)]))
      BY <2>1, <3>3, KeyType, WithType
    <3>5. sessions' = [sessions EXCEPT ![a] =
             With(sessions[a], Key(r), [s EXCEPT !.kv = Cat(s.kv, r.x)])]
      BY <2>1, <2>3
    <3>6. /\ sessions' = [b \in Addrs |-> sessions'[b]]
          /\ \A b \in Addrs : IsTable(sessions'[b])
      BY <2>1, <3>4, <3>5, TablesUpdated
    <3> QED
      BY <1>5, <3>6 DEF ForwardCancelled, ServersTypeOK
  <2> QED
    BY <1>5, <2>2, <2>3 DEF ForwardCancelled
<1>6. ASSUME NEW a \in Addrs, NEW idle, Collect(a, idle) PROVE ServersTypeOK'
  <2>1. PICK gone : sessions' = [sessions EXCEPT ![a] = Without(sessions[a], gone)]
    BY <1>6 DEF Collect, ServersTypeOK
  <2>2. /\ sessions' = [b \in Addrs |-> sessions'[b]]
        /\ \A b \in Addrs : IsTable(sessions'[b])
    <3>1. IsTable(Without(sessions[a], gone))
      BY WithoutType DEF ServersTypeOK
    <3> QED
      BY <2>1, <3>1, TablesUpdated
  <2> QED
    BY <1>6, <2>2 DEF Collect, ServersTypeOK
<1>7. ASSUME NEW a \in Addrs, OtherClients(a) PROVE ServersTypeOK'
  BY <1>7 DEF OtherClients, ServersTypeOK
<1>8. ASSUME NEW a \in Addrs, Crash(a) PROVE ServersTypeOK'
  <2>1. sessions' = [sessions EXCEPT ![a] = Without(sessions[a], DOMAIN sessions[a])]
    BY <1>8 DEF Crash, ServersTypeOK
  <2>2. /\ sessions' = [b \in Addrs |-> sessions'[b]]
        /\ \A b \in Addrs : IsTable(sessions'[b])
    <3>1. IsTable(Without(sessions[a], DOMAIN sessions[a]))
      BY WithoutType DEF ServersTypeOK
    <3> QED
      BY <2>1, <3>1, TablesUpdated
  <2>3. \A r \in rpcs : [r EXCEPT !.st = "lost"] \in Rpcs
    BY DEF ServersTypeOK, Rpcs
  <2>4. rpcs' \subseteq Rpcs
    BY <1>8, <2>3 DEF Crash, ServersTypeOK
  <2> QED
    BY <1>8, <2>2, <2>4 DEF Crash, ServersTypeOK
<1>9. ASSUME NEW a \in Addrs, Start(a) PROVE ServersTypeOK'
  BY <1>9, WorkerBoundsAreValid DEF Start, ServersTypeOK, SpanWorkerAssumption
<1> QED
  BY <1>1, <1>2, <1>3, <1>4, <1>5, <1>6, <1>7, <1>8, <1>9 DEF ServerStep

LEMMA ClientTypes == TypeOK /\ ClientStep => TypeOK'
<1> SUFFICES ASSUME TypeOK, ClientStep PROVE TypeOK'
  OBVIOUS
<1> USE DEF TypeOK
<1>1. CASE BeginStep
  <2>1. hidden' \in Blocks
    BY <1>1, LayersAssumption, SessionParametersAreValid
    DEF BeginStep, InferenceSessionAssumption, ClientTypeOK, Blocks, Block, Boundaries
  <2>2. at' \in Boundaries /\ past' \in Nat
    BY <1>1, LayersAssumption, SessionParametersAreValid
    DEF BeginStep, InferenceSessionAssumption, ClientTypeOK, Boundaries
  <2> QED
    BY <1>1, <2>1, <2>2
    DEF BeginStep, ServersTypeOK, ClientTypeOK, serverVars, replayVars, blameVars, assignVars
<1>2. CASE EndGenerate
  BY <1>2
  DEF EndGenerate, ServersTypeOK, ClientTypeOK, serverVars, stepVars, replayVars,
      blameVars, assignVars, callerVars
<1>3. CASE PlanRoute
  <2>1. listed \ exclude \in SUBSET Peers /\ gen \in Nat
    BY DEF ClientTypeOK
  <2>2. 0 \in Layers /\ NumLayers \in Boundaries
    BY LayersAssumption DEF Layers, Boundaries
  <2>3. PICK r \in Routes(listed \ exclude, 0, NumLayers) :
          route' = Assign(r, gen) /\ opened' = opened \cup Assign(r, gen)
    BY <1>3 DEF PlanRoute, Open
  <2>4. Assign(r, gen) \subseteq Assigned
    BY <2>1, <2>2, PlannedType
  <2> QED
    BY <1>3, <2>3, <2>4
    DEF PlanRoute, ServersTypeOK, ClientTypeOK, serverVars, replayVars, blameVars, callerVars
<1>4. CASE NoRoute
  BY <1>4
  DEF NoRoute, Fail, ServersTypeOK, ClientTypeOK, serverVars, stepVars, replayVars,
      blameVars, assignVars, callerVars
<1>5. CASE RegistryFails
  BY <1>5
  DEF RegistryFails, Fail, ServersTypeOK, ClientTypeOK, serverVars, stepVars, replayVars,
      blameVars, assignVars, callerVars
<1>6. CASE Closed
  BY <1>6
  DEF Closed, ServersTypeOK, ClientTypeOK, serverVars, stepVars, replayVars,
      blameVars, assignVars, callerVars
<1>7. ASSUME NEW hop \in route \cup plan, Send(hop) PROVE TypeOK'
  <2>1. hop \in Assigned /\ hidden \in Blocks /\ x \in Blocks
    BY DEF ClientTypeOK
  <2>2. up[hop.peer.addr] \in BOOLEAN
    BY <2>1 DEF ServersTypeOK, Assigned, Peers
  <2>3. /\ Request(hop, hidden, up[hop.peer.addr]) \in Rpcs
        /\ Request(hop, x, up[hop.peer.addr]) \in Rpcs
    BY <2>1, <2>2, RequestType
  <2>4. rpcs' \subseteq Rpcs
    BY <1>7, <2>3 DEF Send, ServersTypeOK
  <2> QED
    BY <1>7, <2>4
    DEF Send, ServersTypeOK, ClientTypeOK, stepVars, replayVars, blameVars, assignVars,
        callerVars
<1>8. ASSUME NEW hop \in route \cup plan, Recover(hop) PROVE TypeOK'
  <2>1. hop \in Assigned /\ listed \ exclude \in SUBSET Peers /\ gen \in Nat
    BY DEF ClientTypeOK
  <2>2. PICK r \in Routes(listed \ exclude, hop.start, hop.end) :
          /\ opened' = opened \cup Assign(r, gen)
          /\ \/ route' = (route \ {hop}) \cup Assign(r, gen) /\ UNCHANGED replayVars
             \/ /\ plan' = Assign(r, gen) /\ rat' = at /\ x' = history[at]
                /\ UNCHANGED route
          /\ pc' \in {"forward", "replay"}
    BY <1>8 DEF Recover, Open, Splice
  <2>3. Assign(r, gen) \subseteq Assigned
    BY <2>1, PlannedType DEF Assigned
  <2>4. history[at] \in Blocks
    BY <1>8, <2>1 DEF Recover, ClientTypeOK, Assigned
  <2> QED
    BY <1>8, <2>2, <2>3, <2>4
    DEF Recover, ServersTypeOK, ClientTypeOK, serverVars, replayVars, blameVars, callerVars
<1>9. ASSUME NEW hop, hop \in Assigned, RecordFailure(hop), rpcs' \subseteq Rpcs
      PROVE  TypeOK'
  BY <1>9
  DEF RecordFailure, Fail, Blame, ServersTypeOK, ClientTypeOK, stepVars, assignVars,
      callerVars, Assigned
<1>10. ASSUME NEW hop \in route \cup plan, NEW r \in rpcs, CallFailed(r, hop) PROVE TypeOK'
  BY <1>9, <1>10 DEF CallFailed, ServersTypeOK, ClientTypeOK
<1>11. ASSUME NEW hop \in route \cup plan, NEW r \in rpcs, CallAbandoned(r, hop) PROVE TypeOK'
  <2>1. [r EXCEPT !.live = FALSE] \in Rpcs
    BY DEF ServersTypeOK, Rpcs
  <2>2. rpcs' \subseteq Rpcs
    BY <1>11, <2>1 DEF CallAbandoned, ServersTypeOK
  <2> QED
    BY <1>9, <1>11, <2>2 DEF CallAbandoned, ClientTypeOK
<1>12. ASSUME NEW hop \in route \cup plan, NEW r \in rpcs, ReplayDone(r, hop) PROVE TypeOK'
  <2>1. r.out \in Blocks /\ r.end \in Boundaries
    BY DEF ServersTypeOK, Rpcs
  <2> QED
    BY <1>12, <2>1
    DEF ReplayDone, RememberReplay, Splice, ServersTypeOK, ClientTypeOK, blameVars,
        assignVars, callerVars
<1>13. ASSUME NEW r \in rpcs, HopDone(r) PROVE TypeOK'
  <2>1. r.out \in Blocks /\ r.end \in Boundaries
    BY DEF ServersTypeOK, Rpcs
  <2>2. history' \in [Layers -> Blocks]
    BY <1>13, CatType DEF HopDone, Remember, ClientTypeOK
  <2> QED
    BY <1>13, <2>1, <2>2
    DEF HopDone, ServersTypeOK, ClientTypeOK, replayVars, blameVars, assignVars
<1>14. ASSUME NEW hop \in opened, SkipClose(hop) PROVE TypeOK'
  BY <1>14
  DEF SkipClose, ServersTypeOK, ClientTypeOK, serverVars, stepVars, replayVars, blameVars,
      callerVars
<1>15. ASSUME NEW hop \in opened, CloseHop(hop) PROVE TypeOK'
  <2>1. hop \in Assigned /\ hop.peer.addr \in Addrs
    BY DEF ClientTypeOK, Assigned, Peers
  <2>2. /\ sessions' = [b \in Addrs |-> sessions'[b]]
        /\ \A b \in Addrs : IsTable(sessions'[b])
    <3>1. CASE UNCHANGED sessions
      BY <3>1 DEF ServersTypeOK
    <3>2. CASE CloseSession(hop.peer.addr, hop.sid)
      <4>1. PICK keys : sessions' = [sessions EXCEPT ![hop.peer.addr] =
                                       Without(sessions[hop.peer.addr], keys)]
        BY <2>1, <3>2 DEF CloseSession, ServersTypeOK
      <4>2. IsTable(Without(sessions[hop.peer.addr], keys))
        BY <2>1, WithoutType DEF ServersTypeOK
      <4> QED
        BY <2>1, <4>1, <4>2, TablesUpdated
    <3> QED
      BY <1>15, <3>1, <3>2 DEF CloseHop
  <2> QED
    BY <1>15, <2>1, <2>2
    DEF CloseHop, ServersTypeOK, ClientTypeOK, stepVars, replayVars, blameVars, callerVars
<1> QED
  BY <1>1, <1>2, <1>3, <1>4, <1>5, <1>6, <1>7, <1>8, <1>10, <1>11, <1>12, <1>13,
     <1>14, <1>15
  DEF ClientStep

LEMMA TypesInit == Init => TypeOK
<1> SUFFICES ASSUME Init PROVE TypeOK
  OBVIOUS
<1>1. 0 \in Boundaries /\ NumLayers \in Boundaries
  BY LayersAssumption DEF Boundaries
<1>2. Empty(0) \in Blocks /\ Empty(NumLayers) \in Blocks
  BY <1>1, EmptyType
<1>3. history \in [Layers -> Blocks]
  BY EmptyType, LayersInBoundaries DEF Init
<1>4. listed \subseteq Peers
  BY SessionParametersAreValid
  DEF Init, ServersInit, CurrentPeer, Peers, InferenceSessionAssumption
<1>5. ServersTypeOK
  <2>1. inc \in [Addrs -> 0 .. MaxInc] /\ load \in [Addrs -> Nat]
    BY WorkerBoundsAreValid DEF Init, ServersInit, SpanWorkerAssumption
  <2>2. up \in [Addrs -> BOOLEAN]
    BY DEF Init, ServersInit
  <2>3. \A a \in Addrs : up[a] => inc[a] > 0
    <3> TAKE a \in Addrs
    <3>1. up[a] => a \in Founders
      BY Zenon DEF Init, ServersInit
    <3>2. a \in Founders => inc[a] = 1
      BY DEF Init, ServersInit
    <3> QED
      BY <3>1, <3>2
  <2>4. \A a \in Addrs : sessions[a] = << >>
    BY DEF Init, ServersInit
  <2>5. sessions = [a \in Addrs |-> sessions[a]]
    BY DEF Init, ServersInit
  <2> QED
    BY <2>1, <2>2, <2>3, <2>4, <2>5, EmptyTable DEF Init, ServersInit, ServersTypeOK
<1> QED
  BY <1>1, <1>2, <1>3, <1>4, <1>5 DEF Init, TypeOK, ClientTypeOK

LEMMA TypesStep == TypeOK /\ [Next]_vars => TypeOK'
<1> SUFFICES ASSUME TypeOK, [Next]_vars PROVE TypeOK'
  OBVIOUS
<1>1. CASE ServerStep /\ UNCHANGED <<listed, clientVars>>
  BY <1>1, ServerTypes
  DEF TypeOK, ClientTypeOK, clientVars, stepVars, replayVars, blameVars, assignVars,
      callerVars
<1>2. CASE ClientStep
  BY <1>2, ClientTypes
<1>3. CASE RegistryStep
  <2>1. \A a \in Addrs : up[a] => CurrentPeer(a) \in Peers
    BY DEF TypeOK, ServersTypeOK, CurrentPeer, Peers
  <2> QED
    BY <1>3, <2>1
    DEF RegistryStep, Announce, Expire, TypeOK, ServersTypeOK, ClientTypeOK, serverVars,
        clientVars, stepVars, replayVars, blameVars, assignVars, callerVars
<1>4. CASE UNCHANGED vars
  BY <1>4
  DEF vars, TypeOK, ServersTypeOK, ClientTypeOK, serverVars, clientVars, stepVars,
      replayVars, blameVars, assignVars, callerVars
<1> QED
  BY <1>1, <1>2, <1>3, <1>4 DEF Next

(***************************************************************************)
(* Every variable keeps its type in every generation: no handler of the    *)
(* client, the registry or the servers leaves the state space the source's *)
(* dataclasses and dicts describe.                                         *)
(***************************************************************************)
THEOREM TypesCorrect == Spec => []TypeOK
BY TypesInit, TypesStep, PTL DEF Spec

-----------------------------------------------------------------------------
(***************************************************************************)
(* What it means for hops to tile a range of layers: there is a hop to     *)
(* enter by, one behind every hop but the last, no two enter at one layer, *)
(* and a hop may be replaced by hops that tile its own layers.             *)
(***************************************************************************)
\* Records that have the bounds of a hop.
Bounded(hops) == \A h \in hops : h.start \in Nat /\ h.end \in Nat

\* The layer a range begins with is the entry layer of one of its hops.
LEMMA ChainEntry ==
  ASSUME NEW hops, Bounded(hops), NEW s \in Nat, NEW e \in Nat, s < e,
         IsChain(hops, s, e)
  PROVE  \E h \in hops : h.start = s
  BY DEF IsChain, Serves, Bounded

\* A hop that does not end the range has a next hop.
LEMMA ChainNext ==
  ASSUME NEW hops, Bounded(hops), NEW s \in Nat, NEW e \in Nat,
         IsChain(hops, s, e), NEW g \in hops, g.end < e
  PROVE  \E h \in hops : h.start = g.end
<1>1. s <= g.start /\ g.start < g.end /\ g.start \in Nat /\ g.end \in Nat
  BY DEF IsChain, Bounded
<1>2. PICK h \in hops : Serves(h, g.end)
  BY <1>1 DEF IsChain
<1>3. h.start \in Nat /\ h.end \in Nat /\ h.start <= g.end /\ g.end < h.end
  BY <1>2 DEF Serves, Bounded
<1>4. ASSUME h.start < g.end PROVE FALSE
  <2>1. g.end - 1 \in s .. e - 1
    BY <1>1
  <2>2. Serves(g, g.end - 1) /\ Serves(h, g.end - 1)
    BY <1>1, <1>3, <1>4 DEF Serves
  <2>3. g = h
    BY <2>1, <2>2 DEF IsChain
  <2> QED
    BY <1>1, <1>3, <2>3
<1> QED
  BY <1>1, <1>3, <1>4

\* Two hops of a chain never enter at one layer.
LEMMA ChainUnique ==
  ASSUME NEW hops, Bounded(hops), NEW s \in Nat, NEW e \in Nat,
         IsChain(hops, s, e), NEW g \in hops, NEW h \in hops, g.start = h.start
  PROVE  g = h
  BY DEF IsChain, Serves, Bounded

\* A hop that enters elsewhere lies outside the layers of this one.
LEMMA ChainApart ==
  ASSUME NEW hops, Bounded(hops), NEW s \in Nat, NEW e \in Nat,
         IsChain(hops, s, e), NEW g \in hops, NEW h \in hops, g.start # h.start
  PROVE  g.end <= h.start \/ h.end <= g.start
<1>1. /\ g.start \in Nat /\ g.end \in Nat /\ h.start \in Nat /\ h.end \in Nat
      /\ s <= g.start /\ g.start < g.end /\ g.end <= e
      /\ s <= h.start /\ h.start < h.end /\ h.end <= e
  BY DEF IsChain, Bounded
<1>2. ASSUME NEW l \in s .. e - 1, Serves(g, l), Serves(h, l) PROVE FALSE
  BY <1>2 DEF IsChain
<1>3. CASE g.start < h.start
  <2>1. h.start \in s .. e - 1 /\ Serves(h, h.start)
    BY <1>1 DEF Serves
  <2>2. ~Serves(g, h.start)
    BY <1>2, <2>1
  <2> QED
    BY <1>1, <1>3, <2>2 DEF Serves
<1>4. CASE h.start < g.start
  <2>1. g.start \in s .. e - 1 /\ Serves(g, g.start)
    BY <1>1 DEF Serves
  <2>2. ~Serves(h, g.start)
    BY <1>2, <2>1
  <2> QED
    BY <1>1, <1>4, <2>2 DEF Serves
<1> QED
  BY <1>1, <1>3, <1>4

\* Replacing a hop by a chain over its layers leaves a chain.
LEMMA ChainSplice ==
  ASSUME NEW hops, Bounded(hops), NEW new, Bounded(new),
         NEW s \in Nat, NEW e \in Nat, IsChain(hops, s, e),
         NEW hop \in hops, IsChain(new, hop.start, hop.end)
  PROVE  IsChain((hops \ {hop}) \cup new, s, e)
<1> DEFINE spliced == (hops \ {hop}) \cup new
<1>1. /\ hop.start \in Nat /\ hop.end \in Nat
      /\ s <= hop.start /\ hop.start < hop.end /\ hop.end <= e
  BY DEF IsChain, Bounded
<1>2. \A h \in new : /\ h.start \in Nat /\ h.end \in Nat
                     /\ hop.start <= h.start /\ h.start < h.end /\ h.end <= hop.end
  BY DEF IsChain, Bounded
<1>3. \A h \in spliced : s <= h.start /\ h.start < h.end /\ h.end <= e
  BY <1>1, <1>2 DEF IsChain
<1>4. ASSUME NEW l \in s .. e - 1 PROVE \E h \in spliced : Serves(h, l)
  <2>1. PICK h \in hops : Serves(h, l)
    BY DEF IsChain
  <2>2. CASE h = hop
    <3>1. l \in hop.start .. hop.end - 1
      BY <1>1, <2>1, <2>2 DEF Serves
    <3> QED
      BY <3>1 DEF IsChain
  <2> QED
    BY <2>1, <2>2
<1>5. ASSUME NEW l \in s .. e - 1, NEW g \in spliced, NEW h \in spliced,
             Serves(g, l), Serves(h, l)
      PROVE  g = h
  <2>1. \A n \in new : Serves(n, l) => l \in hop.start .. hop.end - 1 /\ Serves(hop, l)
    BY <1>1, <1>2 DEF Serves
  <2>2. CASE g \in new /\ h \in new
    BY <1>5, <2>1, <2>2 DEF IsChain
  <2>3. CASE g \in hops /\ h \in hops
    BY <1>5, <2>3 DEF IsChain
  <2>4. ASSUME NEW n \in new, NEW o \in hops \ {hop}, Serves(n, l), Serves(o, l)
        PROVE  FALSE
    <3>1. Serves(hop, l)
      BY <2>1, <2>4
    <3> QED
      BY <2>4, <3>1 DEF IsChain
  <2> QED
    BY <1>5, <2>2, <2>3, <2>4
<1> QED
  BY <1>3, <1>4, <1>5 DEF IsChain

-----------------------------------------------------------------------------
(***************************************************************************)
(* Plumbing is an inductive invariant of every generation, whatever the    *)
(* servers do: they may restart, and forget sessions that are in use.      *)
(***************************************************************************)
-----------------------------------------------------------------------------
(***************************************************************************)
(* Assigned hops as chains.                                                *)
(***************************************************************************)
LEMMA AssignedBounded ==
  ASSUME NEW hops \in SUBSET Assigned PROVE Bounded(hops)
  BY LayersAssumption DEF Bounded, Assigned, Layers, Boundaries

LEMMA BoundariesAreNat == Layers \subseteq Nat /\ Boundaries \subseteq Nat
  BY LayersAssumption DEF Layers, Boundaries

\* The hops of a new plan tile the layers it was made for, each with a session
\* id drawn for it by this plan.
LEMMA PlannedChain ==
  ASSUME NEW peers \in SUBSET Peers, NEW s \in Layers, NEW e \in Boundaries,
         NEW r \in Routes(peers, s, e), NEW g \in Nat
  PROVE  /\ IsChain(Assign(r, g), s, e)
         /\ \A hop \in Assign(r, g) : hop.sid = <<g, hop.start>>
<1> DEFINE new == Assign(r, g)
<1>1. /\ IsChain(r, s, e)
      /\ \A h \in r : h.start \in Nat /\ h.end \in Nat
  BY BoundariesAreNat, LayersAssumption DEF Routes, HopsWithin, Layers, Boundaries
<1>2. \A hop \in new : \E h \in r :
        hop = [peer |-> h.peer, start |-> h.start, end |-> h.end, sid |-> <<g, h.start>>]
  BY DEF Assign
<1>3. \A hop \in new : hop.sid = <<g, hop.start>>
  BY <1>2
<1>4. \A hop \in new : s <= hop.start /\ hop.start < hop.end /\ hop.end <= e
  BY <1>1, <1>2 DEF IsChain
<1>5. ASSUME NEW l \in s .. e - 1 PROVE \E hop \in new : Serves(hop, l)
  <2>1. PICK h \in r : Serves(h, l)
    BY <1>1 DEF IsChain
  <2>2. [peer |-> h.peer, start |-> h.start, end |-> h.end, sid |-> <<g, h.start>>] \in new
    BY DEF Assign
  <2> QED
    BY <2>1, <2>2 DEF Serves
<1>6. ASSUME NEW l \in s .. e - 1, NEW p \in new, NEW q \in new, Serves(p, l), Serves(q, l)
      PROVE  p = q
  <2>1. PICK h \in r :
          p = [peer |-> h.peer, start |-> h.start, end |-> h.end, sid |-> <<g, h.start>>]
    BY <1>2
  <2>2. PICK i \in r :
          q = [peer |-> i.peer, start |-> i.start, end |-> i.end, sid |-> <<g, i.start>>]
    BY <1>2
  <2>3. Serves(h, l) /\ Serves(i, l)
    BY <1>6, <2>1, <2>2 DEF Serves
  <2>4. h = i
    BY <1>1, <2>3 DEF IsChain
  <2> QED
    BY <2>1, <2>2, <2>4
<1> QED
  BY <1>3, <1>4, <1>5, <1>6 DEF IsChain

-----------------------------------------------------------------------------
(***************************************************************************)
(* Facts every step starts from.                                           *)
(***************************************************************************)
LEMMA Shapes ==
  ASSUME TypeOK
  PROVE  /\ route \subseteq Assigned /\ plan \subseteq Assigned
         /\ Bounded(route) /\ Bounded(plan)
         /\ NumLayers \in Nat \ {0} /\ 0 \in Layers /\ NumLayers \in Boundaries
         /\ at \in Nat /\ rat \in Nat /\ gen \in Nat
         /\ listed \ exclude \in SUBSET Peers
  BY AssignedBounded, BoundariesAreNat, LayersAssumption
  DEF TypeOK, ClientTypeOK, Layers, Boundaries

\* The hop the client waits for is the one its request names.
LEMMA AwaitedHop ==
  ASSUME Plumbing, NEW r \in rpcs, Awaited(r)
  PROVE  /\ pc = "await" => \E hop \in route : hop.start = at /\ Asks(r, hop)
         /\ pc = "awaitReplay" => \E hop \in plan : hop.start = rat /\ Asks(r, hop)
  BY DEF Plumbing, CallInv, Awaited, Hop

\* The hop being replaced.
LEMMA FailedHop ==
  ASSUME Plumbing, Replaying, NEW hop \in route, hop.start = at
  PROVE  IsChain(plan, hop.start, hop.end)
<1>1. PICK h \in route : h.start = at /\ IsChain(plan, h.start, h.end)
  BY DEF Plumbing, PlanInv
<1>2. IsChain(route, 0, NumLayers)
  BY DEF Plumbing, RouteInv
<1>3. h = hop
  BY <1>1, <1>2, Shapes, ChainUnique DEF Plumbing
<1> QED
  BY <1>1, <1>3

LEMMA RouteStep == Plumbing /\ [Next]_vars => RouteInv' /\ PlanInv'
<1> SUFFICES ASSUME Plumbing, [Next]_vars PROVE RouteInv' /\ PlanInv'
  OBVIOUS
<1> USE DEF InStep, Recovering, Replaying
<1>0. TypeOK /\ RouteInv /\ PlanInv
  BY DEF Plumbing
<1>1. ASSUME UNCHANGED <<pc, route, at, plan, rat>> PROVE RouteInv' /\ PlanInv'
  BY <1>0, <1>1 DEF RouteInv, PlanInv
<1>2. CASE BeginStep
  <2>1. route # {} => \E hop \in route : hop.start = 0
    BY <1>0, Shapes, ChainEntry DEF RouteInv
  <2> QED
    BY <1>0, <1>2, <2>1 DEF BeginStep, RouteInv, PlanInv, replayVars
<1>3. CASE EndGenerate
  BY <1>0, <1>3 DEF EndGenerate, RouteInv, PlanInv, stepVars, replayVars
<1>4. CASE PlanRoute
  <2>1. PICK r \in Routes(listed \ exclude, 0, NumLayers) : route' = Assign(r, gen)
    BY <1>4 DEF PlanRoute
  <2>2. IsChain(route', 0, NumLayers)
    BY <1>0, <2>1, Shapes, PlannedChain
  <2>3. Bounded(route')
    BY <1>0, <2>1, Shapes, PlannedType, AssignedBounded
  <2>4. \E hop \in route' : hop.start = 0
    BY <1>0, <2>2, <2>3, Shapes, ChainEntry
  <2> QED
    BY <1>0, <1>4, <2>2, <2>4 DEF PlanRoute, RouteInv, PlanInv, replayVars
<1>5. CASE NoRoute \/ RegistryFails
  BY <1>0, <1>5
  DEF NoRoute, RegistryFails, Fail, RouteInv, PlanInv, stepVars, replayVars
<1>6. CASE Closed
  BY <1>0, <1>6 DEF Closed, RouteInv, PlanInv, stepVars, replayVars
<1>7. ASSUME NEW hop \in route \cup plan, Send(hop) PROVE RouteInv' /\ PlanInv'
  BY <1>0, <1>7 DEF Send, RouteInv, PlanInv, stepVars, replayVars
<1>8. ASSUME NEW hop \in route \cup plan, Recover(hop) PROVE RouteInv' /\ PlanInv'
  <2>1. PICK r \in Routes(listed \ exclude, hop.start, hop.end) :
          \/ /\ route' = (route \ {hop}) \cup Assign(r, gen) /\ UNCHANGED replayVars
             /\ pc' = "forward"
          \/ /\ plan' = Assign(r, gen) /\ rat' = at /\ pc' = "replay"
             /\ UNCHANGED route
    BY <1>8 DEF Recover, Splice
  <2> DEFINE new == Assign(r, gen)
  <2>2. /\ hop \in route /\ hop.start = at /\ pc = "recover" /\ at' = at
        /\ hop \in Assigned
    BY <1>0, <1>8, Shapes DEF Recover
  <2>3. IsChain(route, 0, NumLayers) /\ hop.start < hop.end
    BY <1>0, <2>2 DEF RouteInv, IsChain
  <2>4. IsChain(new, hop.start, hop.end) /\ Bounded(new)
    BY <1>0, <2>2, Shapes, PlannedChain, PlannedType, AssignedBounded DEF Assigned
  <2>5. \E h \in new : h.start = at
    BY <2>2, <2>3, <2>4, BoundariesAreNat, ChainEntry DEF Assigned
  <2>6. IsChain((route \ {hop}) \cup new, 0, NumLayers)
    BY <1>0, <2>2, <2>3, <2>4, Shapes, ChainSplice
  <2> QED
    BY <1>0, <2>1, <2>2, <2>3, <2>4, <2>5, <2>6 DEF RouteInv, PlanInv, replayVars
<1>9. ASSUME NEW hop, RecordFailure(hop), Calling PROVE RouteInv' /\ PlanInv'
  BY <1>0, <1>9 DEF RecordFailure, Fail, Calling, RouteInv, PlanInv, stepVars
<1>10. ASSUME NEW hop \in route \cup plan, NEW r \in rpcs,
              CallFailed(r, hop) \/ CallAbandoned(r, hop)
       PROVE  RouteInv' /\ PlanInv'
  BY <1>9, <1>10 DEF CallFailed, CallAbandoned, Awaited, Calling
<1>11. ASSUME NEW hop \in route \cup plan, NEW r \in rpcs, ReplayDone(r, hop)
       PROVE  RouteInv' /\ PlanInv'
  <2>1. /\ hop \in route /\ hop.start = at /\ pc = "awaitReplay" /\ at' = at
        /\ rat' = r.end
    BY <1>11 DEF ReplayDone
  <2>2. PICK p \in plan : p.start = rat /\ p.end = r.end
    BY <1>11, <2>1, AwaitedHop DEF ReplayDone, Asks
  <2>3. IsChain(plan, hop.start, hop.end) /\ IsChain(route, 0, NumLayers)
    BY <1>0, <2>1, FailedHop DEF RouteInv
  <2>4. hop.start \in Nat /\ hop.end \in Nat /\ hop.start < hop.end /\ p.end <= hop.end
    BY <1>0, <2>1, <2>2, <2>3, Shapes DEF IsChain, Bounded
  <2>5. CASE r.end = hop.end
    <3>1. route' = (route \ {hop}) \cup plan /\ plan' = {} /\ pc' = "forward"
      BY <1>11, <2>5 DEF ReplayDone, Splice
    <3>2. IsChain(route', 0, NumLayers)
      BY <1>0, <2>1, <2>3, <3>1, Shapes, ChainSplice
    <3>3. \E h \in plan : h.start = at
      BY <1>0, <2>1, <2>3, <2>4, Shapes, ChainEntry
    <3> QED
      BY <2>1, <3>1, <3>2, <3>3 DEF RouteInv, PlanInv
  <2>6. CASE r.end # hop.end
    <3>1. pc' = "replay" /\ route' = route /\ plan' = plan
      BY <1>11, <2>6 DEF ReplayDone
    <3>2. p.end < hop.end
      BY <1>0, <2>2, <2>4, <2>6, Shapes DEF Bounded
    <3>3. \E h \in plan : h.start = rat'
      BY <1>0, <2>1, <2>2, <2>3, <2>4, <3>2, Shapes, ChainNext
    <3> QED
      BY <1>0, <2>1, <2>3, <3>1, <3>3 DEF RouteInv, PlanInv
  <2> QED
    BY <2>5, <2>6
<1>12. ASSUME NEW r \in rpcs, HopDone(r) PROVE RouteInv' /\ PlanInv'
  <2>1. PICK hop \in route : hop.start = at /\ hop.end = r.end
    BY <1>12, AwaitedHop DEF HopDone, Asks
  <2>2. IsChain(route, 0, NumLayers)
    BY <1>0, <2>1 DEF RouteInv
  <2>3. r.end # NumLayers => \E h \in route : h.start = r.end
    <3>1. hop.end \in Nat /\ hop.end <= NumLayers
      BY <1>0, <2>1, <2>2, Shapes DEF IsChain, Bounded
    <3> QED
      BY <1>0, <2>1, <2>2, <3>1, Shapes, ChainNext
  <2> QED
    BY <1>0, <1>12, <2>2, <2>3 DEF HopDone, RouteInv, PlanInv, replayVars
<1>13. ASSUME NEW hop \in opened, SkipClose(hop) \/ CloseHop(hop)
       PROVE  RouteInv' /\ PlanInv'
  BY <1>1, <1>13 DEF SkipClose, CloseHop, stepVars, replayVars
<1>14. CASE ServerStep /\ UNCHANGED <<listed, clientVars>>
  BY <1>1, <1>14 DEF clientVars, stepVars, replayVars
<1>15. CASE RegistryStep
  BY <1>1, <1>15 DEF RegistryStep, Announce, Expire, clientVars, stepVars, replayVars
<1>16. CASE UNCHANGED vars
  BY <1>1, <1>16 DEF vars, clientVars, stepVars, replayVars
<1> QED
  BY <1>2, <1>3, <1>4, <1>5, <1>6, <1>7, <1>8, <1>10, <1>11, <1>12, <1>13, <1>14,
     <1>15, <1>16
  DEF Next, ClientStep

-----------------------------------------------------------------------------
(***************************************************************************)
(* What servers do to requests and to session keys.                        *)
(***************************************************************************)
Same(s, r) ==
  /\ s.addr = r.addr /\ s.sid = r.sid /\ s.start = r.start /\ s.end = r.end
  /\ s.x = r.x /\ s.live = r.live

\* A server only moves requests on, one by one, or loses them.
LEMMA ServerRpcs ==
  ASSUME TypeOK, ServerStep
  PROVE  /\ \A s \in rpcs' : \E r \in rpcs : Same(s, r)
         /\ CachesNotShared => CachesNotShared'
<1> DEFINE Goal == /\ \A s \in rpcs' : \E r \in rpcs : Same(s, r)
                   /\ CachesNotShared => CachesNotShared'
<1>1. ASSUME NEW r \in rpcs, NEW s, Same(s, r), rpcs' = (rpcs \ {r}) \cup {s} PROVE Goal
  BY <1>1 DEF Same, CachesNotShared, Key
<1>2. ASSUME rpcs' \subseteq rpcs PROVE Goal
  BY <1>2 DEF Same, CachesNotShared
<1>3. ASSUME NEW r \in rpcs,
             ForwardKnown(r) \/ ForwardNew(r, Idle(r.addr)) \/ ForwardDone(r)
             \/ ForwardDoneOrphan(r) \/ ForwardCancelled(r)
      PROVE  Goal
  <2>1. r \in Rpcs
    BY DEF TypeOK, ServersTypeOK
  <2>2. CASE ForwardKnown(r)
    <3>1. PICK n, st : rpcs' = (rpcs \ {r}) \cup {[r EXCEPT !.st = st, !.past = n]}
                    \/ rpcs' = (rpcs \ {r}) \cup {[r EXCEPT !.st = st]}
      BY <2>2 DEF ForwardKnown, Advance
    <3>2. Same([r EXCEPT !.st = st, !.past = n], r) /\ Same([r EXCEPT !.st = st], r)
      BY <2>1 DEF Same, Rpcs
    <3> QED
      BY <1>1, <3>1, <3>2
  <2>3. CASE ForwardNew(r, Idle(r.addr))
    <3>1. \/ rpcs' = (rpcs \ {r}) \cup {[r EXCEPT !.st = "running", !.past = 0]}
          \/ rpcs' = (rpcs \ {r}) \cup {[r EXCEPT !.st = "refused"]}
      BY <2>3 DEF ForwardNew, Advance
    <3>2. /\ Same([r EXCEPT !.st = "running", !.past = 0], r)
          /\ Same([r EXCEPT !.st = "refused"], r)
      BY <2>1 DEF Same, Rpcs
    <3> QED
      BY <1>1, <3>1, <3>2
  <2>4. CASE ForwardDone(r)
    <3>1. PICK out : \/ rpcs' = (rpcs \ {r}) \cup {[r EXCEPT !.st = "done", !.out = out]}
                     \/ rpcs' = (rpcs \ {r}) \cup {}
      BY <2>4 DEF ForwardDone
    <3>2. Same([r EXCEPT !.st = "done", !.out = out], r)
      BY <2>1 DEF Same, Rpcs
    <3> QED
      BY <1>1, <1>2, <3>1, <3>2
  <2>5. CASE ForwardDoneOrphan(r) \/ ForwardCancelled(r)
    BY <1>2, <2>5 DEF ForwardDoneOrphan, ForwardCancelled
  <2> QED
    BY <1>3, <2>2, <2>3, <2>4, <2>5
<1>4. ASSUME NEW a \in Addrs, Crash(a) PROVE Goal
  <2>1. \A r \in rpcs : Same([r EXCEPT !.st = "lost"], r)
    BY DEF Same, TypeOK, ServersTypeOK, Rpcs
  <2>2. \A s \in rpcs' :
          \/ s \in rpcs /\ s.addr # a
          \/ \E r \in rpcs : r.addr = a /\ s = [r EXCEPT !.st = "lost"]
    BY <1>4 DEF Crash
  <2>3. \A s \in rpcs' : s.addr # a => s \in rpcs
    BY <2>1, <2>2 DEF Same
  <2>4. ASSUME CachesNotShared, NEW s \in rpcs', NEW t \in rpcs', s.addr = t.addr, Key(s) = Key(t)
        PROVE  s = t
    <3>1. CASE s.addr # a
      BY <2>3, <2>4, <3>1 DEF CachesNotShared
    <3>2. CASE s.addr = a
      <4>1. PICK r \in rpcs : r.addr = a /\ s = [r EXCEPT !.st = "lost"]
        BY <2>2, <3>2
      <4>2. PICK q \in rpcs : q.addr = a /\ t = [q EXCEPT !.st = "lost"]
        BY <2>2, <2>4, <3>2
      <4>3. Key(r) = Key(q)
        BY <2>1, <2>4, <4>1, <4>2 DEF Same, Key
      <4>4. r = q
        BY <2>4, <4>1, <4>2, <4>3 DEF CachesNotShared
      <4> QED
        BY <4>1, <4>2, <4>4
    <3> QED
      BY <3>1, <3>2
  <2>5. CachesNotShared => CachesNotShared'
    BY <2>4 DEF CachesNotShared, Key
  <2>6. \A s \in rpcs' : \E r \in rpcs : Same(s, r)
    <3>1. \A r : Same(r, r)
      BY DEF Same
    <3> QED
      BY <2>1, <2>2, <3>1
  <2> QED
    BY <2>5, <2>6
<1>5. ASSUME NEW a \in Addrs, Collect(a, Idle(a)) \/ OtherClients(a) \/ Start(a) PROVE Goal
  BY <1>2, <1>5 DEF Collect, OtherClients, Start
<1> QED
  BY <1>3, <1>4, <1>5 DEF ServerStep

\* A session belongs to a request that was sent.
LEMMA ServerKeys ==
  ASSUME TypeOK, ServerStep
  PROVE  \A a \in Addrs : \A key \in DOMAIN sessions'[a] :
           key \in DOMAIN sessions[a] \/ \E r \in rpcs : r.addr = a /\ key = Key(r)
<1> DEFINE Goal == \A a \in Addrs : \A key \in DOMAIN sessions'[a] :
                     key \in DOMAIN sessions[a] \/ \E r \in rpcs : r.addr = a /\ key = Key(r)
<1>1. ASSUME NEW a \in Addrs, NEW t, sessions' = [sessions EXCEPT ![a] = t],
             \A key \in DOMAIN t :
               key \in DOMAIN sessions[a] \/ \E r \in rpcs : r.addr = a /\ key = Key(r)
      PROVE  Goal
  BY <1>1 DEF TypeOK, ServersTypeOK
<1>2. ASSUME UNCHANGED sessions PROVE Goal
  BY <1>2
<1>3. \A t, keys : DOMAIN Without(t, keys) \subseteq DOMAIN t
  BY DEF Without
<1>4. \A t, key, s : DOMAIN With(t, key, s) = DOMAIN t \cup {key}
  BY DEF With
<1>5. ASSUME NEW r \in rpcs, ForwardKnown(r) \/ ForwardDoneOrphan(r) PROVE Goal
  BY <1>2, <1>5 DEF ForwardKnown, ForwardDoneOrphan
<1>6. ASSUME NEW r \in rpcs, ForwardNew(r, Idle(r.addr)) PROVE Goal
  <2>1. PICK gone :
          \/ sessions' = [sessions EXCEPT ![r.addr] = Without(sessions[r.addr], gone)]
          \/ sessions' = [sessions EXCEPT ![r.addr] =
               With(Without(sessions[r.addr], gone), Key(r),
                    [end |-> r.end, kv |-> Empty(r.start), length |-> 0])]
    BY <1>6 DEF ForwardNew
  <2>2. r.addr \in Addrs
    BY DEF TypeOK, ServersTypeOK, Rpcs
  <2> DEFINE kept == Without(sessions[r.addr], gone)
             s == [end |-> r.end, kv |-> Empty(r.start), length |-> 0]
  <2>3. CASE sessions' = [sessions EXCEPT ![r.addr] = kept]
    <3>1. DOMAIN kept \subseteq DOMAIN sessions[r.addr]
      BY <1>3
    <3> HIDE DEF kept
    <3> QED
      BY <1>1, <2>2, <2>3, <3>1
  <2>4. CASE sessions' = [sessions EXCEPT ![r.addr] = With(kept, Key(r), s)]
    <3>1. DOMAIN With(kept, Key(r), s) \subseteq DOMAIN sessions[r.addr] \cup {Key(r)}
      <4>1. DOMAIN kept \subseteq DOMAIN sessions[r.addr]
        BY <1>3
      <4>2. DOMAIN With(kept, Key(r), s) = DOMAIN kept \cup {Key(r)}
        BY <1>4
      <4> QED
        BY <4>1, <4>2
    <3> HIDE DEF kept, s
    <3> QED
      BY <1>1, <2>2, <2>4, <3>1
  <2> QED
    BY <2>1, <2>3, <2>4
<1>7. ASSUME NEW r \in rpcs, ForwardDone(r) \/ ForwardCancelled(r) PROVE Goal
  <2>1. r.addr \in Addrs
    BY DEF TypeOK, ServersTypeOK, Rpcs
  <2>2. \/ UNCHANGED sessions
        \/ \E s : sessions' = [sessions EXCEPT ![r.addr] = With(sessions[r.addr], Key(r), s)]
    BY <1>7, <2>1 DEF ForwardDone, ForwardCancelled, TypeOK, ServersTypeOK
  <2>3. CASE UNCHANGED sessions
    BY <1>2, <2>3
  <2>4. ASSUME NEW s,
               sessions' = [sessions EXCEPT ![r.addr] = With(sessions[r.addr], Key(r), s)]
        PROVE  Goal
    <3> DEFINE t == With(sessions[r.addr], Key(r), s)
    <3>1. DOMAIN t = DOMAIN sessions[r.addr] \cup {Key(r)}
      BY <1>4
    <3>2. sessions' = [sessions EXCEPT ![r.addr] = t]
      BY <2>4
    <3> HIDE DEF t
    <3> QED
      BY <1>1, <2>1, <3>1, <3>2
  <2> QED
    BY <2>2, <2>3, <2>4
<1>8. ASSUME NEW a \in Addrs, Collect(a, Idle(a)) PROVE Goal
  BY <1>1, <1>3, <1>8 DEF Collect
<1>9. ASSUME NEW a \in Addrs, Crash(a) PROVE Goal
  BY <1>1, <1>3, <1>9 DEF Crash
<1>10. ASSUME NEW a \in Addrs, OtherClients(a) \/ Start(a) PROVE Goal
  BY <1>2, <1>10 DEF OtherClients, Start
<1> QED
  BY <1>5, <1>6, <1>7, <1>8, <1>9, <1>10 DEF ServerStep

-----------------------------------------------------------------------------
(***************************************************************************)
(* One call at a time.                                                     *)
(***************************************************************************)
LEMMA Quiet == ASSUME Plumbing, ~Calling PROVE \A r \in rpcs : ~r.live
  BY DEF Plumbing, CallInv

LEMMA CallStep == Plumbing /\ [Next]_vars => CallInv'
<1> SUFFICES ASSUME Plumbing, [Next]_vars PROVE CallInv'
  OBVIOUS
<1>0. TypeOK /\ CallInv /\ CachesNotShared
  BY DEF Plumbing, FenceInv
<1>1. ASSUME \A r \in rpcs' : ~r.live PROVE CallInv'
  BY <1>1 DEF CallInv
<1>2. ASSUME ~Calling, rpcs' \subseteq rpcs PROVE CallInv'
  BY <1>1, <1>2, Quiet
<1>3. CASE BeginStep \/ EndGenerate \/ PlanRoute \/ NoRoute \/ RegistryFails \/ Closed
  BY <1>2, <1>3
  DEF BeginStep, EndGenerate, PlanRoute, NoRoute, RegistryFails, Closed, Calling, serverVars
<1>4. ASSUME NEW hop \in route \cup plan, Recover(hop) PROVE CallInv'
  BY <1>2, <1>4 DEF Recover, Calling, serverVars
<1>5. ASSUME NEW hop \in opened, SkipClose(hop) \/ CloseHop(hop) PROVE CallInv'
  BY <1>2, <1>5 DEF SkipClose, CloseHop, Calling, serverVars
<1>6. ASSUME NEW hop \in route \cup plan, Send(hop) PROVE CallInv'
  <2>1. \A r \in rpcs : ~r.live
    BY <1>6, Quiet DEF Send, Hop, Calling
  <2>2. PICK r : /\ rpcs' = rpcs \cup {r}
                 /\ r = Request(hop, IF pc = "forward" THEN hidden ELSE x, up[hop.peer.addr])
    BY <1>6 DEF Send
  <2>3. UNCHANGED <<route, plan, at, rat, hidden, x>>
    BY <1>6 DEF Send, stepVars, replayVars
  <2>4. Asks(r, hop)' /\ Hop(hop)' /\ Calling'
    BY <1>6, <2>2, <2>3 DEF Asks, Request, Hop, Send, Calling
  <2> QED
    BY <2>1, <2>2, <2>3, <2>4 DEF CallInv
<1>7. ASSUME NEW r \in rpcs, Awaited(r), NEW s, ~s.live,
             rpcs' \subseteq (rpcs \ {r}) \cup {s}
      PROVE  CallInv'
  BY <1>0, <1>1, <1>7 DEF CallInv, Awaited
<1>8. ASSUME NEW hop \in route \cup plan, NEW r \in rpcs,
             CallFailed(r, hop) \/ CallAbandoned(r, hop) \/ ReplayDone(r, hop)
      PROVE  CallInv'
  <2>1. ~[r EXCEPT !.live = FALSE].live
    BY <1>0 DEF TypeOK, ServersTypeOK, Rpcs
  <2> QED
    BY <1>7, <1>8, <2>1 DEF CallFailed, CallAbandoned, ReplayDone
<1>9. ASSUME NEW r \in rpcs, HopDone(r) PROVE CallInv'
  <2>1. ~[r EXCEPT !.live = FALSE].live
    BY <1>0 DEF TypeOK, ServersTypeOK, Rpcs
  <2> QED
    BY <1>7, <1>9, <2>1 DEF HopDone
<1>10. CASE ServerStep /\ UNCHANGED <<listed, clientVars>>
  <2>1. \A s \in rpcs' : \E r \in rpcs : Same(s, r)
    BY <1>0, <1>10, ServerRpcs
  <2>2. CachesNotShared'
    BY <1>0, <1>10, ServerRpcs
  <2>3. UNCHANGED <<pc, route, plan, at, rat, hidden, x>>
    BY <1>10 DEF clientVars, stepVars, replayVars
  <2>4. ASSUME NEW s \in rpcs', s.live
        PROVE  Calling' /\ \E hop \in route' \cup plan' : Hop(hop)' /\ Asks(s, hop)'
    <3>1. PICK r \in rpcs : Same(s, r)
      BY <2>1
    <3>2. Calling /\ \E hop \in route \cup plan : Hop(hop) /\ Asks(r, hop)
      BY <1>0, <2>4, <3>1 DEF CallInv, Same
    <3> QED
      BY <2>3, <3>1, <3>2 DEF Calling, Hop, Asks, Same
  <2>5. ASSUME NEW s \in rpcs', NEW t \in rpcs', s.live, t.live PROVE s = t
    <3>1. PICK r \in rpcs : Same(s, r)
      BY <2>1
    <3>2. PICK q \in rpcs : Same(t, q)
      BY <2>1
    <3>3. r = q
      BY <1>0, <2>5, <3>1, <3>2 DEF CallInv, Same
    <3>4. s.addr = t.addr /\ Key(s) = Key(t)
      BY <3>1, <3>2, <3>3 DEF Same, Key
    <3> QED
      BY <2>2, <3>4 DEF CachesNotShared, Key
  <2> QED
    BY <2>4, <2>5 DEF CallInv
<1>11. ASSUME UNCHANGED <<rpcs, pc, route, plan, at, rat, hidden, x>> PROVE CallInv'
  BY <1>0, <1>11 DEF CallInv, Calling, Hop, Asks
<1>12. CASE RegistryStep
  BY <1>11, <1>12
  DEF RegistryStep, Announce, Expire, serverVars, clientVars, stepVars, replayVars
<1>13. CASE UNCHANGED vars
  BY <1>11, <1>13 DEF vars, serverVars, clientVars, stepVars, replayVars
<1> QED
  BY <1>3, <1>4, <1>5, <1>6, <1>8, <1>9, <1>10, <1>12, <1>13 DEF Next, ClientStep

-----------------------------------------------------------------------------
(***************************************************************************)
(* Session ids.                                                            *)
(***************************************************************************)
LEMMA SidStep == Plumbing /\ [Next]_vars => SidInv'
<1> SUFFICES ASSUME Plumbing, [Next]_vars PROVE SidInv'
  OBVIOUS
<1>0. TypeOK /\ SidInv /\ PlanInv
  BY DEF Plumbing
<1>1. ASSUME gen' = gen, route' \subseteq route \cup plan, plan' \subseteq plan,
             plan' = {} \/ route' \subseteq route,
             \A s \in rpcs' : \E r \in rpcs : s.sid = r.sid /\ s.start = r.start,
             \A a \in Addrs : DOMAIN sessions'[a] \subseteq DOMAIN sessions[a]
      PROVE  SidInv'
  BY <1>0, <1>1 DEF SidInv, Drawn
<1>2. CASE BeginStep \/ EndGenerate \/ NoRoute \/ RegistryFails \/ Closed
  BY <1>1, <1>2
  DEF BeginStep, EndGenerate, NoRoute, RegistryFails, Closed, serverVars, stepVars,
      replayVars, assignVars
<1>3. CASE PlanRoute
  <2>1. PICK r \in Routes(listed \ exclude, 0, NumLayers) : route' = Assign(r, gen)
    BY <1>3 DEF PlanRoute
  <2>2. \A hop \in route' : hop.sid = <<gen, hop.start>>
    BY <1>0, <2>1, Shapes, PlannedChain
  <2>3. plan = {} /\ UNCHANGED <<plan, rpcs, sessions>> /\ gen' = gen + 1 /\ gen \in Nat
    BY <1>0, <1>3, Shapes DEF PlanRoute, PlanInv, Replaying, serverVars, replayVars
  <2>4. \A sid \in Sids, l \in Layers : Drawn(sid, l) => Drawn(sid, l)'
    BY <2>3 DEF Drawn, Sids
  <2>5. \A hop \in route' : Drawn(hop.sid, hop.start)'
    BY <2>2, <2>3 DEF Drawn
  <2>6. \A s \in rpcs : s.sid \in Sids /\ s.start \in Layers
    BY <1>0 DEF TypeOK, ServersTypeOK, Rpcs
  <2>7. \A a \in Addrs : \A key \in DOMAIN sessions[a] : key[1] \in Sids /\ key[2] \in Layers
    BY <1>0 DEF TypeOK, ServersTypeOK, IsTable, Keys
  <2> QED
    BY <1>0, <2>3, <2>4, <2>5, <2>6, <2>7 DEF SidInv
<1>4. ASSUME NEW hop \in route \cup plan, Recover(hop) PROVE SidInv'
  <2>1. PICK r \in Routes(listed \ exclude, hop.start, hop.end) :
          \/ route' = (route \ {hop}) \cup Assign(r, gen) /\ plan' = plan
          \/ plan' = Assign(r, gen) /\ route' = route
    BY <1>4 DEF Recover, Splice, replayVars
  <2> DEFINE new == Assign(r, gen)
  <2>2. \A h \in new : h.sid = <<gen, h.start>>
    <3>1. hop \in Assigned /\ listed \ exclude \in SUBSET Peers /\ gen \in Nat
      BY <1>0, Shapes
    <3>2. hop.start \in Layers /\ hop.end \in Boundaries
      BY <3>1 DEF Assigned
    <3> QED
      BY <3>1, <3>2, PlannedChain
  <2>3. plan = {} /\ UNCHANGED <<rpcs, sessions>> /\ gen' = gen + 1 /\ gen \in Nat
    BY <1>0, <1>4, Shapes DEF Recover, PlanInv, Replaying, serverVars
  <2>4. \A sid \in Sids, l \in Layers : Drawn(sid, l) => Drawn(sid, l)'
    BY <2>3 DEF Drawn, Sids
  <2>5. \A h \in new : Drawn(h.sid, h.start)'
    BY <2>2, <2>3 DEF Drawn
  <2>6. \A q \in rpcs : q.sid \in Sids /\ q.start \in Layers
    BY <1>0 DEF TypeOK, ServersTypeOK, Rpcs
  <2>7. \A a \in Addrs : \A key \in DOMAIN sessions[a] : key[1] \in Sids /\ key[2] \in Layers
    BY <1>0 DEF TypeOK, ServersTypeOK, IsTable, Keys
  <2>8. \A h \in route : /\ h.sid \in Sids /\ h.start \in Layers /\ Drawn(h.sid, h.start)
                         /\ h.sid[1] \in Nat /\ h.sid[1] < gen
    BY <1>0, Shapes DEF SidInv, Drawn, Assigned, Sids
  <2>9. \A p \in new, h \in route : p.sid # h.sid
    BY <2>2, <2>3, <2>8
  <2> HIDE DEF new
  <2>10. \A h \in route' \cup plan' : Drawn(h.sid, h.start)'
    BY <2>1, <2>3, <2>4, <2>5, <2>8 DEF new
  <2>11. \A p \in plan', h \in route' : p.sid # h.sid
    BY <2>1, <2>3, <2>9 DEF new
  <2> QED
    BY <1>0, <2>3, <2>4, <2>6, <2>7, <2>10, <2>11 DEF SidInv
<1>5. ASSUME NEW hop \in opened, SkipClose(hop) \/ CloseHop(hop) PROVE SidInv'
  <2>1. \A a \in Addrs : DOMAIN sessions'[a] \subseteq DOMAIN sessions[a]
    BY <1>0, <1>5
    DEF SkipClose, CloseHop, CloseSession, Without, serverVars, TypeOK, ServersTypeOK
  <2> QED
    BY <1>1, <1>5, <2>1 DEF SkipClose, CloseHop, serverVars, stepVars, replayVars
<1>6. ASSUME NEW hop \in route \cup plan, Send(hop) PROVE SidInv'
  <2>1. PICK r : /\ rpcs' = rpcs \cup {r}
                 /\ r = Request(hop, IF pc = "forward" THEN hidden ELSE x, up[hop.peer.addr])
    BY <1>6 DEF Send
  <2>2. Drawn(r.sid, r.start)
    BY <1>0, <2>1 DEF SidInv, Request
  <2> QED
    BY <1>0, <1>6, <2>1, <2>2 DEF Send, SidInv, Drawn, stepVars, replayVars, assignVars
<1>7. ASSUME NEW hop \in route \cup plan, NEW r \in rpcs,
             CallFailed(r, hop) \/ CallAbandoned(r, hop) \/ ReplayDone(r, hop)
      PROVE  SidInv'
  <2>1. /\ [r EXCEPT !.live = FALSE].sid = r.sid
        /\ [r EXCEPT !.live = FALSE].start = r.start
    BY <1>0 DEF TypeOK, ServersTypeOK, Rpcs
  <2>2. \A s \in rpcs' : \E q \in rpcs : s.sid = q.sid /\ s.start = q.start
    BY <1>7, <2>1 DEF CallFailed, CallAbandoned, ReplayDone
  <2> QED
    BY <1>1, <1>7, <2>2
    DEF CallFailed, CallAbandoned, ReplayDone, RecordFailure, Splice, stepVars, assignVars
<1>8. ASSUME NEW r \in rpcs, HopDone(r) PROVE SidInv'
  BY <1>1, <1>8 DEF HopDone, replayVars, assignVars
<1>9. CASE ServerStep /\ UNCHANGED <<listed, clientVars>>
  <2>1. \A s \in rpcs' : \E r \in rpcs : s.sid = r.sid /\ s.start = r.start
    BY <1>0, <1>9, ServerRpcs DEF Same
  <2>2. \A a \in Addrs : \A key \in DOMAIN sessions'[a] :
          key \in DOMAIN sessions[a] \/ \E r \in rpcs : r.addr = a /\ key = Key(r)
    BY <1>0, <1>9, ServerKeys
  <2>3. UNCHANGED <<gen, route, plan>>
    BY <1>9 DEF clientVars, stepVars, replayVars, assignVars
  <2>4. \A a \in Addrs : \A key \in DOMAIN sessions'[a] : Drawn(key[1], key[2])
    BY <1>0, <2>2 DEF SidInv, Key
  <2> QED
    BY <1>0, <2>1, <2>3, <2>4 DEF SidInv, Drawn
<1>10. CASE RegistryStep
  BY <1>1, <1>10
  DEF RegistryStep, Announce, Expire, serverVars, clientVars, stepVars, replayVars, assignVars
<1>11. CASE UNCHANGED vars
  BY <1>1, <1>11 DEF vars, serverVars, clientVars, stepVars, replayVars, assignVars
<1> QED
  BY <1>2, <1>3, <1>4, <1>5, <1>6, <1>7, <1>8, <1>9, <1>10, <1>11 DEF Next, ClientStep

-----------------------------------------------------------------------------
(***************************************************************************)
(* Fencing of the requests the client gave up on.                          *)
(***************************************************************************)
\* Session ids tell the hops of a route apart.
LEMMA SidsApart ==
  ASSUME Plumbing, NEW g \in route, NEW h \in route, g.sid = h.sid PROVE g = h
<1>1. g.start = h.start
  BY DEF Plumbing, SidInv, Drawn
<1>2. IsChain(route, 0, NumLayers)
  BY DEF Plumbing, RouteInv
<1> QED
  BY <1>1, <1>2, Shapes, ChainUnique DEF Plumbing

\* No abandoned request shares its session id with a replacement.
LEMMA PlanFenced ==
  ASSUME Plumbing, NEW r \in rpcs, ~r.live, ~Ended, NEW p \in plan PROVE p.sid # r.sid
  BY DEF Plumbing, FenceInv, Fenced, SidInv

LEMMA FencedStep == Plumbing /\ [Next]_vars => Fenced'
<1> SUFFICES ASSUME Plumbing, [Next]_vars PROVE Fenced'
  OBVIOUS
<1>0. TypeOK /\ Fenced /\ SidInv /\ PlanInv
  BY DEF Plumbing, FenceInv
<1>1. ASSUME Ended' PROVE Fenced'
  BY <1>1 DEF Fenced
<1>2. ASSUME ~Ended, route' = route, plan' = plan,
             Recovering => Recovering' /\ at' = at,
             \A s \in rpcs' : ~s.live => \E r \in rpcs : ~r.live /\ s.sid = r.sid
      PROVE  Fenced'
  <2>1. ASSUME NEW s \in rpcs', ~s.live, NEW hop \in route \cup plan, hop.sid = s.sid
        PROVE  Recovering' /\ hop \in route /\ hop.start = at'
    <3>1. PICK r \in rpcs : ~r.live /\ s.sid = r.sid
      BY <1>2, <2>1
    <3>2. Recovering /\ hop \in route /\ hop.start = at
      BY <1>0, <1>2, <2>1, <3>1 DEF Fenced
    <3> QED
      BY <1>2, <3>2
  <2> QED
    BY <1>2, <2>1 DEF Fenced
<1>3. CASE BeginStep
  BY <1>2, <1>3 DEF BeginStep, Ended, Recovering, serverVars, replayVars
<1>4. CASE EndGenerate \/ NoRoute \/ RegistryFails \/ Closed
  BY <1>1, <1>4 DEF EndGenerate, NoRoute, RegistryFails, Closed, Fail, Ended
<1>5. \A r \in rpcs : r.sid[1] # gen
  BY <1>0, Shapes DEF SidInv, Drawn, TypeOK, ServersTypeOK, Rpcs, Sids
<1>6. CASE PlanRoute
  <2>1. PICK r \in Routes(listed \ exclude, 0, NumLayers) : route' = Assign(r, gen)
    BY <1>6 DEF PlanRoute
  <2>2. \A hop \in route' : hop.sid = <<gen, hop.start>>
    BY <1>0, <2>1, Shapes, PlannedChain
  <2>3. plan' = {} /\ rpcs' = rpcs
    BY <1>0, <1>6 DEF PlanRoute, PlanInv, Replaying, serverVars, replayVars
  <2> QED
    BY <1>5, <2>2, <2>3 DEF Fenced
<1>7. ASSUME NEW hop \in route \cup plan, Recover(hop) PROVE Fenced'
  <2>1. PICK r \in Routes(listed \ exclude, hop.start, hop.end) :
          \/ /\ route' = (route \ {hop}) \cup Assign(r, gen) /\ plan' = plan
             /\ pc' = "forward"
          \/ plan' = Assign(r, gen) /\ route' = route /\ pc' = "replay"
    BY <1>7 DEF Recover, Splice, replayVars
  <2> DEFINE new == Assign(r, gen)
  <2>2. \A h \in new : h.sid[1] = gen
    <3>1. hop \in Assigned /\ listed \ exclude \in SUBSET Peers /\ gen \in Nat
      BY <1>0, Shapes
    <3>2. hop.start \in Layers /\ hop.end \in Boundaries
      BY <3>1 DEF Assigned
    <3>3. \A h \in new : h.sid = <<gen, h.start>>
      BY <3>1, <3>2, PlannedChain
    <3> QED
      BY <3>3
  <2>3. /\ plan = {} /\ rpcs' = rpcs /\ at' = at /\ ~Ended
        /\ hop \in route /\ hop.start = at
    BY <1>0, <1>7 DEF Recover, PlanInv, Replaying, Ended, serverVars
  <2> HIDE DEF new
  <2>4. ASSUME NEW s \in rpcs, ~s.live, NEW h \in new, h.sid = s.sid PROVE FALSE
    BY <1>5, <2>2, <2>4
  <2>5. ASSUME NEW s \in rpcs, ~s.live, NEW h \in route, h.sid = s.sid PROVE h = hop
    <3>1. h.start = at
      BY <1>0, <2>3, <2>5 DEF Fenced
    <3>2. IsChain(route, 0, NumLayers)
      BY <2>3 DEF Plumbing, RouteInv
    <3> QED
      BY <1>0, <2>3, <3>1, <3>2, Shapes, ChainUnique
  <2>6. CASE pc' = "forward"
    BY <2>1, <2>3, <2>4, <2>5, <2>6 DEF Fenced, new
  <2>7. CASE pc' = "replay"
    BY <2>1, <2>3, <2>4, <2>5, <2>7 DEF Fenced, new, Recovering
  <2> QED
    BY <2>1, <2>6, <2>7
<1>8. ASSUME NEW hop \in opened, SkipClose(hop) \/ CloseHop(hop) PROVE Fenced'
  BY <1>1, <1>8 DEF SkipClose, CloseHop, Ended
<1>9. ASSUME NEW hop \in route \cup plan, Send(hop) PROVE Fenced'
  <2>1. PICK r : /\ rpcs' = rpcs \cup {r}
                 /\ r = Request(hop, IF pc = "forward" THEN hidden ELSE x, up[hop.peer.addr])
    BY <1>9 DEF Send
  <2>2. r.live
    BY <2>1 DEF Request
  <2> QED
    BY <1>2, <1>9, <2>1, <2>2 DEF Send, Hop, Ended, Recovering, stepVars, replayVars
<1>10. ASSUME NEW hop \in route \cup plan, NEW r \in rpcs,
              CallFailed(r, hop) \/ CallAbandoned(r, hop)
       PROVE  Fenced'
  <2>1. /\ [r EXCEPT !.live = FALSE].sid = r.sid
        /\ rpcs' \subseteq (rpcs \ {r}) \cup {[r EXCEPT !.live = FALSE]}
    BY <1>0, <1>10 DEF TypeOK, ServersTypeOK, Rpcs, CallFailed, CallAbandoned
  <2>2. /\ Awaited(r) /\ Calling /\ route' = route /\ plan' = {} /\ at' = at
        /\ pc' = "recover" \/ Ended'
    BY <1>10
    DEF CallFailed, CallAbandoned, RecordFailure, Fail, Awaited, Calling, Ended, stepVars
  <2>3. ASSUME NEW h \in route, h.sid = r.sid PROVE h.start = at
    <3>1. CASE pc = "await"
      <4>1. PICK g \in route : g.start = at /\ g.sid = r.sid
        BY <2>2, <3>1, AwaitedHop DEF Asks
      <4> QED
        BY <2>3, <4>1, SidsApart
    <3>2. CASE pc = "awaitReplay"
      <4>1. PICK p \in plan : p.sid = r.sid
        BY <2>2, <3>2, AwaitedHop DEF Asks
      <4> QED
        BY <1>0, <2>3, <4>1 DEF SidInv
    <3> QED
      BY <2>2, <3>1, <3>2 DEF Calling
  <2>4. ASSUME NEW s \in rpcs \ {r}, ~s.live, NEW h \in route, h.sid = s.sid PROVE h.start = at
    <3>1. ~Ended
      BY <2>2 DEF Calling, Ended
    <3> QED
      BY <1>0, <2>4, <3>1 DEF Fenced
  <2>5. ASSUME NEW s \in rpcs', ~s.live, NEW h \in route, h.sid = s.sid PROVE h.start = at
    <3>1. CASE s \in rpcs \ {r}
      BY <2>4, <2>5, <3>1
    <3>2. CASE s = [r EXCEPT !.live = FALSE]
      BY <2>1, <2>3, <2>5, <3>2
    <3> QED
      BY <2>1, <3>1, <3>2
  <2>6. CASE pc' = "recover"
    BY <2>2, <2>5, <2>6 DEF Fenced, Recovering
  <2> QED
    BY <1>1, <2>2, <2>6
<1>11. ASSUME NEW hop \in route \cup plan, NEW r \in rpcs, ReplayDone(r, hop) PROVE Fenced'
  <2>1. /\ hop \in route /\ hop.start = at /\ pc = "awaitReplay" /\ at' = at
        /\ rpcs' \subseteq rpcs
        /\ \/ route' = (route \ {hop}) \cup plan /\ plan' = {} /\ pc' = "forward"
           \/ route' = route /\ plan' = plan /\ pc' = "replay"
    BY <1>11 DEF ReplayDone, Splice
  <2>2. ~Ended /\ Recovering
    BY <2>1 DEF Ended, Recovering
  <2>3. ASSUME NEW s \in rpcs, ~s.live, NEW h \in route, h.sid = s.sid PROVE h = hop
    <3>1. h.start = at
      BY <1>0, <2>2, <2>3 DEF Fenced
    <3>2. IsChain(route, 0, NumLayers)
      BY <2>1 DEF Plumbing, RouteInv
    <3> QED
      BY <1>0, <2>1, <3>1, <3>2, Shapes, ChainUnique
  <2>4. \A s \in rpcs : ~s.live => \A p \in plan : p.sid # s.sid
    BY <2>2, PlanFenced
  <2>5. CASE pc' = "forward"
    BY <2>1, <2>3, <2>4, <2>5 DEF Fenced
  <2>6. CASE pc' = "replay"
    BY <2>1, <2>3, <2>4, <2>6 DEF Fenced, Recovering
  <2> QED
    BY <2>1, <2>5, <2>6
<1>12. ASSUME NEW r \in rpcs, HopDone(r) PROVE Fenced'
  BY <1>2, <1>12 DEF HopDone, Ended, Recovering, replayVars
<1>13. CASE ServerStep /\ UNCHANGED <<listed, clientVars>>
  <2>1. \A s \in rpcs' : ~s.live => \E r \in rpcs : ~r.live /\ s.sid = r.sid
    BY <1>0, <1>13, ServerRpcs DEF Same
  <2> QED
    BY <1>1, <1>2, <1>13, <2>1 DEF clientVars, stepVars, replayVars, Ended, Recovering
<1>14. ASSUME UNCHANGED <<rpcs, pc, route, plan, at>> PROVE Fenced'
  BY <1>0, <1>14 DEF Fenced, Ended, Recovering
<1>15. CASE RegistryStep
  BY <1>14, <1>15
  DEF RegistryStep, Announce, Expire, serverVars, clientVars, stepVars, replayVars
<1>16. CASE UNCHANGED vars
  BY <1>14, <1>16 DEF vars, serverVars, clientVars, stepVars, replayVars
<1> QED
  BY <1>3, <1>4, <1>6, <1>7, <1>8, <1>9, <1>10, <1>11, <1>12, <1>13, <1>15, <1>16
  DEF Next, ClientStep

LEMMA NotSharedStep == Plumbing /\ [Next]_vars => CachesNotShared'
<1> SUFFICES ASSUME Plumbing, [Next]_vars PROVE CachesNotShared'
  OBVIOUS
<1>0. TypeOK /\ CachesNotShared /\ Fenced /\ PlanUntouched
  BY DEF Plumbing, FenceInv
<1>1. ASSUME rpcs' \subseteq rpcs PROVE CachesNotShared'
  BY <1>0, <1>1 DEF CachesNotShared
<1>2. CASE BeginStep \/ EndGenerate \/ PlanRoute \/ NoRoute \/ RegistryFails \/ Closed
  BY <1>1, <1>2
  DEF BeginStep, EndGenerate, PlanRoute, NoRoute, RegistryFails, Closed, serverVars
<1>3. ASSUME NEW hop \in route \cup plan, Recover(hop) PROVE CachesNotShared'
  BY <1>1, <1>3 DEF Recover, serverVars
<1>4. ASSUME NEW hop \in opened, SkipClose(hop) \/ CloseHop(hop) PROVE CachesNotShared'
  BY <1>1, <1>4 DEF SkipClose, CloseHop, serverVars
<1>5. ASSUME NEW hop \in route \cup plan, NEW r \in rpcs, CallFailed(r, hop) \/ ReplayDone(r, hop)
      PROVE  CachesNotShared'
  BY <1>1, <1>5 DEF CallFailed, ReplayDone
<1>6. ASSUME NEW hop \in route \cup plan, NEW r \in rpcs, CallAbandoned(r, hop)
      PROVE  CachesNotShared'
  <2> DEFINE s == [r EXCEPT !.live = FALSE]
  <2>1. s.addr = r.addr /\ Key(s) = Key(r)
    BY <1>0 DEF TypeOK, ServersTypeOK, Rpcs, Key
  <2>2. rpcs' \subseteq (rpcs \ {r}) \cup {s}
    BY <1>6 DEF CallAbandoned
  <2> HIDE DEF s
  <2>3. \A q, t \in rpcs' : q.addr = t.addr /\ Key(q) = Key(t) => q = t
    BY <1>0, <2>1, <2>2 DEF CachesNotShared
  <2> QED
    BY <2>3 DEF CachesNotShared, Key
<1>7. ASSUME NEW r \in rpcs, HopDone(r) PROVE CachesNotShared'
  BY <1>1, <1>7 DEF HopDone
<1>8. ASSUME NEW hop \in route \cup plan, Send(hop) PROVE CachesNotShared'
  <2>0. PICK r : /\ rpcs' = rpcs \cup {r}
                 /\ r = Request(hop, IF pc = "forward" THEN hidden ELSE x, up[hop.peer.addr])
    BY <1>8 DEF Send
  <2>1. rpcs' = rpcs \cup {r} /\ r.sid = hop.sid
    BY <2>0 DEF Request
  <2>2. \A s \in rpcs : ~s.live
    BY <1>8, Quiet DEF Send, Hop, Calling
  <2>3. ASSUME NEW s \in rpcs PROVE s.sid # hop.sid
    <3>1. CASE pc = "forward"
      BY <1>0, <1>8, <2>2, <3>1 DEF Fenced, Ended, Recovering
    <3>2. CASE pc = "replay" /\ hop \in plan
      BY <2>2, <3>2, PlanFenced DEF Ended
    <3> QED
      BY <1>8, <3>1, <3>2 DEF Send, Hop
  <2>4. \A q, t \in rpcs' : q.addr = t.addr /\ Key(q) = Key(t) => q = t
    BY <1>0, <2>1, <2>3 DEF CachesNotShared, Key
  <2> QED
    BY <2>4 DEF CachesNotShared, Key
<1>9. CASE ServerStep /\ UNCHANGED <<listed, clientVars>>
  BY <1>0, <1>9, ServerRpcs
<1>10. CASE RegistryStep
  BY <1>1, <1>10 DEF RegistryStep, Announce, Expire, serverVars
<1>11. CASE UNCHANGED vars
  BY <1>1, <1>11 DEF vars, serverVars
<1> QED
  BY <1>2, <1>3, <1>4, <1>5, <1>6, <1>7, <1>8, <1>9, <1>10, <1>11 DEF Next, ClientStep

LEMMA UntouchedStep == Plumbing /\ [Next]_vars => PlanUntouched'
<1> SUFFICES ASSUME Plumbing, [Next]_vars PROVE PlanUntouched'
  OBVIOUS
<1>0. TypeOK /\ PlanUntouched /\ SidInv /\ PlanInv
  BY DEF Plumbing, FenceInv
<1>1. ASSUME plan' = {} PROVE PlanUntouched'
  BY <1>1 DEF PlanUntouched
<1>2. ASSUME plan' = plan, \A hop \in plan : Ahead(hop)' => Ahead(hop),
             \A s \in rpcs' : \E r \in rpcs : s.sid = r.sid,
             \A a \in Addrs : \A key \in DOMAIN sessions'[a] :
               key \in DOMAIN sessions[a] \/ \E r \in rpcs : key = Key(r)
      PROVE  PlanUntouched'
  BY <1>0, <1>2 DEF PlanUntouched, Untouched, HopKey, Key
<1>3. CASE BeginStep \/ EndGenerate \/ PlanRoute \/ NoRoute \/ RegistryFails \/ Closed
  BY <1>0, <1>1, <1>3
  DEF BeginStep, EndGenerate, PlanRoute, NoRoute, RegistryFails, Closed, PlanInv, Replaying,
      replayVars
<1>4. ASSUME NEW hop \in route \cup plan, Recover(hop) PROVE PlanUntouched'
  <2>1. plan = {} /\ UNCHANGED <<rpcs, sessions>>
    BY <1>0, <1>4 DEF Recover, PlanInv, Replaying, serverVars
  <2>2. hop \in Assigned /\ listed \ exclude \in SUBSET Peers /\ gen \in Nat
    BY <1>0, Shapes
  <2>3. hop.start \in Layers /\ hop.end \in Boundaries
    BY <2>2 DEF Assigned
  <2>4. PICK r \in Routes(listed \ exclude, hop.start, hop.end) :
          plan' = {} \/ plan' = Assign(r, gen)
    BY <1>4, <2>1 DEF Recover, replayVars
  <2>5. \A h \in Assign(r, gen) : h.sid = <<gen, h.start>>
    BY <2>2, <2>3, PlannedChain
  <2>6. \A h \in plan' : h.sid[1] = gen
    BY <2>4, <2>5
  <2>7. \A s \in rpcs : s.sid[1] # gen
    BY <1>0, Shapes DEF SidInv, Drawn, TypeOK, ServersTypeOK, Rpcs, Sids
  <2>8. \A a \in Addrs : \A key \in DOMAIN sessions[a] : key[1][1] # gen
    BY <1>0, Shapes DEF SidInv, Drawn, TypeOK, ServersTypeOK, IsTable, Keys, Sids
  <2>9. \A h \in plan' : HopKey(h)[1] = h.sid
    BY DEF HopKey
  <2> QED
    BY <2>1, <2>6, <2>7, <2>8, <2>9 DEF PlanUntouched, Untouched, HopKey
<1>5. ASSUME NEW hop \in opened, SkipClose(hop) \/ CloseHop(hop) PROVE PlanUntouched'
  BY <1>0, <1>1, <1>5 DEF SkipClose, CloseHop, PlanInv, Replaying, replayVars
<1>6. ASSUME NEW hop \in route \cup plan, NEW r \in rpcs,
             CallFailed(r, hop) \/ CallAbandoned(r, hop)
      PROVE  PlanUntouched'
  BY <1>1, <1>6 DEF CallFailed, CallAbandoned, RecordFailure
<1>7. ASSUME NEW r \in rpcs, HopDone(r) PROVE PlanUntouched'
  BY <1>0, <1>1, <1>7 DEF HopDone, PlanInv, Replaying, replayVars
<1>8. ASSUME NEW hop \in route \cup plan, Send(hop) PROVE PlanUntouched'
  <2>0. PICK r : /\ rpcs' = rpcs \cup {r}
                 /\ r = Request(hop, IF pc = "forward" THEN hidden ELSE x, up[hop.peer.addr])
    BY <1>8 DEF Send
  <2>1. rpcs' = rpcs \cup {r} /\ r.sid = hop.sid
    BY <2>0 DEF Request
  <2>2. UNCHANGED <<plan, rat, sessions>>
    BY <1>8 DEF Send, replayVars
  <2>3. CASE pc = "forward"
    BY <1>0, <1>1, <2>2, <2>3 DEF PlanInv, Replaying
  <2>4. CASE pc = "replay" /\ hop \in plan /\ hop.start = rat /\ pc' = "awaitReplay"
    <3>1. ASSUME NEW h \in plan, Ahead(h)' PROVE Ahead(h) /\ h.sid # hop.sid
      <4>1. h.start > rat /\ h.start \in Nat /\ rat \in Nat
        BY <1>0, <2>2, <2>4, <3>1, Shapes DEF Ahead, Bounded
      <4>2. h.sid[2] = h.start /\ hop.sid[2] = hop.start
        BY <1>0, <2>4 DEF SidInv, Drawn
      <4> QED
        BY <2>4, <4>1, <4>2 DEF Ahead
    <3> QED
      BY <1>0, <2>1, <2>2, <3>1 DEF PlanUntouched, Untouched, HopKey
  <2> QED
    BY <1>8, <2>3, <2>4 DEF Send, Hop
<1>9. ASSUME NEW hop \in route \cup plan, NEW r \in rpcs, ReplayDone(r, hop)
      PROVE  PlanUntouched'
  <2>1. /\ pc = "awaitReplay" /\ rpcs' \subseteq rpcs /\ sessions' = sessions
        /\ rat' = r.end
        /\ plan' = {} \/ plan' = plan
    BY <1>9 DEF ReplayDone
  <2>2. PICK p \in plan : p.start = rat /\ p.end = r.end
    BY <1>9, AwaitedHop DEF ReplayDone, Asks
  <2>3. p.start < p.end
    <3>1. PICK h \in route : IsChain(plan, h.start, h.end)
      BY <1>0, <2>1 DEF PlanInv, Replaying
    <3> QED
      BY <3>1 DEF IsChain
  <2>4. rat < rat' /\ rat \in Nat /\ rat' \in Nat
    BY <1>0, <2>1, <2>2, <2>3, Shapes DEF Bounded
  <2>5. \A h \in plan : Ahead(h)' => Ahead(h)
    BY <1>0, <2>4, Shapes DEF Ahead, Bounded
  <2> QED
    BY <1>1, <1>2, <2>1, <2>5
<1>10. CASE ServerStep /\ UNCHANGED <<listed, clientVars>>
  <2>1. \A s \in rpcs' : \E r \in rpcs : s.sid = r.sid
    BY <1>0, <1>10, ServerRpcs DEF Same
  <2>2. \A a \in Addrs : \A key \in DOMAIN sessions'[a] :
          key \in DOMAIN sessions[a] \/ \E r \in rpcs : key = Key(r)
    BY <1>0, <1>10, ServerKeys
  <2> QED
    BY <1>2, <1>10, <2>1, <2>2 DEF clientVars, stepVars, replayVars, Ahead
<1>11. ASSUME UNCHANGED <<rpcs, sessions, pc, plan, rat>> PROVE PlanUntouched'
  BY <1>0, <1>11 DEF PlanUntouched, Ahead, Untouched
<1>12. CASE RegistryStep
  BY <1>11, <1>12 DEF RegistryStep, Announce, Expire, serverVars, clientVars, replayVars
<1>13. CASE UNCHANGED vars
  BY <1>11, <1>13 DEF vars, serverVars, clientVars, replayVars
<1> QED
  BY <1>3, <1>4, <1>5, <1>6, <1>7, <1>8, <1>9, <1>10, <1>12, <1>13 DEF Next, ClientStep

-----------------------------------------------------------------------------
(***************************************************************************)
(* The results.                                                            *)
(***************************************************************************)
LEMMA PlumbingInit == Init => Plumbing
<1> SUFFICES ASSUME Init PROVE Plumbing
  OBVIOUS
<1>1. TypeOK
  BY TypesInit
<1>2. \A a \in Addrs : DOMAIN sessions[a] = {}
  BY DEF Init, ServersInit
<1>3. rpcs = {} /\ route = {} /\ plan = {} /\ pc = "idle"
  BY DEF Init, ServersInit
<1> QED
  BY <1>1, <1>2, <1>3
  DEF Plumbing, RouteInv, PlanInv, CallInv, SidInv, FenceInv, Fenced, CachesNotShared,
      PlanUntouched, InStep, Recovering, Replaying

LEMMA PlumbingStep == Plumbing /\ [Next]_vars => Plumbing'
BY TypesStep, RouteStep, CallStep, SidStep, FencedStep, NotSharedStep, UntouchedStep
DEF Plumbing, FenceInv

(***************************************************************************)
(* Route, plan, requests and session ids hang together in every            *)
(* generation, with any number of layers, servers, failures and restarts,  *)
(* and whether or not workers keep the sessions they should.               *)
(***************************************************************************)
THEOREM PlumbingCorrect == Spec => []Plumbing
<1> QED
  BY PlumbingInit, PlumbingStep, PTL DEF Spec

(***************************************************************************)
(* Every layer is computed by exactly one hop of the route, before, during *)
(* and after a recovery (client.py, step and _recover).                    *)
(***************************************************************************)
THEOREM RouteAlwaysTiles == Spec => []RouteTiles
<1>1. Plumbing => RouteTiles
  BY DEF Plumbing, RouteInv, PlanInv, RouteTiles
<1> QED
  BY PlumbingCorrect, <1>1, PTL

(***************************************************************************)
(* No two forward requests are ever under way on one KV cache, though      *)
(* workers keep computing for callers that gave up (server.py, forward).   *)
(***************************************************************************)
THEOREM CachesNeverShared == Spec => []CachesNotShared
<1>1. Plumbing => CachesNotShared
  BY DEF Plumbing, FenceInv
<1> QED
  BY PlumbingCorrect, <1>1, PTL

(***************************************************************************)
(* A replacement starts from an empty cache, even on a worker that has     *)
(* served this generation before (client.py, _plan).                       *)
(***************************************************************************)
THEOREM ReplacementsAlwaysFresh == Spec => []ReplacementsFresh
<1>1. ASSUME Plumbing PROVE ReplacementsFresh
  <2> SUFFICES ASSUME NEW hop \in plan, Ahead(hop)
               PROVE  ~Unfinished(hop) /\ CacheOf(hop) = Empty(hop.start)
    BY DEF ReplacementsFresh, Ahead
  <2>1. Untouched(hop)
    BY <1>1 DEF Plumbing, FenceInv, PlanUntouched
  <2>2. hop.peer.addr \in Addrs
    BY <1>1, Shapes DEF Plumbing, Assigned, Peers
  <2>3. HopKey(hop) \notin DOMAIN sessions[hop.peer.addr]
    BY <2>1, <2>2 DEF Untouched
  <2>4. \A r \in rpcs : Key(r) # HopKey(hop)
    BY <2>1 DEF Untouched, Key, HopKey
  <2> QED
    BY <2>3, <2>4 DEF CacheOf, Unfinished
<1> QED
  BY PlumbingCorrect, <1>1, PTL

-----------------------------------------------------------------------------
(***************************************************************************)
(* What workers hold for a client is accounted for: Accounts is inductive  *)
(* relative to Plumbing, restarts and evictions included.                  *)
(***************************************************************************)
\* The request the client waits for is one to the hop it is at.
LEMMA CalledHop ==
  ASSUME Plumbing, NEW r \in rpcs, Awaited(r), NEW hop \in route \cup plan, Hop(hop)
  PROVE  Asks(r, hop)
<1>1. CASE pc = "await"
  <2>1. PICK g \in route : g.start = at /\ Asks(r, g)
    BY <1>1, AwaitedHop
  <2>2. hop \in route /\ hop.start = at
    BY <1>1 DEF Hop
  <2>3. IsChain(route, 0, NumLayers)
    BY <2>2 DEF Plumbing, RouteInv
  <2>4. g = hop
    BY <2>1, <2>2, <2>3, Shapes, ChainUnique DEF Plumbing
  <2> QED
    BY <2>1, <2>4
<1>2. CASE pc = "awaitReplay"
  <2>1. PICK g \in plan : g.start = rat /\ Asks(r, g)
    BY <1>2, AwaitedHop
  <2>2. hop \in plan /\ hop.start = rat
    BY <1>2 DEF Hop
  <2>3. PICK h \in route : IsChain(plan, h.start, h.end)
    BY <1>2 DEF Plumbing, PlanInv, Replaying
  <2>4. h.start \in Nat /\ h.end \in Nat
    BY Shapes DEF Plumbing, Bounded
  <2>5. g = hop
    BY <2>1, <2>2, <2>3, <2>4, Shapes, ChainUnique DEF Plumbing
  <2> QED
    BY <2>1, <2>5
<1> QED
  BY <1>1, <1>2 DEF Awaited

\* The client still has on its list what it waits for.
LEMMA LiveRemembered ==
  ASSUME Plumbing, Accounts, NEW r \in rpcs, r.live PROVE Remembered(r.addr, Key(r))
<1>1. PICK hop \in route \cup plan : Asks(r, hop)
  BY DEF Plumbing, CallInv
<1>2. Calling
  BY DEF Plumbing, CallInv
<1>3. hop \in opened
  BY <1>1, <1>2 DEF Accounts, Calling, Ended
<1> QED
  BY <1>1, <1>3 DEF Remembered, Asks, HopKey, Key

\* Nothing is forgotten, and nothing is held that was not: nothing changes.
LEMMA AccountsKept ==
  ASSUME Accounts,
         opened \subseteq opened', missed \subseteq missed', exclude \subseteq exclude',
         ~Ended' => route' \cup plan' \subseteq opened',
         \A s \in rpcs' : ~s.live => Failed(s.addr)',
         \A a \in Addrs : \A key \in DOMAIN sessions'[a] :
           key \in DOMAIN sessions[a] \/ Remembered(a, key) \/ Failed(a)
  PROVE  Accounts'
<1>1. \A a, key : Remembered(a, key) => Remembered(a, key)'
  BY DEF Remembered
<1>2. \A a : Failed(a) => Failed(a)'
  BY DEF Failed
<1>3. \A a \in Addrs : \A key \in DOMAIN sessions[a] : Remembered(a, key) \/ Failed(a)
  BY DEF Accounts, SessionsAccountedFor, Remembered, Failed
<1>4. \A a \in Addrs : \A key \in DOMAIN sessions'[a] : Remembered(a, key)' \/ Failed(a)'
  BY <1>1, <1>2, <1>3
<1>5. SessionsAccountedFor'
  BY <1>4 DEF SessionsAccountedFor, Remembered, Failed
<1> QED
  BY <1>5 DEF Accounts

LEMMA AccountStep == Plumbing /\ Accounts /\ [Next]_vars => Accounts'
<1> SUFFICES ASSUME Plumbing, Accounts, [Next]_vars PROVE Accounts'
  OBVIOUS
<1>0. /\ TypeOK
      /\ ~Ended => route \cup plan \subseteq opened
      /\ \A r \in rpcs : ~r.live => Failed(r.addr)
  BY DEF Plumbing, Accounts
\* A step of the client between its calls, or one that ends a call well.
<1>1. ASSUME rpcs' \subseteq rpcs, sessions' = sessions, exclude' = exclude, missed' = missed,
             opened \subseteq opened', ~Ended' => route' \cup plan' \subseteq opened'
      PROVE  Accounts'
  <2>1. \A s \in rpcs' : ~s.live => Failed(s.addr)'
    BY <1>0, <1>1 DEF Failed
  <2> QED
    BY <1>1, <2>1, AccountsKept
<1>2. CASE BeginStep \/ EndGenerate \/ NoRoute \/ RegistryFails \/ Closed
  <2>1. /\ UNCHANGED <<rpcs, sessions, exclude, missed, opened, route, plan>>
        /\ ~Ended' => ~Ended
    BY <1>2
    DEF BeginStep, EndGenerate, NoRoute, RegistryFails, Closed, Fail, Ended, serverVars,
        blameVars, assignVars, stepVars, replayVars
  <2> QED
    BY <1>0, <1>1, <2>1
<1>3. CASE PlanRoute
  <2>1. PICK r : route' = Assign(r, gen) /\ opened' = opened \cup Assign(r, gen)
    BY <1>3 DEF PlanRoute, Open
  <2>2. /\ UNCHANGED <<rpcs, sessions, exclude, missed, plan>>
        /\ ~Ended
    BY <1>3 DEF PlanRoute, Ended, serverVars, blameVars, replayVars
  <2> QED
    BY <1>0, <1>1, <2>1, <2>2
<1>4. ASSUME NEW hop \in route \cup plan, Recover(hop) PROVE Accounts'
  <2>1. PICK r :
          /\ opened' = opened \cup Assign(r, gen)
          /\ \/ plan' = Assign(r, gen) /\ route' = route
             \/ plan' = plan /\ route' = (route \ {hop}) \cup Assign(r, gen)
    BY <1>4 DEF Recover, Open, Splice, replayVars
  <2>2. /\ UNCHANGED <<rpcs, sessions, exclude, missed>>
        /\ ~Ended
    BY <1>4 DEF Recover, Ended, serverVars, blameVars
  <2> QED
    BY <1>0, <1>1, <2>1, <2>2
<1>5. ASSUME NEW hop \in route \cup plan, Send(hop) PROVE Accounts'
  <2>1. PICK r : rpcs' = rpcs \cup {r} /\ r.live
    <3>1. \A h, t, b : Request(h, t, b).live
      BY DEF Request
    <3> QED
      BY <1>5, <3>1 DEF Send
  <2>2. UNCHANGED <<sessions, exclude, missed, opened, route, plan>> /\ ~Ended
    BY <1>5 DEF Send, Hop, Ended, stepVars, replayVars, blameVars, assignVars
  <2>3. \A s \in rpcs' : ~s.live => Failed(s.addr)'
    BY <1>0, <2>1, <2>2 DEF Failed
  <2> QED
    BY <1>0, <2>2, <2>3, AccountsKept
<1>6. ASSUME NEW hop \in route \cup plan, NEW r \in rpcs,
             CallFailed(r, hop) \/ CallAbandoned(r, hop)
      PROVE  Accounts'
  <2>1. /\ Awaited(r) /\ Hop(hop) /\ ~Ended
        /\ rpcs' \subseteq (rpcs \ {r}) \cup {[r EXCEPT !.live = FALSE]}
        /\ exclude' = exclude \cup {hop.peer} /\ plan' = {}
        /\ UNCHANGED <<sessions, missed, opened, route>>
    BY <1>6
    DEF CallFailed, CallAbandoned, RecordFailure, Blame, Awaited, Ended, stepVars, assignVars
  <2>2. r.addr = hop.peer.addr
    BY <2>1, CalledHop DEF Asks
  <2>3. [r EXCEPT !.live = FALSE].addr = r.addr
    BY <1>0 DEF TypeOK, ServersTypeOK, Rpcs
  <2>4. ASSUME NEW s \in rpcs', ~s.live PROVE Failed(s.addr)'
    <3>1. CASE s \in rpcs
      BY <1>0, <2>1, <2>4, <3>1 DEF Failed
    <3>2. CASE s.addr = r.addr
      BY <2>1, <2>2, <3>2 DEF Failed
    <3> QED
      BY <2>1, <2>3, <3>1, <3>2
  <2> QED
    BY <1>0, <2>1, <2>4, AccountsKept
<1>7. ASSUME NEW hop \in route \cup plan, NEW r \in rpcs, ReplayDone(r, hop) PROVE Accounts'
  <2>1. /\ rpcs' \subseteq rpcs /\ route' \cup plan' \subseteq route \cup plan /\ ~Ended
        /\ UNCHANGED <<sessions, exclude, missed, opened>>
    BY <1>7 DEF ReplayDone, Splice, Ended, blameVars, assignVars
  <2> QED
    BY <1>0, <1>1, <2>1
<1>8. ASSUME NEW r \in rpcs, HopDone(r) PROVE Accounts'
  <2>1. /\ rpcs' \subseteq rpcs /\ ~Ended
        /\ UNCHANGED <<sessions, exclude, missed, opened, route, plan>>
    BY <1>8 DEF HopDone, Ended, replayVars, blameVars, assignVars
  <2> QED
    BY <1>0, <1>1, <2>1
\* close() forgets a hop when its peer failed, or when the peer forgets it too.
<1>9. ASSUME NEW hop \in opened, SkipClose(hop) \/ CloseHop(hop) PROVE Accounts'
  <2>1. /\ opened' = opened \ {hop} /\ Ended' /\ missed \subseteq missed'
        /\ UNCHANGED <<rpcs, exclude>>
        /\ \/ hop.peer \in exclude /\ sessions' = sessions
           \/ hop \in missed' /\ sessions' = sessions
           \/ CloseSession(hop.peer.addr, hop.sid)
    BY <1>9 DEF SkipClose, CloseHop, Ended, serverVars, blameVars
  <2>2. \A s \in rpcs' : ~s.live => Failed(s.addr)'
    BY <1>0, <2>1 DEF Failed
  <2>3. ASSUME NEW a \in Addrs, NEW key \in DOMAIN sessions'[a]
        PROVE  /\ key \in DOMAIN sessions[a]
               /\ \/ a # hop.peer.addr \/ key # HopKey(hop)
                  \/ hop.peer \in exclude \/ hop \in missed'
    <3>1. CASE (hop.peer \in exclude \/ hop \in missed') /\ sessions' = sessions
      BY <2>3, <3>1
    <3>2. CASE CloseSession(hop.peer.addr, hop.sid)
      <4>1. sessions = [b \in Addrs |-> sessions[b]]
        BY <1>0 DEF TypeOK, ServersTypeOK
      <4>2. a # hop.peer.addr => sessions'[a] = sessions[a]
        BY <3>2, <4>1 DEF CloseSession
      <4>3. a = hop.peer.addr =>
              DOMAIN sessions'[a] = {k \in DOMAIN sessions[a] : k[1] # hop.sid}
        BY <3>2, <4>1 DEF CloseSession, Without
      <4>4. HopKey(hop)[1] = hop.sid
        BY DEF HopKey
      <4> QED
        BY <2>3, <4>2, <4>3, <4>4
    <3> QED
      BY <2>1, <3>1, <3>2
  <2>4. ASSUME NEW a \in Addrs, NEW key \in DOMAIN sessions'[a]
        PROVE  Remembered(a, key)' \/ Failed(a)'
    <3>1. Remembered(a, key) \/ Failed(a)
      BY <2>3, <2>4 DEF Accounts, SessionsAccountedFor, Remembered, Failed
    <3>2. CASE Failed(a)
      BY <2>1, <3>2 DEF Failed
    <3>3. CASE Remembered(a, key)
      <4>1. PICK h \in opened \cup missed : HopKey(h) = key /\ h.peer.addr = a
        BY <3>3 DEF Remembered
      <4>2. CASE h # hop \/ hop \in missed'
        BY <2>1, <4>1, <4>2 DEF Remembered
      <4>3. CASE h = hop /\ hop \notin missed'
        BY <2>1, <2>3, <2>4, <4>1, <4>3 DEF Failed
      <4> QED
        BY <4>2, <4>3
    <3> QED
      BY <3>1, <3>2, <3>3
  <2>5. SessionsAccountedFor'
    BY <2>4 DEF SessionsAccountedFor, Remembered, Failed
  <2> QED
    BY <2>1, <2>2, <2>5 DEF Accounts
<1>10. CASE ServerStep /\ UNCHANGED <<listed, clientVars>>
  <2>1. UNCHANGED <<pc, route, plan, opened, missed, exclude>>
    BY <1>10 DEF clientVars, stepVars, replayVars, blameVars, assignVars
  <2>2. \A s \in rpcs' : ~s.live => Failed(s.addr)'
    BY <1>0, <1>10, <2>1, ServerRpcs DEF Same, Failed
  <2>3. \A a \in Addrs : \A key \in DOMAIN sessions'[a] :
          key \in DOMAIN sessions[a] \/ Remembered(a, key) \/ Failed(a)
    BY <1>0, <1>10, ServerKeys, LiveRemembered
  <2> QED
    BY <1>0, <2>1, <2>2, <2>3, AccountsKept DEF Ended
<1>11. ASSUME UNCHANGED <<rpcs, sessions, pc, route, plan, opened, missed, exclude>>
       PROVE  Accounts'
  BY <1>0, <1>1, <1>11 DEF Ended
<1>12. CASE RegistryStep
  BY <1>11, <1>12
  DEF RegistryStep, Announce, Expire, serverVars, clientVars, stepVars, replayVars, blameVars,
      assignVars
<1>13. CASE UNCHANGED vars
  BY <1>11, <1>13
  DEF vars, serverVars, clientVars, stepVars, replayVars, blameVars, assignVars
<1> QED
  BY <1>2, <1>3, <1>4, <1>5, <1>6, <1>7, <1>8, <1>9, <1>10, <1>12, <1>13 DEF Next, ClientStep

LEMMA AccountsInit == Init => Accounts
<1> SUFFICES ASSUME Init PROVE Accounts
  OBVIOUS
<1>1. \A a \in Addrs : DOMAIN sessions[a] = {}
  BY DEF Init, ServersInit
<1>2. rpcs = {} /\ route = {} /\ plan = {}
  BY DEF Init, ServersInit
<1> QED
  BY <1>1, <1>2 DEF Accounts, SessionsAccountedFor

(***************************************************************************)
(* No worker is left with a session of a client that no longer knows of    *)
(* it, whatever is replayed, abandoned, evicted or restarted meanwhile     *)
(* (client.py, _plan and close; server.py, forward).                       *)
(***************************************************************************)
THEOREM SessionsAlwaysAccountedFor == Spec => []SessionsAccountedFor
<1>1. Accounts => SessionsAccountedFor
  BY DEF Accounts
<1> QED
  BY PlumbingCorrect, AccountsInit, AccountStep, <1>1, PTL DEF Spec

-----------------------------------------------------------------------------
(***************************************************************************)
(* Why a generation survives the servers that fail, when enough others     *)
(* never do: a route can always be planned, the budget is not used up, and *)
(* no reliable server refuses a call.                                      *)
(***************************************************************************)
\* Servers that cover every layer can be chained over any range of layers.
LEMMA AlwaysRoute ==
  ASSUME NEW peers \in SUBSET Peers, NEW s \in Layers, NEW e \in Boundaries, s < e,
         \A l \in Layers : \E p \in peers : Serves(SpanOf[p.addr], l)
  PROVE  Routes(peers, s, e) # {}
<1> DEFINE Lengths == {n \in Nat : n > 0 /\ n <= e /\ Routes(peers, e - n, e) = {}}
<1> SUFFICES ASSUME Routes(peers, s, e) = {} PROVE FALSE
  OBVIOUS
<1>1. /\ s \in Nat /\ e \in Nat /\ e <= NumLayers /\ NumLayers \in Nat
      /\ \A l \in Nat : l < e => l \in Layers
  BY LayersAssumption DEF Layers, Boundaries
<1>2. e - s \in Lengths
  <2>1. e - (e - s) = s /\ e - s \in Nat /\ e - s > 0 /\ e - s <= e
    BY <1>1
  <2> QED
    BY <2>1
<1>3. PICK n \in Lengths : \A m \in Lengths : ~(m < n)
  <2>1. Lengths \subseteq Nat /\ Lengths # {}
    BY <1>2
  <2> HIDE DEF Lengths
  <2>2. PICK n \in Lengths : \A m \in Lengths : ~(<<m, n>> \in OpToRel(<, Nat))
    BY <2>1, WFMin, NatLessThanWellFounded
  <2> QED
    BY <2>1, <2>2 DEF OpToRel
<1> DEFINE l == e - n
<1>4. l \in Nat /\ l < e /\ l \in Layers /\ Routes(peers, l, e) = {}
  BY <1>1, <1>3
<1>5. PICK p \in peers : Serves(SpanOf[p.addr], l)
  BY <1>4
<1> DEFINE h == [peer |-> p, start |-> l, end |-> Capped(SpanOf[p.addr].end, e)]
<1>6. /\ SpanOf[p.addr].end \in Boundaries /\ SpanOf[p.addr].end \in Nat
      /\ l < SpanOf[p.addr].end
  BY <1>5, SpansAreValid, LayersAssumption
  DEF SpanAssumption, Serves, Peers, Boundaries
<1>7. h.end \in Boundaries /\ h.end \in Nat /\ l < h.end /\ h.end <= e
  BY <1>1, <1>4, <1>6 DEF Capped
<1>8. h \in HopsWithin(peers, l, e)
  BY <1>1, <1>4, <1>5, <1>7 DEF HopsWithin
<1> HIDE DEF l
<1>9. CASE h.end = e
  <2>1. IsChain({h}, l, e)
    BY <1>1, <1>4, <1>7, <1>9 DEF IsChain, Serves
  <2>2. {h} \in Routes(peers, l, e)
    BY <1>8, <2>1 DEF Routes
  <2> QED
    BY <1>4, <2>2
<1>10. CASE h.end < e
  <2>1. PICK r : r \in Routes(peers, h.end, e)
    <3>1. e - h.end \in Nat /\ e - h.end > 0 /\ e - h.end <= e /\ e - h.end < n
          /\ e - (e - h.end) = h.end
      BY <1>1, <1>3, <1>4, <1>7, <1>10 DEF l
    <3> HIDE DEF h
    <3>2. e - h.end \notin Lengths
      BY <1>3, <3>1
    <3> QED
      BY <3>1, <3>2
  <2>2. r \subseteq HopsWithin(peers, h.end, e) /\ IsChain(r, h.end, e)
    BY <2>1 DEF Routes
  <2>3. ASSUME NEW g \in r
        PROVE  g \in HopsWithin(peers, l, e) /\ g.start \in Nat /\ g.end \in Nat
    <3> DEFINE b == h.end
    <3>1. g \in HopsWithin(peers, b, e) /\ b \in Nat /\ l < b
      BY <1>7, <2>2
    <3> HIDE DEF b, h
    <3>2. /\ g \in [peer : peers, start : b .. e - 1, end : Boundaries]
          /\ Serves(SpanOf[g.peer.addr], g.start)
          /\ g.end = Capped(SpanOf[g.peer.addr].end, e)
      BY <3>1 DEF HopsWithin
    <3>3. b .. e - 1 \subseteq l .. e - 1 /\ b .. e - 1 \subseteq Nat
      BY <1>1, <1>4, <3>1
    <3>4. g \in [peer : peers, start : l .. e - 1, end : Boundaries]
      BY <3>2, <3>3
    <3> QED
      BY <3>2, <3>3, <3>4, BoundariesAreNat DEF HopsWithin
  <2>4. IsChain({h} \cup r, l, e)
    <3> DEFINE hs == {h} \cup r
    <3>0. h.start = l
      OBVIOUS
    <3> HIDE DEF h
    <3>1. \A g \in hs : l <= g.start /\ g.start < g.end /\ g.end <= e
      BY <1>1, <1>4, <1>7, <2>2, <2>3, <3>0 DEF IsChain
    <3>2. ASSUME NEW k \in l .. e - 1 PROVE \E g \in hs : Serves(g, k)
      <4>1. CASE k < h.end
        BY <1>4, <3>0, <4>1 DEF Serves
      <4>2. CASE k >= h.end
        <5>1. k \in h.end .. e - 1
          BY <1>1, <1>4, <1>7, <4>2
        <5> QED
          BY <2>2, <5>1 DEF IsChain
      <4> QED
        BY <1>4, <1>7, <4>1, <4>2
    <3>3. ASSUME NEW k \in l .. e - 1, NEW g \in hs, NEW f \in hs, Serves(g, k), Serves(f, k)
          PROVE  g = f
      <4>1. \A i \in r : Serves(i, k) => k \in h.end .. e - 1
        BY <1>1, <1>4, <1>7, <2>2, <2>3 DEF IsChain, Serves
      <4>2. Serves(h, k) => ~(k \in h.end .. e - 1)
        BY <1>1, <1>4, <1>7 DEF Serves
      <4> QED
        BY <2>2, <3>3, <4>1, <4>2 DEF IsChain
    <3> QED
      BY <3>1, <3>2, <3>3 DEF IsChain
  <2>5. {h} \cup r \in Routes(peers, l, e)
    BY <1>8, <2>3, <2>4 DEF Routes
  <2> QED
    BY <1>4, <2>5
<1> QED
  BY <1>1, <1>7, <1>9, <1>10

\* A plan has servers of its own for its hops, and one hop at each of them.
LEMMA OncePerPlan ==
  ASSUME NEW peers \in SUBSET Peers, NEW s \in Layers, NEW e \in Boundaries,
         NEW r \in Routes(peers, s, e), NEW n \in Nat
  PROVE  /\ \A h \in Assign(r, n) :
              h.peer \in peers /\ Serves(SpanOf[h.peer.addr], h.start) /\ h.sid = <<n, h.start>>
         /\ \A g, h \in Assign(r, n) : g.peer.addr = h.peer.addr => g = h
<1>0. s \in Nat /\ e \in Nat /\ s .. e - 1 \subseteq Nat
  BY BoundariesAreNat
<1>1. /\ IsChain(r, s, e) /\ s \in Nat /\ e \in Nat
      /\ \A h \in r : /\ h.start \in Nat /\ h.end \in Nat /\ h.peer \in peers
                      /\ Serves(SpanOf[h.peer.addr], h.start)
                      /\ h.end = Capped(SpanOf[h.peer.addr].end, e)
  <2>1. IsChain(r, s, e) /\ r \subseteq HopsWithin(peers, s, e)
    BY DEF Routes
  <2>2. \A h \in r : /\ h \in [peer : peers, start : s .. e - 1, end : Boundaries]
                     /\ Serves(SpanOf[h.peer.addr], h.start)
                     /\ h.end = Capped(SpanOf[h.peer.addr].end, e)
    BY <2>1 DEF HopsWithin
  <2> QED
    BY <1>0, <2>1, <2>2, BoundariesAreNat
<1>2. \A h \in Assign(r, n) : \E i \in r :
        h = [peer |-> i.peer, start |-> i.start, end |-> i.end, sid |-> <<n, i.start>>]
  BY DEF Assign
<1>3. ASSUME NEW g \in r, NEW h \in r, g.peer.addr = h.peer.addr PROVE g = h
  <2>1. g.end = h.end /\ g.start < g.end /\ h.start < h.end /\ g.end <= e
        /\ s <= g.start /\ s <= h.start
    BY <1>1, <1>3 DEF IsChain
  <2>2. g.end - 1 \in s .. e - 1 /\ Serves(g, g.end - 1) /\ Serves(h, g.end - 1)
    BY <1>1, <2>1 DEF Serves
  <2> QED
    BY <1>1, <2>2 DEF IsChain
<1>4. ASSUME NEW g \in Assign(r, n), NEW h \in Assign(r, n), g.peer.addr = h.peer.addr
      PROVE  g = h
  <2>1. PICK i \in r :
          g = [peer |-> i.peer, start |-> i.start, end |-> i.end, sid |-> <<n, i.start>>]
    BY <1>2
  <2>2. PICK j \in r :
          h = [peer |-> j.peer, start |-> j.start, end |-> j.end, sid |-> <<n, j.start>>]
    BY <1>2
  <2>3. i = j
    BY <1>3, <1>4, <2>1, <2>2
  <2> QED
    BY <2>1, <2>2, <2>3
<1> QED
  BY <1>1, <1>2, <1>4

\* A session keeps the layers it was opened for, those of a request.
LEMMA ServerSessions ==
  ASSUME TypeOK, ServerStep
  PROVE  \A a \in Addrs : \A key \in DOMAIN sessions'[a] :
           \/ key \in DOMAIN sessions[a] /\ sessions'[a][key].end = sessions[a][key].end
           \/ \E r \in rpcs : r.addr = a /\ key = Key(r) /\ sessions'[a][key].end = r.end
<1> DEFINE Kept(a, key, s) ==
             \/ key \in DOMAIN sessions[a] /\ s.end = sessions[a][key].end
             \/ \E r \in rpcs : r.addr = a /\ key = Key(r) /\ s.end = r.end
           Goal == \A a \in Addrs : \A key \in DOMAIN sessions'[a] :
                     Kept(a, key, sessions'[a][key])
<1>0. sessions = [b \in Addrs |-> sessions[b]]
  BY DEF TypeOK, ServersTypeOK
<1>1. ASSUME NEW a \in Addrs, NEW t, sessions' = [sessions EXCEPT ![a] = t],
             \A key \in DOMAIN t : Kept(a, key, t[key])
      PROVE  Goal
  <2>1. sessions'[a] = t /\ \A b \in Addrs : b # a => sessions'[b] = sessions[b]
    BY <1>0, <1>1
  <2> QED
    BY <1>1, <2>1
<1>2. ASSUME UNCHANGED sessions PROVE Goal
  BY <1>2
<1>3. ASSUME NEW a \in Addrs, NEW gone
      PROVE  \A key \in DOMAIN Without(sessions[a], gone) :
               Kept(a, key, Without(sessions[a], gone)[key])
  BY DEF Without
<1>4. ASSUME NEW a \in Addrs, NEW t, NEW k, NEW s, Kept(a, k, s),
             \A key \in DOMAIN t : Kept(a, key, t[key])
      PROVE  \A key \in DOMAIN With(t, k, s) : Kept(a, key, With(t, k, s)[key])
  <2> HIDE DEF Kept
  <2> QED
    BY <1>4 DEF With
<1>5. ASSUME NEW r \in rpcs, ForwardKnown(r) \/ ForwardDoneOrphan(r) PROVE Goal
  BY <1>2, <1>5 DEF ForwardKnown, ForwardDoneOrphan
<1>6. ASSUME NEW r \in rpcs, ForwardNew(r, Idle(r.addr)) PROVE Goal
  <2> DEFINE fresh == [end |-> r.end, kv |-> Empty(r.start), length |-> 0]
  <2>1. PICK gone :
          \/ sessions' = [sessions EXCEPT ![r.addr] = Without(sessions[r.addr], gone)]
          \/ sessions' = [sessions EXCEPT ![r.addr] =
               With(Without(sessions[r.addr], gone), Key(r), fresh)]
    BY <1>6 DEF ForwardNew
  <2>2. r.addr \in Addrs /\ Kept(r.addr, Key(r), fresh)
    BY DEF TypeOK, ServersTypeOK, Rpcs
  <2> DEFINE kept == Without(sessions[r.addr], gone)
  <2>3. \A key \in DOMAIN kept : Kept(r.addr, key, kept[key])
    BY <1>3, <2>2
  <2>4. \A key \in DOMAIN With(kept, Key(r), fresh) :
          Kept(r.addr, key, With(kept, Key(r), fresh)[key])
    <3> HIDE DEF kept, fresh, Kept
    <3> QED
      BY <1>4, <2>2, <2>3
  <2>5. CASE sessions' = [sessions EXCEPT ![r.addr] = kept]
    <3> HIDE DEF kept, Kept, Goal
    <3> QED
      BY <1>1, <2>2, <2>3, <2>5
  <2>6. CASE sessions' = [sessions EXCEPT ![r.addr] = With(kept, Key(r), fresh)]
    <3> DEFINE t == With(kept, Key(r), fresh)
    <3>1. sessions' = [sessions EXCEPT ![r.addr] = t] /\ \A key \in DOMAIN t : Kept(r.addr, key, t[key])
      BY <2>4, <2>6
    <3> HIDE DEF t, Kept, Goal
    <3> QED
      BY <1>1, <2>2, <3>1
  <2> QED
    BY <2>1, <2>5, <2>6
<1>7. ASSUME NEW r \in rpcs, ForwardDone(r) \/ ForwardCancelled(r) PROVE Goal
  <2>1. r.addr \in Addrs /\ IsTable(sessions[r.addr])
    BY DEF TypeOK, ServersTypeOK, Rpcs
  <2> DEFINE old == sessions[r.addr][Key(r)]
  <2>2. \/ UNCHANGED sessions
        \/ /\ Key(r) \in DOMAIN sessions[r.addr]
           /\ \E s : /\ s.end = old.end
                    /\ sessions' = [sessions EXCEPT ![r.addr] = With(sessions[r.addr], Key(r), s)]
    <3>1. CASE ForwardDone(r)
      <4>1. Absorb(old, r.x).end = old.end
        BY DEF Absorb
      <4> HIDE DEF old
      <4> QED
        BY <2>1, <3>1, <4>1 DEF ForwardDone, old
    <3>2. CASE ForwardCancelled(r)
      <4>1. Key(r) \in DOMAIN sessions[r.addr] => old \in Sessions
        BY <2>1 DEF IsTable
      <4>2. old \in Sessions => [old EXCEPT !.kv = Cat(old.kv, r.x)].end = old.end
        BY DEF Sessions
      <4> QED
        BY <2>1, <3>2, <4>1, <4>2 DEF ForwardCancelled
    <3> QED
      BY <1>7, <3>1, <3>2
  <2>3. CASE UNCHANGED sessions
    BY <1>2, <2>3
  <2>4. ASSUME Key(r) \in DOMAIN sessions[r.addr], NEW s, s.end = old.end,
               sessions' = [sessions EXCEPT ![r.addr] = With(sessions[r.addr], Key(r), s)]
        PROVE  Goal
    <3> DEFINE t == With(sessions[r.addr], Key(r), s)
    <3>1. Kept(r.addr, Key(r), s)
      BY <2>4
    <3>2. \A key \in DOMAIN sessions[r.addr] : Kept(r.addr, key, sessions[r.addr][key])
      OBVIOUS
    <3>3. \A key \in DOMAIN t : Kept(r.addr, key, t[key])
      <4> HIDE DEF Kept
      <4> QED
        BY <1>4, <2>1, <3>1, <3>2
    <3>4. sessions' = [sessions EXCEPT ![r.addr] = t]
      BY <2>4
    <3> HIDE DEF t, Kept, Goal
    <3> QED
      BY <1>1, <2>1, <3>3, <3>4
  <2> QED
    BY <2>2, <2>3, <2>4
<1>8. ASSUME NEW a \in Addrs, Collect(a, Idle(a)) \/ Crash(a) PROVE Goal
  <2>1. PICK gone : sessions' = [sessions EXCEPT ![a] = Without(sessions[a], gone)]
    BY <1>0, <1>8 DEF Collect, Crash
  <2> DEFINE t == Without(sessions[a], gone)
  <2>2. sessions' = [sessions EXCEPT ![a] = t] /\ \A key \in DOMAIN t : Kept(a, key, t[key])
    BY <1>3, <2>1
  <2> HIDE DEF t, Kept, Goal
  <2> QED
    BY <1>1, <2>2
<1>9. ASSUME NEW a \in Addrs, OtherClients(a) \/ Start(a) PROVE Goal
  BY <1>2, <1>9 DEF OtherClients, Start
<1>10. Goal
  <2> HIDE DEF Goal
  <2> QED
    BY <1>5, <1>6, <1>7, <1>8, <1>9 DEF ServerStep
<1> QED
  BY <1>10

\* A generation that has ended does not go on.
LEMMA EndedStays == [Next]_vars /\ Ended => Ended'
<1> SUFFICES ASSUME [Next]_vars, Ended PROVE Ended'
  OBVIOUS
<1>1. pc \in {"closing", "closed"}
  BY DEF Ended
<1>2. CASE ClientStep
  BY <1>1, <1>2
  DEF ClientStep, BeginStep, EndGenerate, PlanRoute, NoRoute, RegistryFails, Closed, Send, Hop,
      Recover, CallFailed, CallAbandoned, ReplayDone, Awaited, HopDone, SkipClose, CloseHop, Ended
<1>3. CASE ServerStep /\ UNCHANGED <<listed, clientVars>>
  BY <1>1, <1>3 DEF clientVars, Ended
<1>4. CASE RegistryStep
  BY <1>1, <1>4 DEF RegistryStep, Announce, Expire, clientVars, Ended
<1>5. CASE UNCHANGED vars
  BY <1>1, <1>5 DEF vars, clientVars, Ended
<1> QED
  BY <1>2, <1>3, <1>4, <1>5 DEF Next

LEMMA IncGrows ==
  ASSUME TypeOK, [Next]_vars
  PROVE  \A a \in Addrs : inc[a] \in Nat /\ inc[a] <= MaxInc /\ inc[a] <= inc'[a]
<1>0. inc \in [Addrs -> 0 .. MaxInc] /\ MaxInc \in Nat
  BY WorkerBoundsAreValid DEF TypeOK, ServersTypeOK, SpanWorkerAssumption
<1>1. ASSUME inc' = inc PROVE \A a \in Addrs : inc[a] <= inc'[a]
  BY <1>0, <1>1
<1>2. CASE ClientStep
  <2>1. inc' = inc
    BY <1>2
    DEF ClientStep, BeginStep, EndGenerate, PlanRoute, NoRoute, RegistryFails, Closed, Send,
        Recover, CallFailed, CallAbandoned, ReplayDone, RecordFailure, HopDone, SkipClose,
        CloseHop, serverVars
  <2> QED
    BY <1>0, <1>1, <2>1
<1>3. CASE ServerStep
  <2>1. ASSUME NEW a \in Addrs, Start(a) PROVE \A b \in Addrs : inc[b] <= inc'[b]
    BY <1>0, <2>1 DEF Start
  <2>2. inc' = inc \/ \E a \in Addrs : Start(a)
    BY <1>3
    DEF ServerStep, ForwardKnown, ForwardNew, ForwardDone, ForwardDoneOrphan, ForwardCancelled,
        Collect, OtherClients, Crash
  <2> QED
    BY <1>0, <1>1, <2>1, <2>2
<1>4. CASE RegistryStep
  BY <1>0, <1>1, <1>4 DEF RegistryStep, Announce, Expire, serverVars
<1>5. CASE UNCHANGED vars
  BY <1>0, <1>1, <1>5 DEF vars, serverVars
<1> QED
  BY <1>0, <1>2, <1>3, <1>4, <1>5 DEF Next

\* The request that fails is not one to a reliable server.
LEMMA FailedUnreliable ==
  ASSUME Plumbing, Surviving, NEW r \in rpcs, NEW hop \in route \cup plan,
         CallFailed(r, hop) \/ CallAbandoned(r, hop)
  PROVE  /\ hop.peer.addr \notin Reliable
         /\ ~Ended /\ Awaited(r) /\ Hop(hop)
<1>1. Awaited(r) /\ Hop(hop) /\ ~Ended
  BY DEF CallFailed, CallAbandoned, Awaited, Ended
<1>2. r.addr = hop.peer.addr
  BY <1>1, CalledHop DEF Asks
<1>3. r.addr \notin Reliable
  BY <1>1 DEF CallFailed, CallAbandoned, Surviving, ServedInv
<1> QED
  BY <1>1, <1>2, <1>3

LEMMA SteadyStep ==
  ASSUME Enough, Plumbing, Surviving, [Next]_vars
  PROVE  Steady'
<1>0. TypeOK /\ Steady
  BY DEF Plumbing, Surviving
<1>1. /\ \A a \in Addrs : load[a] \in Nat /\ MaxLoad[a] \in Nat /\ inc[a] \in Nat
      /\ load = [a \in Addrs |-> load[a]] /\ up = [a \in Addrs |-> up[a]]
      /\ inc = [a \in Addrs |-> inc[a]]
      /\ listed \subseteq Peers /\ Reliable \subseteq Addrs
  BY <1>0, WorkerBoundsAreValid, SessionParametersAreValid
  DEF TypeOK, ServersTypeOK, ClientTypeOK, SpanWorkerAssumption, InferenceSessionAssumption
<1>2. ASSUME UNCHANGED <<up, inc, load, listed>>, \A p \in exclude' : p.addr \notin Reliable
      PROVE  Steady'
  BY <1>0, <1>2 DEF Steady, CurrentPeer
<1>3. CASE ServerStep /\ UNCHANGED <<listed, clientVars>>
  <2>1. listed' = listed /\ exclude' = exclude
    BY <1>3 DEF clientVars, blameVars
  <2>2. ASSUME NEW a \in Addrs, OtherClients(a) PROVE Steady'
    <3>1. UNCHANGED <<up, inc>> /\ \A b \in Addrs : load'[b] <= MaxLoad[b]
      BY <1>0, <1>1, <2>2 DEF OtherClients, Steady
    <3> QED
      BY <1>0, <2>1, <3>1 DEF Steady, CurrentPeer
  <2>3. ASSUME NEW a \in Addrs \ Reliable, Crash(a) PROVE Steady'
    <3>1. inc' = inc /\ \A b \in Reliable : up'[b] = up[b]
      BY <1>1, <2>3 DEF Crash
    <3>2. \A b \in Addrs : load'[b] <= MaxLoad[b]
      BY <1>0, <1>1, <2>3 DEF Crash, Steady
    <3> QED
      BY <1>0, <2>1, <3>1, <3>2 DEF Steady, CurrentPeer
  <2>4. ASSUME NEW a \in Addrs, Start(a) PROVE Steady'
    <3>1. a \notin Reliable
      BY <1>0, <2>4 DEF Start, Steady
    <3>2. /\ load' = load /\ \A b \in Reliable : up'[b] = up[b] /\ inc'[b] = inc[b]
          /\ \A b \in Addrs : inc[b] <= inc'[b] /\ inc'[b] \in Nat
      <4>1. load' = load /\ inc' = [inc EXCEPT ![a] = inc[a] + 1] /\ up' = [up EXCEPT ![a] = TRUE]
        BY <2>4 DEF Start
      <4>2. \A b \in Reliable : b \in Addrs /\ b # a
        BY <1>1, <3>1
      <4>3. \A b \in Reliable : up'[b] = up[b]
        BY <1>1, <4>1, <4>2
      <4>4. \A b \in Reliable : inc'[b] = inc[b]
        BY <1>1, <4>1, <4>2
      <4>5. \A b \in Addrs : inc'[b] = IF b = a THEN inc[a] + 1 ELSE inc[b]
        BY <1>1, <4>1
      <4>6. \A b \in Addrs : inc[b] <= inc'[b] /\ inc'[b] \in Nat
        BY <1>1, <4>5
      <4> QED
        BY <4>1, <4>3, <4>4, <4>6
    <3>3. \A p \in listed : p.addr \in Addrs /\ p.inc \in Nat /\ p.inc <= inc[p.addr]
      BY <1>0, <1>1 DEF Steady, Peers
    <3>4. \A p \in listed : p.inc <= inc'[p.addr]
      BY <1>1, <3>2, <3>3
    <3> QED
      BY <1>0, <2>1, <3>2, <3>4 DEF Steady, CurrentPeer
  <2>5. UNCHANGED <<up, inc, load>> \/ (\E a \in Addrs : OtherClients(a) \/ Start(a))
        \/ \E a \in Addrs \ Reliable : Crash(a)
    BY <1>3
    DEF ServerStep, ForwardKnown, ForwardNew, ForwardDone, ForwardDoneOrphan, ForwardCancelled,
        Collect
  <2> QED
    BY <1>0, <1>2, <2>1, <2>2, <2>3, <2>4, <2>5 DEF Steady
<1>4. ASSUME NEW hop \in route \cup plan, NEW r \in rpcs,
             CallFailed(r, hop) \/ CallAbandoned(r, hop)
      PROVE  Steady'
  <2>1. UNCHANGED <<up, inc, load, listed>> /\ exclude' = exclude \cup {hop.peer}
    BY <1>4 DEF CallFailed, CallAbandoned, RecordFailure, Blame
  <2> QED
    BY <1>0, <1>2, <1>4, <2>1, FailedUnreliable DEF Steady
<1>5. CASE ClientStep
  <2>1. ASSUME UNCHANGED <<up, inc, load, listed, exclude>> PROVE Steady'
    BY <1>0, <1>2, <2>1 DEF Steady
  <2>2. CASE BeginStep \/ EndGenerate \/ PlanRoute \/ NoRoute \/ RegistryFails \/ Closed
    BY <2>1, <2>2
    DEF BeginStep, EndGenerate, PlanRoute, NoRoute, RegistryFails, Closed, serverVars, blameVars
  <2>3. ASSUME NEW hop \in route \cup plan, Send(hop) \/ Recover(hop) PROVE Steady'
    BY <2>1, <2>3 DEF Send, Recover, serverVars, blameVars
  <2>4. ASSUME NEW hop \in route \cup plan, NEW r \in rpcs, ReplayDone(r, hop) PROVE Steady'
    BY <2>1, <2>4 DEF ReplayDone, blameVars
  <2>5. ASSUME NEW r \in rpcs, HopDone(r) PROVE Steady'
    BY <2>1, <2>5 DEF HopDone, blameVars
  <2>6. ASSUME NEW hop \in opened, SkipClose(hop) \/ CloseHop(hop) PROVE Steady'
    BY <2>1, <2>6 DEF SkipClose, CloseHop, serverVars, blameVars
  <2> QED
    BY <1>4, <1>5, <2>2, <2>3, <2>4, <2>5, <2>6 DEF ClientStep
<1>6. CASE RegistryStep
  <2>1. UNCHANGED <<up, inc, load, exclude>>
    BY <1>6 DEF RegistryStep, Announce, Expire, serverVars, clientVars, blameVars
  <2>2. \A a \in Reliable : CurrentPeer(a) \in listed'
    <3>1. \A a : CurrentPeer(a).addr = a
      BY DEF CurrentPeer
    <3> QED
      BY <1>0, <1>6, <3>1 DEF RegistryStep, Announce, Expire, Steady
  <2>3. \A p \in listed' : p.inc <= inc[p.addr]
    <3>1. \A a \in Addrs : CurrentPeer(a).inc <= inc[CurrentPeer(a).addr]
      BY <1>1 DEF CurrentPeer
    <3> QED
      BY <1>0, <1>6, <3>1 DEF RegistryStep, Announce, Expire, Steady
  <2> QED
    BY <1>0, <2>1, <2>2, <2>3 DEF Steady, CurrentPeer
<1>7. CASE UNCHANGED vars
  BY <1>0, <1>2, <1>7 DEF vars, serverVars, clientVars, blameVars, Steady
<1> QED
  BY <1>3, <1>5, <1>6, <1>7 DEF Next

\* A plan gives the client hops at peers that are listed and have not failed.
LEMMA PlanOpens ==
  ASSUME TypeOK, Steady, OpenedInv, NEW s \in Layers, NEW e \in Boundaries,
         NEW r \in Routes(listed \ exclude, s, e),
         opened' = opened \cup Assign(r, gen), gen' = gen + 1, UNCHANGED inc
  PROVE  /\ OpenedInv'
         /\ \A hop \in Assign(r, gen) : hop.peer \notin exclude
<1> DEFINE new == Assign(r, gen)
<1>1. gen \in Nat /\ listed \ exclude \in SUBSET Peers
  BY Shapes
<1>2. /\ \A h \in new : /\ h.peer \in listed \ exclude /\ Serves(SpanOf[h.peer.addr], h.start)
                        /\ h.sid = <<gen, h.start>>
      /\ \A g, h \in new : g.peer.addr = h.peer.addr => g = h
  <2> DEFINE peers == listed \ exclude
  <2>1. peers \in SUBSET Peers /\ r \in Routes(peers, s, e)
    BY <1>1
  <2> HIDE DEF peers
  <2>2. /\ \A h \in Assign(r, gen) :
             h.peer \in peers /\ Serves(SpanOf[h.peer.addr], h.start) /\ h.sid = <<gen, h.start>>
        /\ \A g, h \in Assign(r, gen) : g.peer.addr = h.peer.addr => g = h
    BY <1>1, <2>1, OncePerPlan
  <2> QED
    BY <2>2 DEF peers
<1> HIDE DEF new
<1>4. \A h \in opened : /\ h.sid[1] \in Nat /\ h.sid[1] < gen /\ h.sid[2] = h.start
                        /\ h.peer.inc <= inc[h.peer.addr]
                        /\ Serves(SpanOf[h.peer.addr], h.start)
  BY DEF OpenedInv, Drawn, TypeOK, ClientTypeOK, Assigned, Sids
<1>5. \A h \in new : h.sid[1] = gen /\ h.sid[2] = h.start /\ h.peer.inc <= inc[h.peer.addr]
  BY <1>2 DEF Steady
<1>6. opened' = opened \cup new
  BY DEF new
<1>7. \A h \in opened' : /\ Drawn(h.sid, h.start)'
                         /\ h.peer.inc <= inc'[h.peer.addr]
                         /\ Serves(SpanOf[h.peer.addr], h.start)
  BY <1>1, <1>2, <1>4, <1>5, <1>6 DEF Drawn
<1>8. ASSUME NEW g \in opened', NEW h \in opened', g.peer.addr = h.peer.addr, g.sid[1] = h.sid[1]
      PROVE  g = h
  <2>1. CASE g \in opened /\ h \in opened
    BY <1>8, <2>1 DEF OpenedInv
  <2>2. CASE g \in new /\ h \in new
    BY <1>2, <1>8, <2>2
  <2>3. \A i \in opened, j \in new : i.sid[1] # j.sid[1]
    BY <1>1, <1>4, <1>5
  <2> QED
    BY <1>6, <1>8, <2>1, <2>2, <2>3
<1> QED
  BY <1>2, <1>7, <1>8 DEF OpenedInv, new

LEMMA OpenedStep ==
  ASSUME Plumbing, Surviving, ~Ended, ~Ended', [Next]_vars
  PROVE  OpenedInv'
<1>0. TypeOK /\ Steady /\ OpenedInv
  BY DEF Plumbing, Surviving
<1>1. ASSUME UNCHANGED <<opened, gen>> PROVE OpenedInv'
  <2>1. \A h \in opened : h.peer.addr \in Addrs /\ h.peer.inc \in Nat
    BY <1>0 DEF TypeOK, ClientTypeOK, Assigned, Peers
  <2>2. \A a \in Addrs : inc[a] \in Nat /\ inc[a] <= inc'[a]
    BY <1>0, IncGrows
  <2>3. \A a \in Addrs : inc'[a] \in Nat
    BY <1>0, TypesStep DEF TypeOK, ServersTypeOK
  <2>4. \A h \in opened : h.peer.inc <= inc'[h.peer.addr]
    BY <1>0, <2>1, <2>2, <2>3 DEF OpenedInv
  <2> QED
    BY <1>0, <1>1, <2>4 DEF OpenedInv, Drawn
<1>2. CASE BeginStep \/ EndGenerate \/ NoRoute \/ RegistryFails \/ Closed
  BY <1>1, <1>2
  DEF BeginStep, EndGenerate, NoRoute, RegistryFails, Closed, assignVars
<1>3. CASE PlanRoute
  <2>1. PICK r \in Routes(listed \ exclude, 0, NumLayers) : opened' = opened \cup Assign(r, gen)
    BY <1>3 DEF PlanRoute, Open
  <2>2. gen' = gen + 1 /\ UNCHANGED inc
    BY <1>3 DEF PlanRoute, serverVars
  <2> QED
    BY <1>0, <2>1, <2>2, Shapes, PlanOpens
<1>4. ASSUME NEW hop \in route \cup plan, Recover(hop) PROVE OpenedInv'
  <2>1. PICK r \in Routes(listed \ exclude, hop.start, hop.end) : opened' = opened \cup Assign(r, gen)
    BY <1>4 DEF Recover, Open
  <2>2. gen' = gen + 1 /\ UNCHANGED inc
    BY <1>4 DEF Recover, serverVars
  <2>3. hop.start \in Layers /\ hop.end \in Boundaries
    BY <1>0, Shapes DEF Assigned
  <2> QED
    BY <1>0, <2>1, <2>2, <2>3, PlanOpens
<1>5. ASSUME NEW hop \in route \cup plan, Send(hop) PROVE OpenedInv'
  BY <1>1, <1>5 DEF Send, assignVars
<1>6. ASSUME NEW hop \in route \cup plan, NEW r \in rpcs,
             CallFailed(r, hop) \/ CallAbandoned(r, hop) \/ ReplayDone(r, hop)
      PROVE  OpenedInv'
  BY <1>1, <1>6 DEF CallFailed, CallAbandoned, ReplayDone, RecordFailure, assignVars
<1>7. ASSUME NEW r \in rpcs, HopDone(r) PROVE OpenedInv'
  BY <1>1, <1>7 DEF HopDone, assignVars
<1>8. ASSUME NEW hop \in opened, SkipClose(hop) \/ CloseHop(hop) PROVE FALSE
  BY <1>8 DEF SkipClose, CloseHop, Ended
<1>9. CASE ServerStep /\ UNCHANGED <<listed, clientVars>>
  BY <1>1, <1>9 DEF clientVars, assignVars
<1>10. CASE RegistryStep
  BY <1>1, <1>10 DEF RegistryStep, Announce, Expire, clientVars, assignVars
<1>11. CASE UNCHANGED vars
  BY <1>1, <1>11 DEF vars, clientVars, assignVars
<1> QED
  BY <1>2, <1>3, <1>4, <1>5, <1>6, <1>7, <1>8, <1>9, <1>10, <1>11 DEF Next, ClientStep

\* What was recorded of the failures is within the budget.
LEMMA WithinBudget ==
  ASSUME Enough, NEW points \in SUBSET FailurePoints
  PROVE  /\ IsFiniteSet(points) /\ Cardinality(points) \in Nat
         /\ Cardinality(points) <= MaxFailures
<1>1. IsFiniteSet(FailurePoints) /\ Cardinality(FailurePoints) <= MaxFailures
  BY DEF Enough
<1>2. /\ IsFiniteSet(points) /\ Cardinality(points) <= Cardinality(FailurePoints)
  BY <1>1, FS_Subset
<1>3. Cardinality(points) \in Nat /\ Cardinality(FailurePoints) \in Nat /\ MaxFailures \in Nat
  BY <1>1, <1>2, FS_CardinalityType, SessionParametersAreValid DEF InferenceSessionAssumption
<1> QED
  BY <1>1, <1>2, <1>3

\* A reliable worker has room for a request that it has no session for.
LEMMA NeverFull ==
  ASSUME Enough, TypeOK, Steady, OpenedInv, ServedInv, BudgetInv,
         NEW r \in rpcs, r.addr \in Reliable, Key(r) \notin DOMAIN sessions[r.addr], NEW gone
  PROVE  ~Full(r.addr, Without(sessions[r.addr], gone))
<1> DEFINE a == r.addr
           keys == DOMAIN Without(sessions[a], gone)
           others == (0 .. gen - 1) \ {r.sid[1]}
           f == [k \in keys |-> k[1][1]]
<1>1. /\ gen \in Nat /\ failures \in Nat /\ gen <= failures + 1
      /\ a \in Addrs /\ load[a] \in Nat /\ load[a] <= MaxLoad[a] /\ MaxLoad[a] \in Nat
      /\ MaxSessions \in Nat /\ MaxFailures \in Nat /\ MaxFailures + MaxLoad[a] < MaxSessions
  BY WorkerBoundsAreValid, SessionParametersAreValid
  DEF TypeOK, ServersTypeOK, ClientTypeOK, Rpcs, SpanWorkerAssumption, InferenceSessionAssumption,
      BudgetInv, Steady, Enough
<1>2. failures <= MaxFailures
  BY WithinBudget DEF BudgetInv
<1>3. PICK h \in opened : Names(h, a, r.sid, r.start, r.end)
  BY DEF ServedInv
<1>4. r.sid[1] \in 0 .. gen - 1
  BY <1>1, <1>3 DEF Names, OpenedInv, Drawn, TypeOK, ClientTypeOK, Assigned, Sids
<1>5. keys \subseteq DOMAIN sessions[a]
  BY DEF Without
<1>6. ASSUME NEW k \in keys
      PROVE  \E g \in opened : /\ g.peer.addr = a /\ g.sid = k[1] /\ k = HopKey(g)
                               /\ g.sid[1] \in 0 .. gen - 1
  <2>1. PICK g \in opened : Names(g, a, k[1], k[2], sessions[a][k].end)
    BY <1>1, <1>5 DEF ServedInv
  <2>2. k \in Keys
    BY <1>1, <1>5 DEF TypeOK, ServersTypeOK, IsTable
  <2>3. k = <<k[1], k[2]>>
    BY <2>2 DEF Keys
  <2>4. g.sid[1] \in 0 .. gen - 1
    BY <1>1 DEF OpenedInv, Drawn, TypeOK, ClientTypeOK, Assigned, Sids
  <2> QED
    BY <2>1, <2>3, <2>4 DEF Names, HopKey
<1>7. ASSUME NEW k \in keys PROVE k[1][1] \in others
  <2>1. PICK g \in opened : /\ g.peer.addr = a /\ g.sid = k[1] /\ k = HopKey(g)
                            /\ g.sid[1] \in 0 .. gen - 1
    BY <1>6
  <2>2. ASSUME g.sid[1] = r.sid[1] PROVE FALSE
    <3>1. g = h
      BY <1>3, <2>1, <2>2 DEF OpenedInv, Names
    <3>2. k = Key(r)
      BY <1>3, <2>1, <3>1 DEF Names, HopKey, Key
    <3> QED
      BY <1>5, <3>2
  <2> QED
    BY <2>1, <2>2
<1>8. ASSUME NEW k \in keys, NEW m \in keys, k[1][1] = m[1][1] PROVE k = m
  <2>1. PICK g \in opened : g.peer.addr = a /\ g.sid = k[1] /\ k = HopKey(g)
    BY <1>6
  <2>2. PICK i \in opened : i.peer.addr = a /\ i.sid = m[1] /\ m = HopKey(i)
    BY <1>6
  <2>3. g = i
    BY <1>8, <2>1, <2>2 DEF OpenedInv
  <2> QED
    BY <2>1, <2>2, <2>3
<1>9. IsFiniteSet(others) /\ Cardinality(others) = gen - 1
  <2>1. IsFiniteSet(0 .. gen - 1) /\ Cardinality(0 .. gen - 1) = gen
    <3>1. 0 \in Int /\ gen - 1 \in Int
      BY <1>1
    <3>2. /\ IsFiniteSet(0 .. gen - 1)
          /\ Cardinality(0 .. gen - 1) = IF 0 > gen - 1 THEN 0 ELSE (gen - 1) - 0 + 1
      BY <3>1, FS_Interval
    <3> QED
      BY <1>1, <1>4, <3>2
  <2> QED
    BY <1>4, <2>1, FS_RemoveElement
<1> HIDE DEF keys, others
<1>10. f \in Injection(keys, others)
  BY <1>7, <1>8 DEF Injection, IsInjective
<1>11. Cardinality(keys) <= gen - 1 /\ IsFiniteSet(keys)
  BY <1>9, <1>10, FS_Injection
<1>12. Cardinality(keys) \in Nat
  BY <1>11, FS_CardinalityType
<1>13. Cardinality(keys) + load[a] < MaxSessions
  BY <1>1, <1>2, <1>11, <1>12
<1> QED
  BY <1>1, <1>12, <1>13 DEF Full, keys

LEMMA ServedStep ==
  ASSUME Enough, Plumbing, Accounts, Surviving, ~Ended, ~Ended', [Next]_vars
  PROVE  ServedInv'
<1>0. TypeOK /\ Steady /\ OpenedInv /\ ServedInv /\ BudgetInv /\ route \cup plan \subseteq opened
  BY DEF Plumbing, Surviving, Accounts
<1>1. ASSUME opened \subseteq opened', UNCHANGED sessions,
             \A s \in rpcs' : \E r \in rpcs : Same(s, r) /\ s.st = r.st
      PROVE  ServedInv'
  <2>1. \A s \in rpcs' : \E hop \in opened' : Names(hop, s.addr, s.sid, s.start, s.end)
    BY <1>0, <1>1 DEF ServedInv, Same
  <2>2. \A s \in rpcs' : s.addr \in Reliable => s.st \notin {"refused", "lost"}
    BY <1>0, <1>1 DEF ServedInv, Same
  <2> QED
    BY <1>0, <1>1, <2>1, <2>2 DEF ServedInv
<1>2. ASSUME opened \subseteq opened', UNCHANGED sessions, rpcs' \subseteq rpcs PROVE ServedInv'
  BY <1>1, <1>2 DEF Same
<1>3. CASE BeginStep \/ EndGenerate \/ PlanRoute \/ NoRoute \/ RegistryFails \/ Closed
  BY <1>2, <1>3
  DEF BeginStep, EndGenerate, PlanRoute, NoRoute, RegistryFails, Closed, Open, serverVars,
      assignVars
<1>4. ASSUME NEW hop \in route \cup plan, Recover(hop) PROVE ServedInv'
  BY <1>2, <1>4 DEF Recover, Open, serverVars
<1>5. ASSUME NEW hop \in route \cup plan, Send(hop) PROVE ServedInv'
  <2>1. PICK r : /\ rpcs' = rpcs \cup {r}
                 /\ r = Request(hop, IF pc = "forward" THEN hidden ELSE x, up[hop.peer.addr])
    BY <1>5 DEF Send
  <2>2. UNCHANGED <<sessions, opened>>
    BY <1>5 DEF Send, assignVars
  <2>3. hop \in opened
    BY <1>0
  <2>4. Names(hop, r.addr, r.sid, r.start, r.end)
    BY <2>1 DEF Request, Names
  <2>5. r.addr \in Reliable => r.st = "sent"
    <3>1. r.addr = hop.peer.addr /\ r.st = IF up[hop.peer.addr] THEN "sent" ELSE "lost"
      BY <2>1 DEF Request
    <3>2. r.addr \in Reliable => up[hop.peer.addr]
      BY <1>0, <3>1 DEF Steady
    <3> QED
      BY <3>1, <3>2
  <2>6. \A s \in rpcs' : \E g \in opened' : Names(g, s.addr, s.sid, s.start, s.end)
    BY <1>0, <2>1, <2>2, <2>3, <2>4 DEF ServedInv
  <2>7. \A s \in rpcs' : s.addr \in Reliable => s.st \notin {"refused", "lost"}
    BY <1>0, <2>1, <2>5 DEF ServedInv
  <2> QED
    BY <1>0, <2>2, <2>6, <2>7 DEF ServedInv
<1>6. ASSUME NEW hop \in route \cup plan, NEW r \in rpcs,
             CallFailed(r, hop) \/ CallAbandoned(r, hop) \/ ReplayDone(r, hop)
      PROVE  ServedInv'
  <2>1. rpcs' \subseteq (rpcs \ {r}) \cup {[r EXCEPT !.live = FALSE]}
        /\ UNCHANGED <<sessions, opened>>
    BY <1>6 DEF CallFailed, CallAbandoned, ReplayDone, RecordFailure, assignVars
  <2> DEFINE gone == [r EXCEPT !.live = FALSE]
  <2>2. /\ gone.addr = r.addr /\ gone.sid = r.sid /\ gone.start = r.start /\ gone.end = r.end
        /\ gone.st = r.st
    BY <1>0 DEF TypeOK, ServersTypeOK, Rpcs
  <2> HIDE DEF gone
  <2>3. rpcs' \subseteq (rpcs \ {r}) \cup {gone}
    BY <2>1 DEF gone
  <2>4. \A s \in rpcs' : \E q \in rpcs :
          s.addr = q.addr /\ s.sid = q.sid /\ s.start = q.start /\ s.end = q.end /\ s.st = q.st
    BY <2>2, <2>3
  <2>5. \A s \in rpcs' : \E g \in opened' : Names(g, s.addr, s.sid, s.start, s.end)
    BY <1>0, <2>1, <2>4 DEF ServedInv
  <2>6. \A s \in rpcs' : s.addr \in Reliable => s.st \notin {"refused", "lost"}
    BY <1>0, <2>4 DEF ServedInv
  <2> QED
    BY <1>0, <2>1, <2>5, <2>6 DEF ServedInv
<1>7. ASSUME NEW r \in rpcs, HopDone(r) PROVE ServedInv'
  BY <1>2, <1>7 DEF HopDone, assignVars
<1>8. ASSUME NEW hop \in opened, SkipClose(hop) \/ CloseHop(hop) PROVE FALSE
  BY <1>8 DEF SkipClose, CloseHop, Ended
<1>9. CASE ServerStep /\ UNCHANGED <<listed, clientVars>>
  <2>1. opened' = opened
    BY <1>9 DEF clientVars, assignVars
  <2>2. \A s \in rpcs' : \E g \in opened' : Names(g, s.addr, s.sid, s.start, s.end)
    <3>1. \A s \in rpcs' : \E r \in rpcs : Same(s, r)
      BY <1>0, <1>9, ServerRpcs
    <3> QED
      BY <1>0, <2>1, <3>1 DEF ServedInv, Same
  <2>3. ASSUME NEW a \in Addrs, NEW key \in DOMAIN sessions'[a]
        PROVE  \E hop \in opened' : Names(hop, a, key[1], key[2], sessions'[a][key].end)
    <3>1. CASE key \in DOMAIN sessions[a] /\ sessions'[a][key].end = sessions[a][key].end
      BY <1>0, <2>1, <3>1 DEF ServedInv
    <3>2. ASSUME NEW r \in rpcs, r.addr = a, key = Key(r), sessions'[a][key].end = r.end
          PROVE  \E hop \in opened' : Names(hop, a, key[1], key[2], sessions'[a][key].end)
      <4>1. key[1] = r.sid /\ key[2] = r.start
        BY <3>2 DEF Key
      <4> QED
        BY <1>0, <2>1, <3>2, <4>1 DEF ServedInv
    <3> QED
      BY <1>0, <1>9, <3>1, <3>2, ServerSessions
  <2>4. ASSUME NEW s \in rpcs', s.addr \in Reliable PROVE s.st \notin {"refused", "lost"}
    <3>1. ASSUME NEW r \in rpcs, ForwardKnown(r) PROVE s \in rpcs \/ s.st = "running"
      <4>1. CASE sessions[r.addr][Key(r)].end = r.end
        <5>1. s \in rpcs \/ s = [r EXCEPT !.st = "running", !.past = sessions[r.addr][Key(r)].length]
          BY <3>1, <4>1 DEF ForwardKnown, Advance
        <5> QED
          BY <1>0, <5>1 DEF TypeOK, ServersTypeOK, Rpcs
      <4>2. CASE sessions[r.addr][Key(r)].end # r.end
        <5>1. r.addr \in Addrs /\ Key(r) \in DOMAIN sessions[r.addr]
          BY <1>0, <3>1 DEF ForwardKnown, TypeOK, ServersTypeOK, Rpcs
        <5>2. PICK g \in opened : Names(g, r.addr, r.sid, r.start, r.end)
          BY <1>0 DEF ServedInv
        <5>3. PICK h \in opened : Names(h, r.addr, r.sid, r.start, sessions[r.addr][Key(r)].end)
          <6>1. Key(r)[1] = r.sid /\ Key(r)[2] = r.start
            BY DEF Key
          <6> QED
            BY <1>0, <5>1, <6>1 DEF ServedInv
        <5>4. g = h
          BY <1>0, <5>2, <5>3 DEF Names, OpenedInv
        <5> QED
          BY <4>2, <5>2, <5>3, <5>4 DEF Names
      <4> QED
        BY <4>1, <4>2
    <3>2. ASSUME NEW r \in rpcs, ForwardNew(r, Idle(r.addr)) PROVE s \in rpcs \/ s.st = "running"
      <4>1. CASE r.addr \in Reliable
        <5>1. \A gone : ~Full(r.addr, Without(sessions[r.addr], gone))
          BY <1>0, <3>2, <4>1, NeverFull DEF ForwardNew
        <5>2. rpcs' = (rpcs \ {r}) \cup {[r EXCEPT !.st = "running", !.past = 0]}
          BY <3>2, <5>1 DEF ForwardNew, Advance
        <5> QED
          BY <1>0, <5>2 DEF TypeOK, ServersTypeOK, Rpcs
      <4>2. CASE r.addr \notin Reliable
        <5>1. \/ s \in rpcs
              \/ s = [r EXCEPT !.st = "running", !.past = 0]
              \/ s = [r EXCEPT !.st = "refused"]
          BY <3>2 DEF ForwardNew, Advance
        <5>2. s \notin rpcs => s.addr = r.addr
          BY <1>0, <5>1 DEF TypeOK, ServersTypeOK, Rpcs
        <5> QED
          BY <2>4, <4>2, <5>2
      <4> QED
        BY <4>1, <4>2
    <3>3. ASSUME NEW r \in rpcs, ForwardDone(r) PROVE s \in rpcs \/ s.st = "done"
      <4>1. PICK out : s \in rpcs \/ s = [r EXCEPT !.st = "done", !.out = out]
        BY <3>3 DEF ForwardDone
      <4> QED
        BY <1>0, <4>1 DEF TypeOK, ServersTypeOK, Rpcs
    <3>4. ASSUME NEW r \in rpcs, ForwardDoneOrphan(r) \/ ForwardCancelled(r) PROVE s \in rpcs
      BY <3>4 DEF ForwardDoneOrphan, ForwardCancelled
    <3>5. ASSUME NEW a \in Addrs \ Reliable, Crash(a) PROVE s \in rpcs
      <4>1. s \in rpcs \/ \E r \in rpcs : r.addr = a /\ s = [r EXCEPT !.st = "lost"]
        BY <3>5 DEF Crash
      <4>2. \A r \in rpcs : [r EXCEPT !.st = "lost"].addr = r.addr
        BY <1>0 DEF TypeOK, ServersTypeOK, Rpcs
      <4> QED
        BY <2>4, <4>1, <4>2
    <3>6. ASSUME NEW a \in Addrs, Collect(a, Idle(a)) \/ OtherClients(a) \/ Start(a)
          PROVE  s \in rpcs
      BY <3>6 DEF Collect, OtherClients, Start
    <3>7. s \in rpcs \/ s.st \in {"running", "done"}
      BY <1>9, <3>1, <3>2, <3>3, <3>4, <3>5, <3>6 DEF ServerStep
    <3> QED
      BY <1>0, <2>4, <3>7 DEF ServedInv
  <2> QED
    BY <2>2, <2>3, <2>4 DEF ServedInv
<1>10. CASE RegistryStep
  BY <1>2, <1>10 DEF RegistryStep, Announce, Expire, serverVars, clientVars, assignVars
<1>11. CASE UNCHANGED vars
  BY <1>2, <1>11 DEF vars, serverVars, clientVars, assignVars
<1> QED
  BY <1>3, <1>4, <1>5, <1>6, <1>7, <1>8, <1>9, <1>10, <1>11 DEF Next, ClientStep

\* A call that fails is the first failure of its server at that layer.
LEMMA FailureStep ==
  ASSUME Enough, Plumbing, Accounts, Surviving, NEW r \in rpcs, NEW hop \in route \cup plan,
         CallFailed(r, hop) \/ CallAbandoned(r, hop)
  PROVE  pc' = "recover" /\ UNCHANGED status /\ BudgetInv'
<1> DEFINE point == <<hop.peer, hop.start>>
<1>0. /\ TypeOK /\ Steady /\ OpenedInv /\ BudgetInv /\ route \cup plan \subseteq opened
      /\ hop.peer.addr \notin Reliable /\ Awaited(r) /\ Hop(hop)
  BY FailedUnreliable DEF Plumbing, Surviving, Accounts, Awaited, Ended
<1>1. PICK points \in SUBSET FailurePoints :
        /\ Cardinality(points) = failures
        /\ \A pt \in points : pt[1] \in exclude
        /\ \A g \in route : Suspect(g) => <<g.peer, g.start>> \notin points
  BY <1>0 DEF BudgetInv
<1>2. point \in FailurePoints
  <2>1. /\ hop \in Assigned /\ hop \in opened /\ hop.peer \in Peers /\ hop.start \in Layers
    BY <1>0, Shapes DEF Assigned
  <2>2. hop.peer.inc <= inc[hop.peer.addr] /\ Serves(SpanOf[hop.peer.addr], hop.start)
    BY <1>0, <2>1 DEF OpenedInv
  <2>3. inc[hop.peer.addr] \in Nat /\ inc[hop.peer.addr] <= MaxInc /\ MaxInc \in Nat
    BY <1>0, <2>1, WorkerBoundsAreValid
    DEF TypeOK, ServersTypeOK, SpanWorkerAssumption, Peers
  <2>4. hop.peer \in [addr : Addrs \ Reliable, inc : 1 .. MaxInc]
    BY <1>0, <2>1, <2>2, <2>3 DEF Peers
  <2> QED
    BY <2>1, <2>2, <2>4 DEF FailurePoints
<1>3. point \notin points
  <2>1. CASE pc = "await"
    <3>1. hop \in route /\ ~Recovering
      BY <1>0, <2>1 DEF Hop, Recovering
    <3> QED
      BY <1>1, <3>1 DEF Suspect
  <2>2. CASE pc = "awaitReplay"
    <3>1. hop.peer \notin exclude
      BY <1>0, <2>2 DEF Hop, BudgetInv
    <3> QED
      BY <1>1, <3>1
  <2> QED
    BY <1>0, <2>1, <2>2 DEF Awaited
<1> DEFINE more == points \cup {point}
<1>4. more \in SUBSET FailurePoints /\ Cardinality(more) = failures + 1
  <2>1. IsFiniteSet(points)
    BY WithinBudget
  <2>2. Cardinality(more) = Cardinality(points) + 1
    <3> HIDE DEF point
    <3> QED
      BY <1>3, <2>1, FS_AddElement
  <2> QED
    BY <1>1, <1>2, <2>2
<1>5. failures + 1 <= MaxFailures /\ failures \in Nat /\ MaxFailures \in Nat
  <2> HIDE DEF more
  <2>1. Cardinality(more) <= MaxFailures
    BY <1>4, WithinBudget
  <2> QED
    BY <1>0, <1>4, <2>1, SessionParametersAreValid
    DEF TypeOK, ClientTypeOK, InferenceSessionAssumption
<1>6. /\ failures' = failures + 1 /\ exclude' = exclude \cup {hop.peer} /\ plan' = {}
      /\ UNCHANGED <<route, at, gen>>
      /\ pc' = "recover" /\ UNCHANGED status
  <2>1. RecordFailure(hop)
    BY DEF CallFailed, CallAbandoned
  <2> QED
    BY <1>5, <2>1 DEF RecordFailure, Blame, stepVars, assignVars
<1>7. gen' <= failures'
  BY <1>0, <1>5, <1>6 DEF BudgetInv, TypeOK, ClientTypeOK
<1>8. \A pt \in more : pt[1] \in exclude'
  BY <1>1, <1>6
<1>9. ASSUME NEW g \in route, Suspect(g)' PROVE <<g.peer, g.start>> \notin more
  <2>1. g.peer \in exclude \cup {hop.peer} /\ g.start # at
    BY <1>6, <1>9 DEF Suspect, Recovering
  <2>2. <<g.peer, g.start>> \notin points
    BY <1>1, <2>1 DEF Suspect
  <2>3. g.start # hop.start
    <3>1. CASE pc = "await"
      BY <1>0, <2>1, <3>1 DEF Hop
    <3>2. CASE pc = "awaitReplay"
      <4>1. PICK f \in route : f.start = at /\ IsChain(plan, f.start, f.end)
        BY <3>2 DEF Plumbing, PlanInv, Replaying
      <4>2. IsChain(route, 0, NumLayers) /\ hop \in plan
        BY <1>0, <3>2, <4>1 DEF Plumbing, RouteInv, Hop
      <4>3. g.end <= f.start \/ f.end <= g.start
        BY <1>0, <2>1, <4>1, <4>2, Shapes, ChainApart
      <4>4. /\ f.start <= hop.start /\ hop.start < hop.end /\ hop.end <= f.end
            /\ g.start < g.end
        BY <4>1, <4>2 DEF IsChain
      <4>5. /\ f.start \in Nat /\ f.end \in Nat /\ g.start \in Nat /\ g.end \in Nat
            /\ hop.start \in Nat /\ hop.end \in Nat
        BY <1>0, <4>1, <4>2, Shapes DEF Bounded
      <4> QED
        BY <4>3, <4>4, <4>5
    <3> QED
      BY <1>0, <3>1, <3>2 DEF Awaited
  <2> QED
    BY <2>2, <2>3
<1> HIDE DEF more
<1>10. \E pts \in SUBSET FailurePoints :
         /\ Cardinality(pts) = failures'
         /\ \A pt \in pts : pt[1] \in exclude'
         /\ \A g \in route' : Suspect(g)' => <<g.peer, g.start>> \notin pts
  BY <1>4, <1>6, <1>8, <1>9
<1>11. FailurePoints' = FailurePoints
  BY DEF FailurePoints, Serves
<1> QED
  BY <1>6, <1>7, <1>10, <1>11 DEF BudgetInv

LEMMA BudgetStep ==
  ASSUME Enough, Plumbing, Accounts, Surviving, ~Ended, ~Ended', [Next]_vars
  PROVE  BudgetInv'
<1>0. TypeOK /\ Steady /\ OpenedInv /\ BudgetInv /\ gen \in Nat /\ failures \in Nat
  BY DEF Plumbing, Surviving, TypeOK, ClientTypeOK
\* The hops of failed servers that the step leaves in the route were there before.
<1>1. ASSUME UNCHANGED <<exclude, failures>>, \A hop \in plan' : hop.peer \notin exclude,
             \A hop \in route' : Suspect(hop)' => hop \in route /\ Suspect(hop),
             gen' <= IF route' = {} \/ pc' = "recover" THEN failures ELSE failures + 1
      PROVE  BudgetInv'
  <2>1. FailurePoints' = FailurePoints
    BY DEF FailurePoints, Serves
  <2>2. PICK points \in SUBSET FailurePoints :
          /\ Cardinality(points) = failures
          /\ \A pt \in points : pt[1] \in exclude
          /\ \A g \in route : Suspect(g) => <<g.peer, g.start>> \notin points
    BY <1>0 DEF BudgetInv
  <2> QED
    BY <1>1, <2>1, <2>2 DEF BudgetInv
<1>2. ASSUME UNCHANGED <<exclude, failures, plan, route, gen>>,
             pc = "recover" <=> pc' = "recover",
             Recovering' => Recovering /\ at' = at, Recovering => Recovering'
      PROVE  BudgetInv'
  <2>1. \A hop \in route' : Suspect(hop)' => hop \in route /\ Suspect(hop)
    BY <1>2 DEF Suspect
  <2> QED
    BY <1>0, <1>1, <1>2, <2>1 DEF BudgetInv
<1>3. CASE BeginStep \/ EndGenerate \/ NoRoute \/ RegistryFails \/ Closed
  <2>1. CASE BeginStep
    BY <1>2, <2>1 DEF BeginStep, Recovering, blameVars, replayVars, assignVars
  <2>2. CASE EndGenerate \/ NoRoute \/ RegistryFails \/ Closed
    BY <2>2 DEF EndGenerate, NoRoute, RegistryFails, Closed, Fail, Ended
  <2> QED
    BY <1>3, <2>1, <2>2
<1>4. CASE PlanRoute
  <2>1. PICK r \in Routes(listed \ exclude, 0, NumLayers) :
          route' = Assign(r, gen) /\ opened' = opened \cup Assign(r, gen)
    BY <1>4 DEF PlanRoute, Open
  <2>2. /\ gen' = gen + 1 /\ pc' = "forward" /\ pc = "plan"
        /\ UNCHANGED <<inc, exclude, failures, plan>>
    BY <1>4 DEF PlanRoute, serverVars, blameVars, replayVars
  <2>3. \A hop \in route' : hop.peer \notin exclude
    BY <1>0, <2>1, <2>2, Shapes, PlanOpens
  <2>4. route = {} /\ plan = {}
    BY <2>2 DEF Plumbing, RouteInv, PlanInv, Replaying
  <2>5. route' # {}
    <3>1. RouteInv'
      BY RouteStep
    <3> QED
      BY <2>2, <3>1 DEF RouteInv, InStep
  <2> QED
    BY <1>0, <1>1, <2>2, <2>3, <2>4, <2>5 DEF BudgetInv, Suspect
<1>5. ASSUME NEW hop \in route \cup plan, Recover(hop) PROVE BudgetInv'
  <2>1. PICK r \in Routes(listed \ exclude, hop.start, hop.end) :
          /\ opened' = opened \cup Assign(r, gen)
          /\ \/ /\ plan' = Assign(r, gen) /\ route' = route /\ pc' = "replay"
             \/ /\ plan' = plan /\ route' = (route \ {hop}) \cup Assign(r, gen)
                /\ pc' = "forward"
    BY <1>5 DEF Recover, Open, Splice, replayVars
  <2>2. /\ gen' = gen + 1 /\ pc = "recover" /\ at' = at /\ hop \in route /\ hop.start = at
        /\ UNCHANGED <<inc, exclude, failures>>
    BY <1>5 DEF Recover, serverVars, blameVars
  <2>3. hop.start \in Layers /\ hop.end \in Boundaries
    BY <1>0, <2>2, Shapes DEF Assigned
  <2>4. \A h \in Assign(r, gen) : h.peer \notin exclude
    BY <1>0, <2>1, <2>2, <2>3, PlanOpens
  <2>5. plan = {}
    BY <2>2 DEF Plumbing, PlanInv, Replaying
  <2>6. \A h \in route : h # hop => h.start # at
    <3>1. IsChain(route, 0, NumLayers)
      BY <2>2 DEF Plumbing, RouteInv
    <3> QED
      BY <1>0, <2>2, <3>1, Shapes, ChainUnique
  <2>7. \A h \in route' : Suspect(h)' => h \in route /\ Suspect(h)
    BY <2>1, <2>2, <2>4, <2>6 DEF Suspect, Recovering
  <2>8. route' # {}
    <3>1. RouteInv'
      BY RouteStep
    <3> QED
      BY <2>1, <3>1 DEF RouteInv, InStep, Recovering
  <2>9. gen <= failures
    BY <1>0, <2>2 DEF BudgetInv
  <2> QED
    BY <1>0, <1>1, <2>1, <2>2, <2>4, <2>5, <2>7, <2>8, <2>9
<1>6. ASSUME NEW hop \in route \cup plan, Send(hop) PROVE BudgetInv'
  BY <1>2, <1>6 DEF Send, Recovering, blameVars, replayVars, stepVars, assignVars
<1>7. ASSUME NEW hop \in route \cup plan, NEW r \in rpcs,
             CallFailed(r, hop) \/ CallAbandoned(r, hop)
      PROVE  BudgetInv'
  BY <1>7, FailureStep
<1>8. ASSUME NEW hop \in route \cup plan, NEW r \in rpcs, ReplayDone(r, hop) PROVE BudgetInv'
  <2>1. /\ pc = "awaitReplay" /\ at' = at /\ hop \in route /\ hop.start = at
        /\ UNCHANGED <<exclude, failures, gen>>
        /\ \/ route' = (route \ {hop}) \cup plan /\ plan' = {} /\ pc' = "forward"
           \/ route' = route /\ plan' = plan /\ pc' = "replay"
    BY <1>8 DEF ReplayDone, Splice, blameVars, assignVars
  <2>2. \A h \in route : h # hop => h.start # at
    <3>1. IsChain(route, 0, NumLayers)
      BY <2>1 DEF Plumbing, RouteInv
    <3> QED
      BY <1>0, <2>1, <3>1, Shapes, ChainUnique
  <2>3. \A h \in route' : Suspect(h)' => h \in route /\ Suspect(h)
    BY <1>0, <2>1, <2>2 DEF Suspect, Recovering, BudgetInv
  <2>4. route' # {}
    <3>1. RouteInv'
      BY RouteStep
    <3> QED
      BY <2>1, <3>1 DEF RouteInv, InStep, Recovering
  <2> QED
    BY <1>0, <1>1, <2>1, <2>3, <2>4 DEF BudgetInv
<1>9. ASSUME NEW r \in rpcs, HopDone(r) PROVE BudgetInv'
  BY <1>2, <1>9 DEF HopDone, Recovering, blameVars, replayVars, assignVars
<1>10. ASSUME NEW hop \in opened, SkipClose(hop) \/ CloseHop(hop) PROVE FALSE
  BY <1>10 DEF SkipClose, CloseHop, Ended
<1>11. ASSUME UNCHANGED clientVars PROVE BudgetInv'
  BY <1>2, <1>11 DEF clientVars, stepVars, replayVars, blameVars, assignVars, Recovering
<1>12. CASE RegistryStep
  BY <1>11, <1>12 DEF RegistryStep, Announce, Expire
<1> QED
  BY <1>3, <1>4, <1>5, <1>6, <1>7, <1>8, <1>9, <1>10, <1>11, <1>12
  DEF Next, ClientStep, vars

LEMMA SurvivingStep ==
  ASSUME Enough, Plumbing, Accounts, Surviving, [Next]_vars
  PROVE  Surviving'
<1>1. ~Ended' => ~Ended
  BY EndedStays
<1> QED
  BY <1>1, SteadyStep, OpenedStep, ServedStep, BudgetStep DEF Surviving

LEMMA SurvivingInit == Enough /\ Init => Surviving
<1> SUFFICES ASSUME Enough, Init PROVE Surviving
  OBVIOUS
<1>1. /\ Reliable \subseteq Founders /\ Founders \subseteq Addrs /\ Reliable \subseteq Addrs
      /\ \A a \in Addrs : MaxLoad[a] \in Nat
  BY WorkerBoundsAreValid, SessionParametersAreValid
  DEF Enough, SpanWorkerAssumption, InferenceSessionAssumption
<1>2. \A a \in Founders : up[a] /\ inc[a] = 1 /\ CurrentPeer(a) \in listed
  BY <1>1 DEF Init, ServersInit
<1>3. \A p \in listed : p.inc <= inc[p.addr]
  BY <1>1, <1>2 DEF Init, CurrentPeer
<1>4. exclude = {} /\ \A a \in Addrs : load[a] = 0
  BY DEF Init, ServersInit
<1>5. Steady
  BY <1>1, <1>2, <1>3, <1>4 DEF Steady
<1>6. /\ opened = {} /\ rpcs = {} /\ route = {} /\ plan = {} /\ gen = 0 /\ failures = 0
      /\ \A a \in Addrs : DOMAIN sessions[a] = {}
  BY DEF Init, ServersInit
<1>7. OpenedInv /\ ServedInv
  BY <1>6 DEF OpenedInv, ServedInv
<1>8. BudgetInv
  <2>1. {} \in SUBSET FailurePoints /\ Cardinality({}) = 0
    BY FS_EmptySet
  <2> QED
    BY <1>6, <2>1 DEF BudgetInv
<1> QED
  BY <1>5, <1>7, <1>8 DEF Surviving

\* As long as reliable servers cover the decoder, there is a route.
LEMMA NeverNoRoute ==
  ASSUME Enough, Plumbing, Steady, NoRoute
  PROVE  FALSE
<1>0. TypeOK
  BY DEF Plumbing
<1>1. \A l \in Layers : \E p \in listed \ exclude : Serves(SpanOf[p.addr], l)
  <2> TAKE l \in Layers
  <2>1. PICK a \in Reliable : Serves(SpanOf[a], l)
    BY DEF Enough
  <2>2. CurrentPeer(a) \in listed \ exclude /\ CurrentPeer(a).addr = a
    BY DEF Steady, CurrentPeer
  <2> QED
    BY <2>1, <2>2
<1>2. ASSUME NEW s \in Layers, NEW e \in Boundaries, s < e
      PROVE  Routes(listed \ exclude, s, e) # {}
  BY <1>0, <1>1, <1>2, Shapes, AlwaysRoute
<1>3. CASE pc = "plan" /\ Routes(listed \ exclude, 0, NumLayers) = {}
  BY <1>0, <1>2, <1>3, Shapes
<1>4. ASSUME NEW hop \in route, Routes(listed \ exclude, hop.start, hop.end) = {} PROVE FALSE
  <2>1. IsChain(route, 0, NumLayers)
    BY DEF Plumbing, RouteInv
  <2>2. hop.start \in Layers /\ hop.end \in Boundaries /\ hop.start < hop.end
    BY <1>0, <2>1, Shapes DEF IsChain, Assigned
  <2> QED
    BY <1>2, <1>4, <2>2
<1> QED
  BY <1>3, <1>4 DEF NoRoute

(***************************************************************************)
(* A generation over servers enough of which never fail ends in failure    *)
(* only if a lookup fails, whatever the other servers do, over any number  *)
(* of restarts (client.py, step and _recover, max_failures).               *)
(***************************************************************************)
THEOREM GenerationSurvives == ASSUME Enough PROVE Spec => Survives
<1>1. Plumbing /\ Accounts /\ [Next]_vars => Plumbing' /\ Accounts'
  BY PlumbingStep, AccountStep
<1>2. Init => Plumbing /\ Accounts /\ Surviving
  BY PlumbingInit, AccountsInit, SurvivingInit
<1>3. Plumbing /\ Accounts /\ Surviving /\ [Next]_vars => Surviving'
  BY SurvivingStep
<1>4. Plumbing /\ Accounts /\ Surviving /\ [Next]_vars =>
        [status' = "failed" => status = "failed" \/ RegistryFails]_vars
  <2> SUFFICES ASSUME Plumbing, Accounts, Surviving, Next, status' = "failed", status # "failed",
                      ~RegistryFails
               PROVE  FALSE
    OBVIOUS
  <2>1. ASSUME NEW hop \in route \cup plan, NEW r \in rpcs,
               CallFailed(r, hop) \/ CallAbandoned(r, hop)
        PROVE  FALSE
    BY <2>1, FailureStep
  <2>2. ~NoRoute
    BY NeverNoRoute DEF Surviving
  <2>3. CASE ClientStep
    BY <2>1, <2>2, <2>3
    DEF ClientStep, BeginStep, EndGenerate, PlanRoute, Closed, Send, Recover, ReplayDone, HopDone,
        SkipClose, CloseHop
  <2>4. CASE RegistryStep
    BY <2>4 DEF RegistryStep, Announce, Expire, clientVars
  <2> QED
    BY <2>3, <2>4 DEF Next, clientVars
<1> QED
  BY <1>1, <1>2, <1>3, <1>4, PTL DEF Spec, Survives

=============================================================================
