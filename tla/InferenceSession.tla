-------------------------- MODULE InferenceSession --------------------------
(***************************************************************************)
(* One generation over the swarm: DistributedVLM.generate and its          *)
(* InferenceSession (dvlm/client.py), against the span servers of          *)
(* SpanWorker and the registry's list of them.  The client awaits one call *)
(* at a time; between two awaits it runs alone, so every await is a step   *)
(* boundary and servers crash, appear, expire, collect and answer late     *)
(* in between.                                                             *)
(***************************************************************************)
EXTENDS SpanWorker

CONSTANTS
  MaxFailures,     \* max_failures of the session
  PromptLen,       \* tokens of the prompt
  MaxSteps,        \* max_new_tokens
  Founders,        \* the servers that run when the generation starts
  Reliable,        \* the servers that never crash, expire, stop reading or keep a
                   \* caller waiting
  RegistryFaults,  \* whether a registry lookup may fail
  LongIdle         \* whether a session still in use may look idle to gc()

InferenceSessionAssumption ==
  /\ MaxFailures \in Nat
  /\ PromptLen \in Nat \ {0}
  /\ MaxSteps \in Nat
  /\ Founders \subseteq Addrs
  /\ Reliable \subseteq Addrs
  /\ RegistryFaults \in BOOLEAN
  /\ LongIdle \in BOOLEAN

ASSUME SessionParametersAreValid == InferenceSessionAssumption

VARIABLES
  listed,     \* the peers the registry lists as span servers
  pc,         \* what the client does next
  status,     \* how the generation ended, or "running"
  route,      \* the hops of the session, each with its server-side session id
  at,         \* entry layer of the hop the step has reached
  hidden,     \* the tensor that enters it
  plan,       \* the replacements a recovery is replaying to
  rat,        \* entry layer of the replacement the replay has reached
  x,          \* the tensor that enters it
  history,    \* history[l] : all inputs of the hop that enters at l, concatenated
  exclude,    \* the peers that failed
  failures,   \* how often
  gen,        \* how many plans were made
  opened,     \* every assignment made and not yet closed
  missed,     \* those whose close call did not get through
  past,       \* positions submitted so far
  steps,      \* steps that returned
  output      \* what the last of them returned

stepVars == <<route, at, hidden>>
replayVars == <<plan, rat, x>>
blameVars == <<exclude, failures>>
assignVars == <<gen, opened>>
callerVars == <<past, steps, output>>
clientVars == <<pc, status, stepVars, replayVars, history, blameVars,
                assignVars, missed, callerVars>>
vars == <<serverVars, listed, clientVars>>

\* A hop and the session id _plan drew for it (_hop_sid).
Assigned == [peer : Peers, start : Layers, end : Boundaries, sid : Sids]

HopKey(hop) == <<hop.sid, hop.start>>

\* Mutant: one session id per hop, whatever the plan.
AssignSameSession(hops, g) ==
  {[peer |-> h.peer, start |-> h.start, end |-> h.end, sid |-> <<0, h.start>>]
     : h \in hops}

Assign(hops, g) ==
  {[peer |-> h.peer, start |-> h.start, end |-> h.end, sid |-> <<g, h.start>>]
     : h \in hops}

\* _opened: what close() will ask for.
OpenWithout(hops) == UNCHANGED opened        \* mutant: not remembered

Open(hops) == opened' = opened \cup hops

\* The hop the client is calling, or about to call.
Hop(hop) ==
  \/ pc \in {"forward", "await"} /\ hop \in route /\ hop.start = at
  \/ pc \in {"replay", "awaitReplay"} /\ hop \in plan /\ hop.start = rat

Awaited(r) == pc \in {"await", "awaitReplay"} /\ r \in rpcs /\ r.live

\* history[l].append: a hop has absorbed t.
RememberNext(l, t) ==                        \* mutant: under the layer behind it
  history' = [k \in Layers \cup {l + 1} |-> IF k = l + 1 THEN t ELSE history[k]]

Remember(l, t) == history' = [history EXCEPT ![l] = Cat(@, t)]

\* history[l] = [t]: a replacement has absorbed the replay t.
AddReplay(l, t) == Remember(l, t)            \* mutant: remembered on top of the rest

RememberReplay(l, t) == history' = [history EXCEPT ![l] = t]

NeverReplay(l) == FALSE                      \* mutant: replacements start empty

ReplayNeeded(l) == history[l] # Empty(l)

\* route[i : i + 1] = hops
SpliceBeside(hop, hops) ==                   \* mutant: the failed hop stays
  route' = route \cup hops

SpliceHead(hop, hops) ==                     \* mutant: the hops before it go too
  route' = {h \in route : h.start > hop.start} \cup hops

Splice(hop, hops) == route' = (route \ {hop}) \cup hops

BlameNobody(hop) == UNCHANGED exclude        \* mutant: it may be planned again

Blame(hop) == exclude' = exclude \cup {hop.peer}

Fail == pc' = "closing" /\ status' = "failed"

-----------------------------------------------------------------------------
(***************************************************************************)
(* generate: embed the prompt, then one sampled token per step.  A token   *)
(* sampled from wrong logits makes a wrong input.                          *)
(***************************************************************************)
BeginStep ==
  LET n == IF steps = 0 THEN PromptLen ELSE 1 IN
  /\ pc = "idle"
  /\ steps < MaxSteps
  /\ pc' = IF route = {} THEN "plan" ELSE "forward"
  /\ at' = 0
  /\ hidden' = [Block(0, past, past + n) EXCEPT !.ok = output.ok]
  /\ past' = past + n
  /\ UNCHANGED <<serverVars, listed, status, route, replayVars, history,
                 blameVars, assignVars, missed, steps, output>>

\* max_new_tokens reached, or an end-of-sequence token sampled.
EndGenerate ==
  /\ pc = "idle"
  /\ pc' = "closing"
  /\ status' = "ok"
  /\ UNCHANGED <<serverVars, listed, stepVars, replayVars, history, blameVars,
                 assignVars, missed, callerVars>>

\* _plan over the whole decoder, on the first step.
PlanRoute ==
  /\ pc = "plan"
  /\ \E r \in Routes(listed \ exclude, 0, NumLayers) :
       /\ route' = Assign(r, gen)
       /\ Open(Assign(r, gen))
  /\ gen' = gen + 1
  /\ pc' = "forward"
  /\ UNCHANGED <<serverVars, listed, status, at, hidden, replayVars, history,
                 blameVars, missed, callerVars>>

(***************************************************************************)
(* _forward, for a step or for a replay: the client has connected, got the *)
(* lock of the connection, and the frame is out (write_frame drains it).   *)
(* Until then the client waits at "forward" or "replay", and as long as    *)
(* the peer does not read.                                                 *)
(***************************************************************************)
Send(hop) ==
  /\ Hop(hop)
  /\ \/ pc = "forward" /\ pc' = "await"
        /\ rpcs' = rpcs \cup {Request(hop, hidden, up[hop.peer.addr])}
     \/ pc = "replay" /\ pc' = "awaitReplay"
        /\ rpcs' = rpcs \cup {Request(hop, x, up[hop.peer.addr])}
  /\ UNCHANGED <<inc, up, sessions, load, listed, status, stepVars, replayVars,
                 history, blameVars, assignVars, missed, callerVars>>

(***************************************************************************)
(* step, after a hop answered: remember its input, pass its output on; the *)
(* last hop's output is what the step returns.                             *)
(***************************************************************************)
HopDone(r) ==
  /\ Awaited(r) /\ pc = "await" /\ r.st = "done"
  /\ rpcs' = rpcs \ {r}
  /\ Remember(at, hidden)
  /\ hidden' = r.out
  /\ at' = r.end
  /\ IF r.end = NumLayers
     THEN pc' = "idle" /\ steps' = steps + 1 /\ output' = r.out
     ELSE pc' = "forward" /\ UNCHANGED <<steps, output>>
  /\ UNCHANGED <<inc, up, sessions, load, listed, status, route, replayVars,
                 blameVars, assignVars, missed, past>>

-----------------------------------------------------------------------------
\* Mutant: the call is sent again, to the same session.
RetryCall(hop) ==
  /\ pc' = IF pc = "await" THEN "forward" ELSE "replay"
  /\ UNCHANGED <<inc, up, sessions, load, listed, status, stepVars, replayVars,
                 history, blameVars, assignVars, missed, callerVars>>

\* _record_failure: of a hop of the route, or of a replacement.
RecordFailure(hop) ==
  /\ failures' = failures + 1
  /\ Blame(hop)
  /\ plan' = {}
  /\ IF failures + 1 > MaxFailures
     THEN Fail
     ELSE pc' = "recover" /\ UNCHANGED status
  /\ UNCHANGED <<inc, up, sessions, load, listed, stepVars, rat, x, history,
                 assignVars, missed, callerVars>>

\* The peer answered with an error, or the connection to it died.
CallFailed(r, hop) ==
  /\ Awaited(r) /\ r.st \in {"refused", "lost"}
  /\ Hop(hop)
  /\ rpcs' = rpcs \ {r}
  /\ RecordFailure(hop)

\* The call timed out, or its connection broke: the server may not know.
CallAbandoned(r, hop) ==
  /\ Awaited(r) /\ r.st \in {"sent", "running", "done"}
  /\ r.addr \notin Reliable
  /\ Hop(hop)
  /\ rpcs' = (rpcs \ {r}) \cup
       (IF r.st = "done" THEN {} ELSE {[r EXCEPT !.live = FALSE]})
  /\ RecordFailure(hop)

(***************************************************************************)
(* _recover: plan the layers of the failed hop again.  With nothing to     *)
(* replay the replacements enter the route at once.                        *)
(***************************************************************************)
Recover(hop) ==
  /\ pc = "recover"
  /\ hop \in route /\ hop.start = at
  /\ \E r \in Routes(listed \ exclude, hop.start, hop.end) :
       LET new == Assign(r, gen) IN
       /\ Open(new)
       /\ IF ReplayNeeded(at)
          THEN /\ plan' = new /\ rat' = at /\ x' = history[at]
               /\ pc' = "replay"
               /\ UNCHANGED route
          ELSE /\ Splice(hop, new)
               /\ pc' = "forward"
               /\ UNCHANGED replayVars
  /\ gen' = gen + 1
  /\ UNCHANGED <<serverVars, listed, status, at, hidden, history, blameVars,
                 missed, callerVars>>

(***************************************************************************)
(* _recover, after a replacement answered the replay: it has caught up.    *)
(* After the last one the replacements take the failed hop's place.        *)
(***************************************************************************)
ReplayDone(r, hop) ==
  /\ Awaited(r) /\ pc = "awaitReplay" /\ r.st = "done"
  /\ hop \in route /\ hop.start = at
  /\ rpcs' = rpcs \ {r}
  /\ RememberReplay(rat, x)
  /\ x' = r.out
  /\ rat' = r.end
  /\ IF r.end = hop.end
     THEN /\ Splice(hop, plan)
          /\ plan' = {}
          /\ pc' = "forward"
     ELSE pc' = "replay" /\ UNCHANGED <<route, plan>>
  /\ UNCHANGED <<inc, up, sessions, load, listed, status, at, hidden,
                 blameVars, assignVars, missed, callerVars>>

\* find_route raises: nothing left covers the layers asked for.
NoRoute ==
  /\ \/ pc = "plan" /\ Routes(listed \ exclude, 0, NumLayers) = {}
     \/ /\ pc = "recover"
        /\ \E hop \in route : hop.start = at /\
             Routes(listed \ exclude, hop.start, hop.end) = {}
  /\ Fail
  /\ UNCHANGED <<serverVars, listed, stepVars, replayVars, history, blameVars,
                 assignVars, missed, callerVars>>

\* The registry call of _plan fails: not a HopFailed, so the step raises it.
RegistryFails ==
  /\ RegistryFaults
  /\ pc \in {"plan", "recover"}
  /\ Fail
  /\ UNCHANGED <<serverVars, listed, stepVars, replayVars, history, blameVars,
                 assignVars, missed, callerVars>>

-----------------------------------------------------------------------------
(***************************************************************************)
(* close: every assignment ever made, but nobody who failed is asked.      *)
(***************************************************************************)
SkipClose(hop) ==
  /\ pc = "closing"
  /\ hop \in opened /\ hop.peer \in exclude
  /\ opened' = opened \ {hop}
  /\ UNCHANGED <<serverVars, listed, pc, status, stepVars, replayVars, history,
                 blameVars, gen, missed, callerVars>>

CloseHop(hop) ==
  /\ pc = "closing"
  /\ hop \in opened /\ hop.peer \notin exclude
  /\ opened' = opened \ {hop}
  /\ \/ /\ up[hop.peer.addr]
        /\ CloseSession(hop.peer.addr, hop.sid)
        /\ UNCHANGED missed
     \/ /\ ~up[hop.peer.addr] \/ hop.peer.addr \notin Reliable
        /\ missed' = missed \cup {hop}
        /\ UNCHANGED sessions
  /\ UNCHANGED <<inc, up, load, rpcs, listed, pc, status, stepVars, replayVars,
                 history, blameVars, gen, callerVars>>

Closed ==
  /\ pc = "closing" /\ opened = {}
  /\ pc' = "closed"
  /\ UNCHANGED <<serverVars, listed, status, stepVars, replayVars, history,
                 blameVars, assignVars, missed, callerVars>>

-----------------------------------------------------------------------------
\* Server.start, and every heartbeat after it.
Announce(a) ==
  /\ up[a]
  /\ CurrentPeer(a) \notin listed
  /\ listed' = listed \cup {CurrentPeer(a)}
  /\ UNCHANGED <<serverVars, clientVars>>

\* The entry's ttl ran out: its server died, or its heartbeats came late.
Expire(p) ==
  /\ p \in listed
  /\ p.addr \notin Reliable
  /\ listed' = listed \ {p}
  /\ UNCHANGED <<serverVars, clientVars>>

InUse(key) == \E hop \in route \cup plan : HopKey(hop) = key

\* The sessions of this client that gc() may find idle for session_timeout.
Idle(a) ==
  {k \in DOMAIN sessions[a] :
     IF LongIdle
     THEN \A r \in rpcs : r.addr = a /\ Key(r) = k => r.st # "running"
     ELSE ~InUse(k)}

ServerStep ==
  \/ \E r \in rpcs : \/ ForwardKnown(r)
                     \/ ForwardNew(r, Idle(r.addr))
                     \/ ForwardDone(r)
                     \/ ForwardDoneOrphan(r)
                     \/ ForwardCancelled(r)
  \/ \E a \in Addrs : \/ Collect(a, Idle(a))
                      \/ OtherClients(a)
                      \/ a \notin Reliable /\ Crash(a)
                      \/ Start(a)

ClientStep ==
  \/ BeginStep \/ EndGenerate \/ PlanRoute \/ NoRoute \/ RegistryFails \/ Closed
  \/ \E hop \in route \cup plan :
       \/ Send(hop)
       \/ Recover(hop)
       \/ \E r \in rpcs : CallFailed(r, hop) \/ CallAbandoned(r, hop)
                          \/ ReplayDone(r, hop)
  \/ \E r \in rpcs : HopDone(r)
  \/ \E hop \in opened : SkipClose(hop) \/ CloseHop(hop)

RegistryStep ==
  \/ \E a \in Addrs : Announce(a)
  \/ \E p \in listed : Expire(p)

Next ==
  \/ ServerStep /\ UNCHANGED <<listed, clientVars>>
  \/ ClientStep
  \/ RegistryStep

Init ==
  /\ ServersInit(Founders)
  /\ listed = {CurrentPeer(a) : a \in Founders}
  /\ pc = "idle" /\ status = "running"
  /\ route = {} /\ at = 0 /\ hidden = Empty(0)
  /\ plan = {} /\ rat = 0 /\ x = Empty(0)
  /\ history = [l \in Layers |-> Empty(l)]
  /\ exclude = {} /\ failures = 0
  /\ gen = 0 /\ opened = {} /\ missed = {}
  /\ past = 0 /\ steps = 0 /\ output = Empty(NumLayers)

Spec == Init /\ [][Next]_vars

=============================================================================
