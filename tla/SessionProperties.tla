-------------------------- MODULE SessionProperties --------------------------
(***************************************************************************)
(* What makes a generation over the swarm correct.                         *)
(***************************************************************************)
EXTENDS InferenceSession

-----------------------------------------------------------------------------
(***************************************************************************)
(* Types.                                                                  *)
(***************************************************************************)
ClientTypeOK ==
  /\ listed \subseteq Peers
  /\ pc \in {"idle", "plan", "forward", "await", "recover", "replay",
             "awaitReplay", "closing", "closed"}
  /\ status \in {"running", "ok", "failed"}
  /\ route \subseteq Assigned
  /\ at \in Boundaries
  /\ hidden \in Blocks
  /\ plan \subseteq Assigned
  /\ rat \in Boundaries
  /\ x \in Blocks
  /\ history \in [Layers -> Blocks]
  /\ exclude \subseteq Peers
  /\ failures \in Nat
  /\ gen \in Nat
  /\ opened \subseteq Assigned
  /\ missed \subseteq Assigned
  /\ past \in Nat
  /\ steps \in Nat
  /\ output \in Blocks

TypeOK == ServersTypeOK /\ ClientTypeOK

-----------------------------------------------------------------------------
(***************************************************************************)
(* What a step returns is what the unsharded decoder would: the last       *)
(* layer's output over exactly the positions just submitted, computed with *)
(* the right keys and values of every earlier position, whatever servers   *)
(* failed and were replaced on the way (client.py, InferenceSession;       *)
(* DESIGN.md D11).                                                         *)
(***************************************************************************)
OutputExact ==
  pc = "idle" /\ steps > 0 =>
    output = Block(NumLayers, IF steps = 1 THEN 0 ELSE past - 1, past)

(***************************************************************************)
(* Every layer is computed by exactly one hop of the route, before and     *)
(* after a recovery splices replacements into it, and the replacements     *)
(* cover exactly the layers of the hop they replace (step, _recover).      *)
(***************************************************************************)
RouteTiles ==
  /\ route # {} => IsChain(route, 0, NumLayers)
  /\ plan # {} => \E hop \in route :
       hop.start = at /\ IsChain(plan, hop.start, hop.end)

(***************************************************************************)
(* What a replacement is asked to absorb is the whole prefix its layers    *)
(* have missed, in order, and nothing of the step in progress              *)
(* (_recover: history[start], then each replacement's output).             *)
(***************************************************************************)
ReplayExact ==
  pc \in {"replay", "awaitReplay"} => x = Block(rat, 0, hidden.lo)

\* The cache a hop's server holds for it.
CacheOf(hop) ==
  LET table == sessions[hop.peer.addr] IN
  IF HopKey(hop) \in DOMAIN table THEN table[HopKey(hop)].kv ELSE Empty(hop.start)

Unfinished(hop) == \E r \in rpcs : r.addr = hop.peer.addr /\ Key(r) = HopKey(hop)

(***************************************************************************)
(* Between two calls to it, the live server of every hop of the route has  *)
(* absorbed exactly the inputs the client has remembered for that hop, so  *)
(* that a replay of them really makes up for its loss (history[hop.start]  *)
(* against the KV cache of SpanWorker.forward).                            *)
(***************************************************************************)
CachesCaughtUp ==
  pc \in {"idle", "forward", "await"} =>
    \A hop \in route :
      up[hop.peer.addr] /\ ~Unfinished(hop) =>
        CacheOf(hop) = history[hop.start]

(***************************************************************************)
(* Two forward requests never meet in one KV cache, though servers keep    *)
(* working on requests the client has given up on (forward reads           *)
(* sess.length before its await and adds to it after).                     *)
(***************************************************************************)
CachesNotShared ==
  \A r, s \in rpcs : r.addr = s.addr /\ Key(r) = Key(s) => r = s

(***************************************************************************)
(* A replacement that has not been called yet starts from nothing: "fresh  *)
(* server-side session per assignment, so a half-finished replay never     *)
(* pollutes a cache" (_plan).                                              *)
(***************************************************************************)
ReplacementsFresh ==
  \A hop \in plan :
    hop.start > rat \/ (pc = "replay" /\ hop.start = rat) =>
      ~Unfinished(hop) /\ CacheOf(hop) = Empty(hop.start)

(***************************************************************************)
(* No server keeps a session the client has forgotten: it is one close()   *)
(* will still ask for, its server failed and is deliberately not asked, or *)
(* the close call was lost (_opened, close; test_swarm.py asserts it when  *)
(* nothing fails).                                                         *)
(***************************************************************************)
SessionsAccountedFor ==
  \A a \in Addrs : \A key \in DOMAIN sessions[a] :
    \/ \E hop \in opened \cup missed : HopKey(hop) = key /\ hop.peer.addr = a
    \/ \E p \in exclude : p.addr = a

(***************************************************************************)
(* "Servers on other hops are untouched": from the failure of a hop until  *)
(* its replacements are in place, neither the other hops of the route, nor *)
(* what is remembered for them, nor the caches of those still running      *)
(* change; and the route changes nowhere else (step, _recover).            *)
(***************************************************************************)
LeavesOtherHops ==
  \A hop \in route :
    hop.start # at =>
      /\ hop \in route'
      /\ history'[hop.start] = history[hop.start]
      /\ up'[hop.peer.addr] => CacheOf(hop)' = CacheOf(hop)

Recovering == pc \in {"recover", "replay", "awaitReplay"}

OtherHopsUntouched == [][Recovering => LeavesOtherHops]_vars

(***************************************************************************)
(* With enough servers that never fail to cover every layer, and room for  *)
(* every plan the failure budget allows, a generation is lost to nothing   *)
(* but a failed lookup, whatever the others do (the retry loop of step).   *)
(***************************************************************************)
Survives == [][status' = "failed" => status = "failed" \/ RegistryFails]_vars

-----------------------------------------------------------------------------
(***************************************************************************)
(* The timeout of a call bounds the wait for its reply only (wait_for in   *)
(* RpcClient.call).  Waiting for the lock of the connection and for the    *)
(* frame to be drained is under none, so a peer that runs but has stopped  *)
(* reading holds its caller up for as long as it likes: a server while it  *)
(* is sent a forward or a close, or the registry while it is asked.        *)
(***************************************************************************)
MayStall(peer) == up[peer.addr] /\ peer.addr \notin Reliable

Stalled ==
  \/ pc \in {"plan", "recover"} /\ RegistryFaults
  \/ /\ pc \in {"forward", "replay"}
     /\ \E hop \in route \cup plan : Hop(hop) /\ MayStall(hop.peer)
  \/ /\ pc = "closing"
     /\ \E hop \in opened : hop.peer \notin exclude /\ MayStall(hop.peer)

(***************************************************************************)
(* The event loop runs what is ready: the client goes on unless it may be  *)
(* stalled, and wait_for ends every wait for a reply.  A reliable server   *)
(* answers what it is sent.                                                *)
(***************************************************************************)
Serve(r) ==
  /\ r.live /\ r.addr \in Reliable
  /\ ForwardKnown(r) \/ ForwardNew(r, Idle(r.addr)) \/ ForwardDone(r)
  /\ UNCHANGED <<listed, clientVars>>

FairSpec ==
  /\ Spec
  /\ WF_vars(~Stalled /\ ClientStep)
  /\ WF_vars(\E r \in rpcs : Serve(r))

(***************************************************************************)
(* A generation ends, however many servers fail on it, unless a peer that  *)
(* has stopped reading holds it up for ever: every request that got out is *)
(* answered or times out, every recovery uses up some of max_failures, and *)
(* close() gets through its list (step, close).                            *)
(***************************************************************************)
Terminates == <>(pc = "closed") \/ <>[]Stalled

(***************************************************************************)
(* The session implements the decoder of one process: routing, failures,   *)
(* replays and late replies are invisible but for their time.              *)
(***************************************************************************)
Phase ==
  CASE pc = "idle" -> "idle"
    [] pc \in {"closing", "closed"} -> "ended"
    [] OTHER -> "computing"

Gen == INSTANCE Generation WITH
  phase <- Phase,
  outcome <- status,
  submitted <- past,
  answer <- output

ImplementsGeneration == Gen!Spec

(***************************************************************************)
(* And every submission is answered or fails, and the generation ends,     *)
(* unless a peer that has stopped reading holds it up for ever.            *)
(***************************************************************************)
ImplementsLiveGeneration == Gen!Spec /\ (Gen!Fairness \/ <>[]Stalled)

=============================================================================
