------------------------- MODULE DreamerProperties -------------------------
(***************************************************************************)
(* What makes a policy over the swarm correct.                             *)
(***************************************************************************)
EXTENDS StatefulSession

Sessions ==
  [ops : States, failures : Nat, exclude : SUBSET Peers, peer : Peers \cup {NoPeer},
   attached : BOOLEAN, sid : Sids]

ClientTypeOK ==
  /\ listed \subseteq Peers
  /\ pc \in {"idle", "fork", "awaitFork", "call", "replay", "awaitReplay", "await",
             "close", "closed"}
  /\ who \in {"acting", "dream"}
  /\ sess \in [{"acting", "dream"} -> Sessions]
  /\ \A s \in {"acting", "dream"} : sess[s].attached => sess[s].peer # NoPeer
  /\ dreaming \in BOOLEAN /\ raised \in BOOLEAN
  /\ todo \in Ops
  /\ {k, drawn, acts, dreamt, j} \subseteq Nat
  /\ pc \in {"replay", "awaitReplay"} => me.attached /\ k \in 1 .. Len(me.ops)
  /\ feat \in States
  /\ left \subseteq Sids

OneCall ==
  Cardinality({r \in rpcs : r.live}) =
    IF pc \in {"awaitFork", "awaitReplay", "await"} THEN 1 ELSE 0

\* Types, and that the policy waits for one call at most.
TypeOK == ServersTypeOK /\ ClientTypeOK /\ OneCall

(***************************************************************************)
(* The features the policy is about to receive are those LocalBackend      *)
(* would return: computed from the state that every operation of the log,  *)
(* and the one just called, once and in order, leads to.  The state        *)
(* reached in the middle of a replay is the log's as well ("op-log replay  *)
(* if that peer dies", "identical actions and imagined trajectories").     *)
(***************************************************************************)
AnswersExact ==
  \A r \in rpcs : r.live /\ r.st = "done" =>
    /\ pc = "await" => r.out = Append(me.ops, todo)
    /\ pc = "awaitReplay" => r.out = SubSeq(me.ops, 1, k)

(***************************************************************************)
(* Between two calls, the running server a session is attached to holds    *)
(* exactly the state the session's log leads to: a fork copies the right   *)
(* state, and a replay of the log makes up for its loss.  Until a call of  *)
(* the acting session raises "too many failures": _fail then leaves it     *)
(* attached to a server that may have applied the operation.               *)
(***************************************************************************)
CaughtUp(s) ==
  LET table == sessions[sess[s].peer.addr] IN
  sess[s].attached /\ up[sess[s].peer.addr] =>
    sess[s].sid \in DOMAIN table /\ table[sess[s].sid] = sess[s].ops

StateMatchesLog ==
  ~raised =>
    /\ pc \in {"idle", "fork", "awaitFork"} => CaughtUp("acting") /\ CaughtUp("dream")
    /\ dreaming => CaughtUp("acting")

(***************************************************************************)
(* No two operations are ever under way in one session, though servers may *)
(* still work on calls the policy has given up on: the state is read in    *)
(* the executor and written back later, so an update would be lost.  (A    *)
(* fork has no await and only reads.)  A caller that goes on after "too    *)
(* many failures" breaks this: _fail has left the session attached, and    *)
(* the operation that failed may still be under way in it.                 *)
(***************************************************************************)
OneWriter ==
  \A r, s \in {q \in rpcs : q.method # "fork"} :
    r.addr = s.addr /\ r.sid = s.sid => r = s

(***************************************************************************)
(* No server keeps a session the client has forgotten, unless a call to it *)
(* failed or its close call was lost ("main session and imagination forks  *)
(* are closed", test_dreamer.py).                                          *)
(***************************************************************************)
SessionsAccountedFor ==
  \A a \in Addrs : \A sid \in DOMAIN sessions[a] :
    sid \in Held \cup left

(***************************************************************************)
(* "imagine() forks the state on the server, so dreaming never changes the *)
(* acting trajectory" (docs/DESIGN.md): neither the acting session nor its *)
(* state on a running server.                                              *)
(***************************************************************************)
StateOf(s) ==
  LET table == sessions[s.peer.addr] IN
  IF s.sid \in DOMAIN table THEN table[s.sid] ELSE << >>

LeavesActing ==
  LET s == sess["acting"] IN
  /\ sess'["acting"] = s
  /\ s.attached /\ up'[s.peer.addr] => StateOf(s)' = StateOf(s)

ActingUndisturbed == [][dreaming => LeavesActing]_vars

(***************************************************************************)
(* Failures, replays, retries and late calls are invisible: the policy     *)
(* acts and imagines as over the one-process backend.                      *)
(***************************************************************************)
Local == INSTANCE LocalBackend WITH
  Params <- 0 .. MaxActs + Horizon,
  acting <- sess["acting"].ops,
  dreams <- IF dreaming THEN {sess["dream"].ops} ELSE {}

ImplementsLocalBackend == Local!Spec

-----------------------------------------------------------------------------
(***************************************************************************)
(* As for a generation, a peer that runs but has stopped reading holds the *)
(* policy up while it is sent a call, a fork or a close, and the registry  *)
(* while it is asked: no timeout covers the lock of the connection and the *)
(* drain (RpcClient.call).                                                 *)
(***************************************************************************)
MayStall(peer) == up[peer.addr] /\ peer.addr \notin Reliable

Stalled ==
  \/ pc = "call" /\ ~me.attached /\ RegistryFaults
  \/ /\ (pc = "call" /\ me.attached) \/ pc \in {"fork", "replay"}
     /\ MayStall(me.peer)
  \/ /\ pc = "close"
     /\ LET s == sess[IF dreaming THEN "dream" ELSE "acting"] IN
        s.attached /\ MayStall(s.peer)

\* The event loop runs what is ready: the policy goes on unless it may be
\* stalled, and wait_for ends every wait for a reply.  A reliable server
\* answers what it is sent.
Serve(r) ==
  /\ r.live /\ r.addr \in Reliable
  /\ Enqueue(r) \/ ObserveNew(r, Idle(r.addr)) \/ Unknown(r) \/ Compute(r)
     \/ WriteBack(r) \/ Fork(r)
  /\ UNCHANGED <<listed, clientVars>>

FairSpec ==
  /\ Spec
  /\ WF_vars(~Stalled /\ ClientStep)
  /\ WF_vars(\E r \in rpcs : Serve(r))

(***************************************************************************)
(* Every operation of a session returns or raises, unless a peer that has  *)
(* stopped reading holds it up for ever: each turn of call()'s loop        *)
(* excludes a peer or uses up some of max_failures.                        *)
(***************************************************************************)
CallsEnd == pc = "call" ~> (pc \in {"idle", "close"} \/ []Stalled)

=============================================================================
