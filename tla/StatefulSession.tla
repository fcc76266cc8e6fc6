--------------------------- MODULE StatefulSession ---------------------------
(***************************************************************************)
(* A Policy over the swarm (dvlm/dreamer/client.py): act and imagine of    *)
(* one batch of environments, the StatefulSession it acts in and the fork  *)
(* it imagines in, against the servers of RSSMWorker.  The policy awaits   *)
(* one call at a time; every await is a step boundary.  Encoding an        *)
(* observation touches no session and is left out.                         *)
(***************************************************************************)
EXTENDS RSSMWorker

CONSTANTS
  MaxFailures,     \* max_failures of a session
  MaxActs,         \* calls of act() that return
  MaxDreams,       \* calls of imagine()
  Horizon,         \* steps of an imagination
  Founders,        \* the servers that run when the policy is made
  Reliable,        \* the servers that never crash, expire, stop reading or keep a
                   \* caller waiting
  RegistryFaults,  \* whether a registry lookup may fail
  LongIdle,        \* whether a session still in use may look idle to gc()
  Persistent,      \* whether the caller goes on after "too many failures"
  NoPeer           \* not a peer

SessionBounds ==
  /\ MaxFailures \in Nat /\ MaxActs \in Nat /\ MaxDreams \in Nat /\ Horizon \in Nat
  /\ Founders \subseteq Addrs /\ Reliable \subseteq Addrs
  /\ RegistryFaults \in BOOLEAN /\ LongIdle \in BOOLEAN /\ Persistent \in BOOLEAN
  /\ NoPeer \notin Peers

ASSUME SessionBoundsAreValid == SessionBounds

VARIABLES
  listed,   \* the peers the registry lists as rssm servers
  pc,       \* what the policy does next
  who,      \* the session it calls: "acting" or "dream"
  sess,     \* the two StatefulSessions
  dreaming, \* whether imagine() is under way
  todo,     \* the operation being called
  k,        \* the operation of the log being replayed
  drawn,    \* uuids drawn so far
  acts,     \* t, the steps acted
  dreamt,   \* imaginations begun
  j,        \* steps of the current one
  feat,     \* the features the last operation returned
  raised,   \* whether the caller has seen "too many failures"
  left      \* session ids of which a call failed or close() was lost

policyVars == <<acts, dreamt, j, dreaming>>
sessionVars == <<who, sess, todo, k, drawn>>
resultVars == <<feat, raised, left>>
clientVars == <<pc, policyVars, sessionVars, resultVars>>
vars == <<serverVars, listed, clientVars>>

me == sess[who]

\* A StatefulSession with the log ops; its peer stays known when it failed.
NewSession(ops, exclude) ==
  [ops |-> ops, failures |-> 0, exclude |-> exclude, peer |-> NoPeer,
   attached |-> FALSE, sid |-> 0]

Op(method, n) == [method |-> method, n |-> n]

\* The call the policy waits for.
Awaited(r) == r \in rpcs /\ r.live

\* The frame of a call is out: until then the policy waits for the connection,
\* its lock and the drain, where it is before this step.
Send(method, n) ==
  rpcs' = rpcs \cup {Request(me.peer.addr, me.sid, method, n)}

-----------------------------------------------------------------------------
(***************************************************************************)
(* Policy.act and Policy.imagine.                                          *)
(***************************************************************************)
Act ==
  /\ pc = "idle" /\ ~dreaming
  /\ acts < MaxActs
  /\ pc' = "call" /\ who' = "acting" /\ todo' = Op("observe", acts)
  /\ UNCHANGED <<serverVars, listed, policyVars, sess, k, drawn, resultVars>>

InheritNothing(s) == NewSession(<< >>, s.exclude)    \* mutant: the log stays behind

\* fork: a copy of the log, and of the state if the server answers.
Inherit(s) == NewSession(s.ops, s.exclude)

Imagine ==
  /\ pc = "idle" /\ ~dreaming
  /\ acts > 0 /\ dreamt < MaxDreams
  /\ dreaming' = TRUE /\ dreamt' = dreamt + 1 /\ j' = 0
  /\ sess' = [sess EXCEPT !["dream"] = Inherit(sess["acting"])]
  /\ who' = "acting"
  /\ pc' = IF sess["acting"].attached THEN "fork" ELSE "idle"
  /\ UNCHANGED <<serverVars, listed, todo, k, drawn, acts, resultVars>>

SendFork ==
  /\ pc = "fork"
  /\ Send("fork", drawn)
  /\ pc' = "awaitFork"
  /\ UNCHANGED <<inc, up, sessions, listed, policyVars, sessionVars, resultVars>>

AdoptOriginal(sid) ==        \* mutant: to the session that was copied
  sess' = [sess EXCEPT !["dream"] = [@ EXCEPT !.peer = sess["acting"].peer,
                                              !.attached = TRUE,
                                              !.sid = sess["acting"].sid]]

\* The child is attached to the copy.
Adopt(sid) ==
  sess' = [sess EXCEPT !["dream"] = [@ EXCEPT !.peer = sess["acting"].peer,
                                              !.attached = TRUE, !.sid = sid]]

ForkDone(r) ==
  /\ pc = "awaitFork" /\ Awaited(r) /\ r.st = "done"
  /\ rpcs' = rpcs \ {r}
  /\ Adopt(drawn)
  /\ drawn' = drawn + 1
  /\ pc' = "idle"
  /\ UNCHANGED <<inc, up, sessions, listed, policyVars, who, todo, k, resultVars>>

Dream ==
  /\ pc = "idle" /\ dreaming
  /\ j < Horizon
  /\ pc' = "call" /\ who' = "dream" /\ todo' = Op("imagine", j)
  /\ UNCHANGED <<serverVars, listed, policyVars, sess, k, drawn, resultVars>>

-----------------------------------------------------------------------------
(***************************************************************************)
(* StatefulSession.call.  An attached session sends its operation; another *)
(* one picks a peer and replays its log first.                             *)
(***************************************************************************)
SendOp ==
  /\ pc = "call" /\ me.attached
  /\ Send(todo.method, todo.n)
  /\ pc' = "await"
  /\ UNCHANGED <<inc, up, sessions, listed, policyVars, sessionVars, resultVars>>

ReplayLast == Len(me.ops)            \* mutant: only the last operation

ReplayFrom == 1

Attach ==
  /\ pc = "call" /\ ~me.attached
  /\ \E p \in listed \ me.exclude :
       sess' = [sess EXCEPT ![who] = [@ EXCEPT !.peer = p, !.attached = TRUE, !.sid = drawn]]
  /\ drawn' = drawn + 1
  /\ k' = ReplayFrom
  /\ pc' = IF me.ops = << >> THEN "call" ELSE "replay"
  /\ UNCHANGED <<serverVars, listed, policyVars, who, todo, resultVars>>

SendReplay ==
  /\ pc = "replay"
  /\ Send(me.ops[k].method, me.ops[k].n)
  /\ pc' = "awaitReplay"
  /\ UNCHANGED <<inc, up, sessions, listed, policyVars, sessionVars, resultVars>>

ReplayPast == k <= Len(me.ops)      \* mutant: beyond the last operation

ReplayGoesOn == k < Len(me.ops)

ReplayDone(r) ==
  /\ pc = "awaitReplay" /\ Awaited(r) /\ r.st = "done"
  /\ rpcs' = rpcs \ {r}
  /\ k' = k + 1
  /\ pc' = IF ReplayGoesOn THEN "replay" ELSE "call"
  /\ UNCHANGED <<inc, up, sessions, listed, policyVars, who, sess, todo, drawn, resultVars>>

LogNothing(op) == UNCHANGED sess     \* mutant: not logged

\* ops.append
Log(op) == sess' = [sess EXCEPT ![who].ops = Append(@, op)]

OpDone(r) ==
  /\ pc = "await" /\ Awaited(r) /\ r.st = "done"
  /\ rpcs' = rpcs \ {r}
  /\ Log(todo)
  /\ feat' = r.out
  /\ acts' = IF dreaming THEN acts ELSE acts + 1
  /\ j' = IF dreaming THEN j + 1 ELSE j
  /\ pc' = "idle"
  /\ UNCHANGED <<inc, up, sessions, listed, dreamt, dreaming, who, todo, k, drawn, raised, left>>

\* The call raises: imagine() closes its fork, the caller sees the exception.
Raise == pc' = IF dreaming THEN "close" ELSE "idle"

Count(s) == s.failures + 1

RetrySame ==                         \* mutant: the same peer again
  /\ pc' = "call"
  /\ UNCHANGED <<sess, left, raised>>

\* _fail: over the budget it raises before it detaches the session.
Fail ==
  /\ left' = IF me.attached THEN left \cup {me.sid} ELSE left
  /\ IF Count(me) > MaxFailures
     THEN /\ sess' = [sess EXCEPT ![who].failures = Count(me)]
          /\ raised' = (raised \/ ~dreaming)
          /\ Raise
     ELSE /\ sess' = [sess EXCEPT ![who] = [@ EXCEPT !.failures = Count(me),
                                              !.attached = FALSE,
                                              !.exclude = me.exclude \cup {me.peer}]]
          /\ pc' = "call"
          /\ UNCHANGED raised

\* A refusal, or a lost connection.
Failed(r) == Awaited(r) /\ r.st \in {"refused", "lost"} /\ rpcs' = rpcs \ {r}

\* A timeout, or a connection that breaks: the server may not know.
Abandoned(r) ==
  /\ Awaited(r) /\ r.st \in {"sent", "queued", "computed", "done"}
  /\ r.addr \notin Reliable
  /\ rpcs' = (rpcs \ {r}) \cup (IF r.st = "done" THEN {} ELSE {[r EXCEPT !.live = FALSE]})

CallFails(r) ==
  /\ pc \in {"await", "awaitReplay"}
  /\ Failed(r) \/ Abandoned(r)
  /\ Fail
  /\ UNCHANGED <<inc, up, sessions, listed, policyVars, who, todo, k, drawn, feat>>

\* A fork that fails costs nothing: the child replays when it is called.
ForkFails(r) ==
  /\ pc = "awaitFork"
  /\ Failed(r) \/ Abandoned(r)
  /\ left' = left \cup {drawn}
  /\ drawn' = drawn + 1
  /\ pc' = "idle"
  /\ UNCHANGED <<inc, up, sessions, listed, policyVars, who, sess, todo, k, feat, raised>>

(***************************************************************************)
(* _attach: the lookup fails, which counts as a failure of the peer known  *)
(* last and raises AttributeError if there was none; or no peer is left,   *)
(* and NoRouteError is raised.                                             *)
(***************************************************************************)
LookupFails ==
  /\ RegistryFaults
  /\ pc = "call" /\ ~me.attached
  /\ IF me.peer = NoPeer /\ Count(me) <= MaxFailures
     THEN /\ sess' = [sess EXCEPT ![who].failures = Count(me)]
          /\ Raise
          /\ UNCHANGED <<left, raised>>
     ELSE Fail
  /\ UNCHANGED <<serverVars, listed, policyVars, who, todo, k, drawn, feat>>

NoServer ==
  /\ pc = "call" /\ ~me.attached
  /\ listed \subseteq me.exclude
  /\ Raise
  /\ UNCHANGED <<serverVars, listed, policyVars, sessionVars, resultVars>>

-----------------------------------------------------------------------------
(***************************************************************************)
(* The fork is closed after an imagination, the acting session when the    *)
(* policy is; nobody is asked to close what is not attached.  The session  *)
(* object is dropped.                                                      *)
(***************************************************************************)
BeginClose ==
  /\ pc = "idle"
  /\ dreaming => j = Horizon
  /\ pc' = "close"
  /\ UNCHANGED <<serverVars, listed, policyVars, sessionVars, resultVars>>

EndClose ==
  /\ pc = "close"
  /\ LET it == IF dreaming THEN "dream" ELSE "acting"
         s == sess[it] IN
     /\ sess' = [sess EXCEPT ![it].attached = FALSE]
     /\ IF s.attached
        THEN \/ /\ up[s.peer.addr]
                /\ Close(s.peer.addr, s.sid)
                /\ UNCHANGED left
             \/ /\ ~up[s.peer.addr] \/ s.peer.addr \notin Reliable
                /\ left' = left \cup {s.sid}
                /\ UNCHANGED sessions
        ELSE UNCHANGED <<sessions, left>>
  /\ dreaming' = FALSE
  /\ pc' = IF dreaming THEN "idle" ELSE "closed"
  /\ UNCHANGED <<inc, up, rpcs, listed, acts, dreamt, j, who, todo, k, drawn, feat, raised>>

-----------------------------------------------------------------------------
Announce(a) ==
  /\ up[a] /\ CurrentPeer(a) \notin listed
  /\ listed' = listed \cup {CurrentPeer(a)}
  /\ UNCHANGED <<serverVars, clientVars>>

Expire(p) ==
  /\ p.addr \notin Reliable
  /\ listed' = listed \ {p}
  /\ UNCHANGED <<serverVars, clientVars>>

\* The sessions the policy may still call.
Held ==
  {sess[s].sid : s \in {q \in {"acting", "dream"} : sess[q].attached}}
    \cup (IF pc = "awaitFork" THEN {drawn} ELSE {})

\* What gc() may find unused for session_timeout.
Idle(a) ==
  {sid \in DOMAIN sessions[a] :
     /\ \A r \in rpcs : r.addr = a /\ r.sid = sid => r.st \notin {"queued", "computed"}
     /\ LongIdle \/ sid \notin Held}

ServerStep ==
  \/ \E r \in rpcs : Enqueue(r) \/ ObserveNew(r, Idle(r.addr)) \/ Unknown(r)
                     \/ Compute(r) \/ WriteBack(r) \/ Fork(r) \/ Cancel(r)
  \/ \E a \in Addrs : Collect(a, Idle(a)) \/ (a \notin Reliable /\ Crash(a)) \/ Start(a)

GivenUp == raised /\ ~Persistent

ClientStep ==
  \/ ~GivenUp /\ (Act \/ Imagine)
  \/ Dream \/ SendFork \/ SendOp \/ Attach \/ SendReplay \/ LookupFails \/ NoServer
  \/ BeginClose \/ EndClose
  \/ \E r \in rpcs : ForkDone(r) \/ ReplayDone(r) \/ OpDone(r) \/ CallFails(r) \/ ForkFails(r)

RegistryStep == (\E a \in Addrs : Announce(a)) \/ (\E p \in listed : Expire(p))

Next ==
  \/ ServerStep /\ UNCHANGED <<listed, clientVars>>
  \/ ClientStep
  \/ RegistryStep

Init ==
  /\ ServersInit(Founders)
  /\ listed = {CurrentPeer(a) : a \in Founders}
  /\ pc = "idle" /\ who = "acting"
  /\ sess = [s \in {"acting", "dream"} |-> NewSession(<< >>, {})]
  /\ dreaming = FALSE
  /\ todo = Op("observe", 0) /\ k = 1 /\ drawn = 0
  /\ acts = 0 /\ dreamt = 0 /\ j = 0
  /\ feat = << >> /\ raised = FALSE /\ left = {}

Spec == Init /\ [][Next]_vars

=============================================================================
