-------------------------- MODULE DreamerInvariant --------------------------
(***************************************************************************)
(* Why a policy over the swarm is correct: the invariant that its proofs   *)
(* need.  Plumbing says how calls, session ids and sessions hang together, *)
(* whatever servers do.  Contents says which states the servers hold, and  *)
(* needs what the code relies on without checking it: that a worker keeps  *)
(* a session while the policy uses it.                                     *)
(***************************************************************************)
EXTENDS DreamerProperties

\* No server is restarted at the same address, no session in use looks idle.
SessionsKept == MaxInc = 1 /\ ~LongIdle

Both == {"acting", "dream"}

InCall == pc \in {"call", "replay", "awaitReplay", "await"}
Waiting == pc \in {"awaitFork", "awaitReplay", "await"}

\* imagine() raised, and drops its fork.
Dropped(s) == pc = "close" /\ s = "dream"

-----------------------------------------------------------------------------
(***************************************************************************)
(* Which session the policy calls, and with what.                          *)
(***************************************************************************)
PolicyInv ==
  /\ InCall =>
       /\ who = IF dreaming THEN "dream" ELSE "acting"
       /\ todo.method = IF dreaming THEN "imagine" ELSE "observe"
       /\ todo.n < MaxActs + Horizon
  /\ pc \in {"fork", "awaitFork"} =>
       /\ who = "acting" /\ dreaming
       /\ sess["acting"].attached /\ ~sess["dream"].attached
       /\ sess["dream"].ops = sess["acting"].ops
  /\ pc = "await" => me.attached
  /\ ~dreaming => ~sess["dream"].attached
  /\ raised /\ ~Persistent => ~dreaming /\ pc \in {"idle", "close", "closed"}

\* The operation the policy waits for.
Asked ==
  CASE pc = "awaitFork" -> Op("fork", drawn)
    [] pc = "awaitReplay" -> me.ops[k]
    [] OTHER -> todo

Asks(r) ==
  /\ r.addr = me.peer.addr /\ r.sid = me.sid
  /\ r.method = Asked.method /\ r.n = Asked.n

\* The policy waits for one call, and for the one it made.
CallInv ==
  /\ \A r \in rpcs : r.live => Waiting /\ Asks(r)
  /\ \A r, s \in rpcs : r.live /\ s.live => r = s
  /\ Waiting => \E r \in rpcs : r.live

\* The session a request writes to.
Target(r) == IF r.method = "fork" THEN r.n ELSE r.sid

SidInv ==
  /\ \A s \in Both : sess[s].attached => sess[s].sid < drawn
  /\ \A s, t \in Both :
       sess[s].attached /\ sess[t].attached /\ sess[s].sid = sess[t].sid => s = t
  /\ \A sid \in left : sid < drawn

\* A call the policy gave up on is to a session it has given up as well.
Fenced ==
  /\ \A r \in rpcs : ~r.live => Target(r) \in left
  /\ ~raised =>
       \A s \in Both : sess[s].attached /\ sess[s].sid \in left => Dropped(s)

\* What a worker holds was given up, or is held for a session attached to it.
HeldAt(a, sid) ==
  \/ \E s \in Both : sess[s].attached /\ sess[s].sid = sid /\ sess[s].peer.addr = a
  \/ pc = "awaitFork" /\ sid = drawn /\ a = sess["acting"].peer.addr

Accounts == \A a \in Addrs : \A sid \in DOMAIN sessions[a] : sid \in left \/ HeldAt(a, sid)

\* A caller that goes on may be the second writer to a session.
WriterInv == ~(raised /\ Persistent) => OneWriter

Plumbing ==
  TypeOK /\ PolicyInv /\ CallInv /\ SidInv /\ Fenced /\ Accounts /\ WriterInv

-----------------------------------------------------------------------------
\* The servers the policy knows of have been started.
PeersInv ==
  /\ \A p \in listed : inc[p.addr] > 0
  /\ \A s \in Both : sess[s].attached => inc[sess[s].peer.addr] > 0

\* The worker at a has the session sid in state b.
Has(a, sid, b) == sid \in DOMAIN sessions[a] /\ sessions[a][sid] = b

\* It has, or nobody told it yet, unless it is gone.
At(a, sid, b) ==
  up[a] => Has(a, sid, b) \/ (b = << >> /\ sid \notin DOMAIN sessions[a])

\* How far the call r has come, of operation op in state b.
Called(r, b, op) ==
  /\ r.st = "sent" => At(r.addr, r.sid, b)
  /\ r.st = "queued" => Has(r.addr, r.sid, b)
  /\ r.st = "computed" => Has(r.addr, r.sid, b) /\ r.out = Append(b, op)
  /\ r.st = "done" => Has(r.addr, r.sid, Append(b, op)) /\ r.out = Append(b, op)

\* The state the session was in when the policy made its call.
Before == IF pc \in {"replay", "awaitReplay"} THEN SubSeq(me.ops, 1, k - 1) ELSE me.ops

\* The sessions that nothing is being done to.
Settled(s) == sess[s].attached /\ ~(InCall /\ s = who) /\ ~Dropped(s)

SettledInv ==
  \A s \in Both :
    Settled(s) /\ up[sess[s].peer.addr] => Has(sess[s].peer.addr, sess[s].sid, sess[s].ops)

CalledInv ==
  /\ InCall /\ ~Waiting /\ me.attached => At(me.peer.addr, me.sid, Before)
  /\ InCall => \A r \in rpcs : r.live => Called(r, Before, Asked)
  /\ pc = "awaitFork" =>
       \A r \in rpcs : r.live /\ r.st = "done" => Has(r.addr, drawn, sess["acting"].ops)

Contents == PeersInv /\ (~raised => SettledInv /\ CalledInv)

Invariant == Plumbing /\ (SessionsKept => Contents)

=============================================================================
