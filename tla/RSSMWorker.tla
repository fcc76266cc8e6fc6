----------------------------- MODULE RSSMWorker -----------------------------
(***************************************************************************)
(* The rssm servers of a swarm: RSSMWorker of dvlm/dreamer/server.py.      *)
(* Every operation is deterministic in the state and in its parameters,    *)
(* its seed included, so a latent state (h, z) is told by the sequence of  *)
(* operations that led to it, and so are the features computed from it.    *)
(* An operation reads the state in the executor thread and writes it back  *)
(* on the event loop, so it is three atomic steps.                         *)
(***************************************************************************)
EXTENDS Naturals, FiniteSets, Sequences

CONSTANTS
  Addrs,        \* host:port at which an rssm server can run
  MaxSessions,  \* max_sessions of a worker
  MaxInc        \* processes that may run at one address, one after the other

ASSUME RSSMBoundsAreValid == MaxSessions \in Nat \ {0} /\ MaxInc \in Nat \ {0}

VARIABLES
  inc,       \* inc[a] : how many processes have been started at a
  up,        \* up[a] : whether the last of them is running
  sessions,  \* sessions[a] : session id -> latent state at the worker at a
  rpcs       \* requests sent and not yet answered or abandoned

serverVars == <<inc, up, sessions, rpcs>>

Peers == [addr : Addrs, inc : Nat \ {0}]

Sids == Nat             \* the how-manieth uuid the client drew

\* n tells an operation's parameters and its seed.
Ops == [method : {"observe", "imagine"}, n : Nat]

States == Seq(Ops)

IsTable(t) == DOMAIN t \subseteq Sids /\ t \in [DOMAIN t -> States]

(***************************************************************************)
(* st: sent (on the wire), queued (for the executor), computed (not yet    *)
(* written back), done, refused (replied with an error), lost (the         *)
(* connection died).  A fork names the session it makes.                   *)
(***************************************************************************)
Requests == [addr : Addrs, sid : Sids, method : {"observe", "imagine", "fork"},
             n : Nat, live : BOOLEAN, out : States,
             st : {"sent", "queued", "computed", "done", "refused", "lost"}]

Request(a, sid, method, n) ==
  [addr |-> a, sid |-> sid, method |-> method, n |-> n, live |-> TRUE, out |-> << >>,
   st |-> IF up[a] THEN "sent" ELSE "lost"]

Becomes(r, s) == rpcs' = (rpcs \ {r}) \cup {s}

Answer(r, s) == rpcs' = (rpcs \ {r}) \cup (IF r.live THEN {s} ELSE {})

Put(table, sid, state) ==
  [k \in DOMAIN table \cup {sid} |-> IF k = sid THEN state ELSE table[k]]

Drop(table, sids) == [k \in DOMAIN table \ sids |-> table[k]]

Full(table) == Cardinality(DOMAIN table) >= MaxSessions

Arrives(r) == r \in rpcs /\ r.st = "sent" /\ up[r.addr]

\* observe or imagine of a session the worker knows, up to the executor.
Enqueue(r) ==
  /\ Arrives(r) /\ r.method # "fork"
  /\ r.sid \in DOMAIN sessions[r.addr]
  /\ Becomes(r, [r EXCEPT !.st = "queued"])
  /\ UNCHANGED <<inc, up, sessions>>

(***************************************************************************)
(* observe of a session the worker does not know starts it afresh, if need *)
(* be after gc(); `idle' are the sessions whose last use may be that old.  *)
(***************************************************************************)
ObserveNew(r, idle) ==
  LET table == sessions[r.addr] IN
  /\ Arrives(r) /\ r.method = "observe"
  /\ r.sid \notin DOMAIN table
  /\ \E gone \in IF Full(table) THEN SUBSET idle ELSE {{}} :
       LET kept == Drop(table, gone) IN
       IF Full(kept)
       THEN /\ Answer(r, [r EXCEPT !.st = "refused"])
            /\ sessions' = [sessions EXCEPT ![r.addr] = kept]
       ELSE /\ Becomes(r, [r EXCEPT !.st = "queued"])
            /\ sessions' = [sessions EXCEPT ![r.addr] = Put(kept, r.sid, << >>)]
  /\ UNCHANGED <<inc, up>>

\* imagine and fork of an unknown session: _get raises.
Unknown(r) ==
  /\ Arrives(r) /\ r.method # "observe"
  /\ r.sid \notin DOMAIN sessions[r.addr]
  /\ Answer(r, [r EXCEPT !.st = "refused"])
  /\ UNCHANGED <<inc, up, sessions>>

\* The executor thread runs obs_step or img_step on the state it finds.
Compute(r) ==
  /\ r \in rpcs /\ r.st = "queued"
  /\ r.sid \in DOMAIN sessions[r.addr]
  /\ Becomes(r, [r EXCEPT !.st = "computed",
                          !.out = Append(sessions[r.addr][r.sid],
                                         [method |-> r.method, n |-> r.n])])
  /\ UNCHANGED <<inc, up, sessions>>

\* The handler writes the new state back and replies with its features.
WriteBack(r) ==
  /\ r \in rpcs /\ r.st = "computed"
  /\ r.sid \in DOMAIN sessions[r.addr]
  /\ sessions' = [sessions EXCEPT ![r.addr] = Put(@, r.sid, r.out)]
  /\ Answer(r, [r EXCEPT !.st = "done"])
  /\ UNCHANGED <<inc, up>>

\* fork never awaits, and does not count the sessions; n is the new one's id.
Fork(r) ==
  /\ Arrives(r) /\ r.method = "fork"
  /\ r.sid \in DOMAIN sessions[r.addr]
  /\ sessions' = [sessions EXCEPT ![r.addr] = Put(@, r.n, @[r.sid])]
  /\ Answer(r, [r EXCEPT !.st = "done"])
  /\ UNCHANGED <<inc, up>>

(***************************************************************************)
(* An abandoned request is cancelled with its connection, or finds that    *)
(* its session was closed meanwhile: it leaves nothing behind.             *)
(***************************************************************************)
Cancel(r) ==
  /\ r \in rpcs /\ ~r.live
  /\ rpcs' = rpcs \ {r}
  /\ UNCHANGED <<inc, up, sessions>>

CloseNothing(a, sid) == UNCHANGED sessions     \* mutant: the session stays

Close(a, sid) == sessions' = [sessions EXCEPT ![a] = Drop(@, {sid})]

\* gc() of the heartbeat loop.
Collect(a, idle) ==
  /\ \E gone \in (SUBSET idle) \ {{}} :
       sessions' = [sessions EXCEPT ![a] = Drop(@, gone)]
  /\ UNCHANGED <<inc, up, rpcs>>

\* The process dies: whoever waits for a reply sees the connection drop.
Crash(a) ==
  /\ up[a]
  /\ up' = [up EXCEPT ![a] = FALSE]
  /\ sessions' = [sessions EXCEPT ![a] = Drop(@, DOMAIN @)]
  /\ rpcs' = {r \in rpcs : r.addr # a} \cup
             {[r EXCEPT !.st = "lost"] : r \in {q \in rpcs : q.addr = a /\ q.live}}
  /\ UNCHANGED inc

Start(a) ==
  /\ ~up[a] /\ inc[a] < MaxInc
  /\ inc' = [inc EXCEPT ![a] = @ + 1]
  /\ up' = [up EXCEPT ![a] = TRUE]
  /\ UNCHANGED <<sessions, rpcs>>

CurrentPeer(a) == [addr |-> a, inc |-> inc[a]]

ServersInit(founders) ==
  /\ up = [a \in Addrs |-> a \in founders]
  /\ inc = [a \in Addrs |-> IF a \in founders THEN 1 ELSE 0]
  /\ sessions = [a \in Addrs |-> << >>]
  /\ rpcs = {}

ServersTypeOK ==
  /\ inc \in [Addrs -> 0 .. MaxInc]
  /\ up \in [Addrs -> BOOLEAN]
  /\ \A a \in Addrs : up[a] => inc[a] > 0
  /\ sessions = [a \in Addrs |-> sessions[a]]
  /\ \A a \in Addrs : IsTable(sessions[a])
  /\ rpcs \subseteq Requests
  /\ \A r \in rpcs : r.st \in {"queued", "computed"} => r.method # "fork"

============================================================================
