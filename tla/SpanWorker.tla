----------------------------- MODULE SpanWorker -----------------------------
(***************************************************************************)
(* The span servers of a swarm: SpanWorker of dvlm/server.py behind the    *)
(* RPC server that runs one task per request.  A forward handler has one   *)
(* await, on the executor thread, so it is two atomic steps: find or open  *)
(* the session, then run the layers and account for the new positions.     *)
(* A request the client gave up on is still a task of the server: it stays *)
(* in rpcs with live = FALSE until the server finishes or cancels it.      *)
(***************************************************************************)
EXTENDS Routing

CONSTANTS
  MaxSessions,  \* max_sessions of a worker
  MaxInc,       \* processes that may run at one address, one after the other
  MaxLoad       \* MaxLoad[a] : sessions of other clients the worker at a may hold

SpanWorkerAssumption ==
  /\ MaxSessions \in Nat \ {0}
  /\ MaxInc \in Nat \ {0}
  /\ MaxLoad \in [Addrs -> 0 .. MaxSessions]

ASSUME WorkerBoundsAreValid == SpanWorkerAssumption

VARIABLES
  inc,       \* inc[a] : how many processes have been started at a
  up,        \* up[a] : whether the last of them is running
  sessions,  \* sessions[a] : key -> _Session of this client at the worker at a
  load,      \* load[a] : how many other sessions that worker holds
  rpcs       \* forward requests sent and not yet answered or abandoned

serverVars == <<inc, up, sessions, load, rpcs>>

\* A session id is unique to one assignment of one hop: the how-manieth
\* plan of the client it belongs to, and the entry layer within it.
Sids == Nat \X Layers

\* f"{session_id}:{start}", the key of the sessions dict.
Keys == Sids \X Layers

Key(r) == <<r.sid, r.start>>

Sessions == [end : Boundaries, kv : Blocks, length : Nat]

IsTable(t) == DOMAIN t \subseteq Keys /\ t \in [DOMAIN t -> Sessions]

(***************************************************************************)
(* st: sent (on the wire), running (in the executor), done (replied with   *)
(* out), refused (replied with an error), lost (the connection died).      *)
(* past is the handler's local, read before its await.                     *)
(***************************************************************************)
Rpcs == [addr : Addrs, sid : Sids, start : Layers, end : Boundaries,
         x : Blocks, st : {"sent", "running", "done", "refused", "lost"},
         past : Nat, out : Blocks, live : BOOLEAN]

Request(hop, x, reached) ==
  [addr |-> hop.peer.addr, sid |-> hop.sid, start |-> hop.start,
   end |-> hop.end, x |-> x, st |-> IF reached THEN "sent" ELSE "lost",
   past |-> 0, out |-> Empty(0), live |-> TRUE]

Advance(r, s) == rpcs' = (rpcs \ {r}) \cup {s}

Without(table, keys) == [k \in DOMAIN table \ keys |-> table[k]]

With(table, key, s) ==
  [k \in DOMAIN table \cup {key} |-> IF k = key THEN s ELSE table[k]]

Full(a, table) == Cardinality(DOMAIN table) + load[a] >= MaxSessions

\* What a forward call that finds the worker full may drop: see gc().
CollectAny(a, idle) ==               \* mutant: sessions in use as well
  IF Full(a, sessions[a]) THEN SUBSET DOMAIN sessions[a] ELSE {{}}

MakeRoom(a, idle) == IF Full(a, sessions[a]) THEN SUBSET idle ELSE {{}}

AbsorbUncounted(s, t) ==             \* mutant: length does not grow
  [s EXCEPT !.kv = Cat(@, t)]

Absorb(s, t) ==
  [end |-> s.end, kv |-> Cat(s.kv, t), length |-> s.length + Width(t)]

Arrives(r) == r \in rpcs /\ r.st = "sent" /\ up[r.addr]

(***************************************************************************)
(* forward, up to the executor, for a key the worker knows.                *)
(***************************************************************************)
ForwardKnown(r) ==
  LET table == sessions[r.addr] IN
  /\ Arrives(r)
  /\ Key(r) \in DOMAIN table
  /\ Advance(r, IF table[Key(r)].end = r.end
                THEN [r EXCEPT !.st = "running", !.past = table[Key(r)].length]
                ELSE [r EXCEPT !.st = "refused"])
  /\ UNCHANGED <<inc, up, sessions, load>>

(***************************************************************************)
(* forward, up to the executor, for a new key: a full worker first drops   *)
(* what gc() finds idle, and refuses if that frees nothing.  `idle' are    *)
(* the keys of this client whose last_used may be that old.                *)
(***************************************************************************)
ForwardNew(r, idle) ==
  LET a == r.addr IN
  /\ Arrives(r)
  /\ Key(r) \notin DOMAIN sessions[a]
  /\ \E gone \in MakeRoom(a, idle) :
       LET table == Without(sessions[a], gone) IN
       IF Full(a, table)
       THEN /\ Advance(r, [r EXCEPT !.st = "refused"])
            /\ sessions' = [sessions EXCEPT ![a] = table]
       ELSE /\ Advance(r, [r EXCEPT !.st = "running", !.past = 0])
            /\ sessions' = [sessions EXCEPT ![a] = With(table, Key(r),
                 [end |-> r.end, kv |-> Empty(r.start), length |-> 0])]
  /\ UNCHANGED <<inc, up, load>>

(***************************************************************************)
(* forward, from the executor on: the layers extend the KV cache, the      *)
(* handler adds to length and replies.  A reply to an abandoned request is *)
(* dropped by the client's receive loop.                                   *)
(***************************************************************************)
ForwardDone(r) ==
  LET a == r.addr  s == sessions[a][Key(r)] IN
  /\ r \in rpcs /\ r.st = "running" /\ up[a]
  /\ Key(r) \in DOMAIN sessions[a]
  /\ sessions' = [sessions EXCEPT ![a] = With(@, Key(r), Absorb(s, r.x))]
  /\ rpcs' = (rpcs \ {r}) \cup
       (IF r.live
        THEN {[r EXCEPT !.st = "done", !.out = Forwarded(s.kv, r.past, r.x, r.end)]}
        ELSE {})
  /\ UNCHANGED <<inc, up, load>>

\* The session was collected meanwhile: the handler fills an orphan.
ForwardDoneOrphan(r) ==
  /\ r \in rpcs /\ r.st = "running" /\ up[r.addr]
  /\ Key(r) \notin DOMAIN sessions[r.addr]
  /\ rpcs' = rpcs \ {r}
  /\ UNCHANGED <<inc, up, sessions, load>>

(***************************************************************************)
(* The connection of an abandoned request is gone: _serve cancels its      *)
(* task.  If the executor thread had already started, the cache is longer  *)
(* than the length the cancelled handler never added to.                   *)
(***************************************************************************)
ForwardCancelled(r) ==
  LET a == r.addr  s == sessions[a][Key(r)] IN
  /\ r \in rpcs /\ ~r.live
  /\ rpcs' = rpcs \ {r}
  /\ \/ UNCHANGED sessions
     \/ /\ r.st = "running"
        /\ Key(r) \in DOMAIN sessions[a]
        /\ sessions' = [sessions EXCEPT ![a] =
                          With(@, Key(r), [s EXCEPT !.kv = Cat(s.kv, r.x)])]
  /\ UNCHANGED <<inc, up, load>>

\* gc() of the heartbeat loop.
Collect(a, idle) ==
  /\ up[a]
  /\ idle # {}
  /\ \E gone \in (SUBSET idle) \ {{}} :
       sessions' = [sessions EXCEPT ![a] = Without(@, gone)]
  /\ UNCHANGED <<inc, up, load, rpcs>>

\* close(session_id): every entry of that session, whatever its layer.
CloseSession(a, sid) ==
  sessions' = [sessions EXCEPT ![a] = Without(@, {k \in DOMAIN @ : k[1] = sid})]

\* Other clients open, close and abandon sessions of their own.
OtherClients(a) ==
  /\ up[a]
  /\ \/ /\ ~Full(a, sessions[a])
        /\ load[a] < MaxLoad[a]
        /\ load' = [load EXCEPT ![a] = @ + 1]
     \/ /\ load[a] > 0
        /\ load' = [load EXCEPT ![a] = @ - 1]
  /\ UNCHANGED <<inc, up, sessions, rpcs>>

(***************************************************************************)
(* The process dies (Server.crash): its sessions and its tasks with it,    *)
(* and whoever waits for a reply sees the connection drop.                 *)
(***************************************************************************)
Crash(a) ==
  /\ up[a]
  /\ up' = [up EXCEPT ![a] = FALSE]
  /\ sessions' = [sessions EXCEPT ![a] = Without(@, DOMAIN @)]
  /\ load' = [load EXCEPT ![a] = 0]
  /\ rpcs' = {r \in rpcs : r.addr # a} \cup
             {[r EXCEPT !.st = "lost"] : r \in {q \in rpcs : q.addr = a /\ q.live}}
  /\ UNCHANGED inc

\* `dvlm serve' at a, for the first time or again on the same port.
Start(a) ==
  /\ ~up[a]
  /\ inc[a] < MaxInc
  /\ inc' = [inc EXCEPT ![a] = @ + 1]
  /\ up' = [up EXCEPT ![a] = TRUE]
  /\ UNCHANGED <<sessions, load, rpcs>>

CurrentPeer(a) == [addr |-> a, inc |-> inc[a]]

\* The swarm a client meets: the founders run, the others may come later.
ServersInit(founders) ==
  /\ up = [a \in Addrs |-> a \in founders]
  /\ inc = [a \in Addrs |-> IF a \in founders THEN 1 ELSE 0]
  /\ sessions = [a \in Addrs |-> << >>]
  /\ load = [a \in Addrs |-> 0]
  /\ rpcs = {}

ServersTypeOK ==
  /\ inc \in [Addrs -> 0 .. MaxInc]
  /\ up \in [Addrs -> BOOLEAN]
  /\ \A a \in Addrs : up[a] => inc[a] > 0
  /\ sessions = [a \in Addrs |-> sessions[a]]
  /\ \A a \in Addrs : IsTable(sessions[a])
  /\ load \in [Addrs -> Nat]
  /\ rpcs \subseteq Rpcs

============================================================================
