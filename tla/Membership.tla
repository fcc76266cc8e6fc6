----------------------------- MODULE Membership -----------------------------
(***************************************************************************)
(* How a span server comes to be listed, stays listed and leaves: Registry *)
(* (dvlm/registry.py), the heartbeat of Server (dvlm/server.py) and the    *)
(* join of `dvlm serve' (dvlm/cli.py), in discrete time.  Announcements    *)
(* travel in order on the server's pooled connection to the registry.      *)
(***************************************************************************)
EXTENDS Placement, Sequences

CONSTANTS
  Peers,        \* server processes, one peer_id each
  NumLayers,    \* layers of the decoder
  SpanLen,      \* SpanLen[p] : --num-layers of p
  Throughput,   \* Throughput[p] : what p measures
  Ttl,          \* ttl of an announcement
  MaxDelay,     \* longest time a registry call takes
  MaxMisses,    \* announcements in a row that may fail
  MaxRestarts   \* times the registry may be restarted

MembershipParameters ==
  /\ SpanLen \in [Peers -> 1 .. NumLayers]
  /\ Throughput \in [Peers -> Nat \ {0}] /\ IsFiniteSet(Peers)
  /\ {NumLayers, Ttl, MaxDelay, MaxMisses, MaxRestarts} \subseteq Nat

ASSUME MembershipParametersAreValid == MembershipParameters

VARIABLES
  expires,   \* the registry: listed peer -> time left until it expires
  server,    \* server[p] : the process of p
  wire,      \* wire[p] : what p has sent and the registry not yet handled
  age,       \* age[p] : time since p began the registry call it awaits
  restarts,  \* restarts of the registry
  since      \* time since the last of them

vars == <<expires, server, wire, age, restarts, since>>

Period == Ttl \div 3

\* Between two announcements that get through, if as many fail as may.
LongestGap == (MaxMisses + 1) * (Period + MaxDelay) + MaxDelay

Gone == {"dead", "left"}
Alive == {"serving", "leaving"}

Server(st) ==
  [st |-> st, span |-> [start |-> 0, end |-> 0],
   beat |-> "none", sleep |-> 0, misses |-> 0, gone |-> 0]

-----------------------------------------------------------------------------
(***************************************************************************)
(* Registry.  An entry is kept until a list() finds it expired.            *)
(***************************************************************************)
AtItsTtl(p) == expires[p] <= 0   \* mutant: expires <= now

Expired(p) == expires[p] < 0

Unpurged == expires              \* mutant: list() returns what has expired

Purged == [p \in {q \in DOMAIN expires : ~Expired(q)} |-> expires[p]]

Listed(p) == p \in DOMAIN expires /\ ~Expired(p)

Prolong(p) ==                    \* mutant: the ttl is added to what is left
  [q \in DOMAIN expires \cup {p} |->
     IF q # p THEN expires[q]
     ELSE IF p \in DOMAIN expires /\ expires[p] > 0 THEN expires[p] + Ttl ELSE Ttl]

Announced(p) == [q \in DOMAIN expires \cup {p} |-> IF q = p THEN Ttl ELSE expires[q]]

Removed(p) == [q \in DOMAIN expires \ {p} |-> expires[q]]

Handle(p) ==
  /\ wire[p] # << >>
  /\ expires' = IF Head(wire[p]) = "announce" THEN Announced(p) ELSE Removed(p)
  /\ wire' = [wire EXCEPT ![p] = Tail(@)]
  /\ UNCHANGED <<server, age, restarts, since>>

\* A client lists the servers.
List ==
  /\ expires' = Purged
  /\ UNCHANGED <<server, wire, age, restarts, since>>

-----------------------------------------------------------------------------
(***************************************************************************)
(* cmd_serve: look at the swarm, choose a span, load and measure, announce.*)
(***************************************************************************)
Offer(q) ==
  [id |-> q, start |-> server[q].span.start, end |-> server[q].span.end,
   throughput |-> Throughput[q]]

Choose(p) ==
  /\ server[p].st = "new"
  /\ expires' = Purged
  /\ server' = [server EXCEPT ![p] =
       [Server("loading") EXCEPT
          !.span = ChooseSpan({Offer(q) : q \in DOMAIN Purged}, NumLayers, SpanLen[p])]]
  /\ UNCHANGED <<wire, age, restarts, since>>

Send(p, what) ==
  /\ wire' = [wire EXCEPT ![p] = Append(@, what)]
  /\ age' = [age EXCEPT ![p] = 0]

\* Server.start: the first announcement.
StartServer(p) ==
  /\ server[p].st = "loading"
  /\ server' = [server EXCEPT ![p].st = "joining"]
  /\ Send(p, "announce")
  /\ UNCHANGED <<expires, restarts, since>>

Joined(p) ==
  /\ server[p].st = "joining" /\ wire[p] = << >>
  /\ server' = [server EXCEPT ![p].st = "serving", ![p].beat = "asleep", ![p].sleep = Period]
  /\ age' = [age EXCEPT ![p] = 0]
  /\ UNCHANGED <<expires, wire, restarts, since>>

(***************************************************************************)
(* _heartbeat_loop.  An announcement that fails may have been handled.     *)
(***************************************************************************)
Beat(p) ==
  /\ server[p].beat = "asleep" /\ server[p].sleep = 0
  /\ server' = [server EXCEPT ![p].beat = "announcing"]
  /\ Send(p, "announce")
  /\ UNCHANGED <<expires, restarts, since>>

BeatDone(p) ==
  /\ server[p].beat = "announcing" /\ wire[p] = << >>
  /\ server' = [server EXCEPT ![p].beat = "asleep", ![p].sleep = Period, ![p].misses = 0]
  /\ age' = [age EXCEPT ![p] = 0]
  /\ UNCHANGED <<expires, wire, restarts, since>>

BeatFails(p) ==
  /\ server[p].beat = "announcing" /\ server[p].misses < MaxMisses
  /\ server' = [server EXCEPT ![p].beat = "asleep", ![p].sleep = Period, ![p].misses = @ + 1]
  /\ wire' = [wire EXCEPT ![p] = << >>]
  /\ age' = [age EXCEPT ![p] = 0]
  /\ UNCHANGED <<expires, restarts, since>>

BeatsOn(s) == s                  \* mutant: the heartbeat is not cancelled

NoBeat(s) == [s EXCEPT !.beat = "none", !.sleep = 0, !.misses = 0]

\* The process ends without a word: it is killed, its first announcement
\* fails, or the call of stop() does.  What it sent may still be handled.
Crash(p) ==
  /\ server[p].st \in {"loading", "joining"} \cup Alive
  /\ server' = [server EXCEPT ![p] = [NoBeat(server[p]) EXCEPT !.st = "dead"]]
  /\ \/ UNCHANGED wire
     \/ wire' = [wire EXCEPT ![p] = << >>]
  /\ age' = [age EXCEPT ![p] = 0]
  /\ UNCHANGED <<expires, restarts, since>>

\* stop: cancel the heartbeat, then deregister.
Stop(p) ==
  /\ server[p].st = "serving"
  /\ server' = [server EXCEPT ![p] = [NoBeat(server[p]) EXCEPT !.st = "leaving"]]
  /\ Send(p, "remove")
  /\ UNCHANGED <<expires, restarts, since>>

Left(p) ==
  /\ server[p].st = "leaving" /\ wire[p] = << >>
  /\ server' = [server EXCEPT ![p].st = "left"]
  /\ age' = [age EXCEPT ![p] = 0]
  /\ UNCHANGED <<expires, wire, restarts, since>>

-----------------------------------------------------------------------------
\* The registry forgets everything; a call it was asked breaks at once.
RestartRegistry ==
  /\ restarts < MaxRestarts
  /\ restarts' = restarts + 1
  /\ since' = 0
  /\ expires' = << >>
  /\ wire' = [p \in Peers |-> << >>]
  /\ age' = [p \in Peers |-> 0]
  /\ server' = [p \in Peers |->
       LET s == server[p] IN
       IF s.st = "joining" THEN [s EXCEPT !.st = "dead"]
       ELSE IF s.st = "leaving" THEN [s EXCEPT !.st = "left"]
       ELSE IF s.beat = "announcing" THEN [s EXCEPT !.beat = "asleep", !.sleep = Period]
       ELSE s]

Calling(p) == server[p].st \in {"joining", "leaving"} \/ server[p].beat = "announcing"

\* Time passes unless a sleep is over or a call or a message is due.
Tick ==
  /\ \A p \in Peers :
       /\ server[p].beat = "asleep" => server[p].sleep > 0
       /\ Calling(p) \/ wire[p] # << >> => age[p] < MaxDelay
  /\ expires' = [p \in DOMAIN expires |-> IF expires[p] < 0 THEN expires[p] ELSE expires[p] - 1]
  /\ server' = [p \in Peers |->
       [server[p] EXCEPT
          !.sleep = IF @ > 0 THEN @ - 1 ELSE 0,
          !.gone = IF server[p].st \in Gone THEN Min({@ + 1, Ttl + MaxDelay + 1}) ELSE 0]]
  /\ age' = [p \in Peers |-> IF Calling(p) \/ wire[p] # << >> THEN age[p] + 1 ELSE 0]
  /\ since' = Min({since + 1, LongestGap})
  /\ UNCHANGED <<wire, restarts>>

-----------------------------------------------------------------------------
Init ==
  /\ expires = << >>
  /\ server = [p \in Peers |-> Server("new")]
  /\ wire = [p \in Peers |-> << >>]
  /\ age = [p \in Peers |-> 0]
  /\ restarts = 0 /\ since = LongestGap

Next ==
  \/ \E p \in Peers :
       \/ Handle(p)
       \/ Choose(p) \/ StartServer(p) \/ Joined(p)
       \/ Beat(p) \/ BeatDone(p) \/ BeatFails(p)
       \/ Crash(p) \/ Stop(p) \/ Left(p)
  \/ List \/ RestartRegistry \/ Tick

Spec == Init /\ [][Next]_vars

-----------------------------------------------------------------------------
(***************************************************************************)
(* Types.  A call takes no longer than MaxDelay, and time left is at most  *)
(* a ttl.                                                                  *)
(***************************************************************************)
TypeOK ==
  /\ DOMAIN expires \subseteq Peers
  /\ \A p \in DOMAIN expires : expires[p] \in -1 .. Ttl
  /\ \A p \in Peers :
       LET s == server[p] IN
       /\ s.st \in {"new", "loading", "joining"} \cup Alive \cup Gone
       /\ s.span.start \in 0 .. NumLayers /\ s.span.end \in s.span.start .. NumLayers
       /\ s.beat \in {"none", "asleep", "announcing"}
       /\ s.beat # "none" <=> s.st = "serving"
       /\ s.sleep \in 0 .. Period /\ s.misses \in 0 .. MaxMisses
       /\ wire[p] \in Seq({"announce", "remove"}) /\ Len(wire[p]) <= 2
       /\ age[p] \in 0 .. MaxDelay
  /\ restarts \in 0 .. MaxRestarts /\ since \in 0 .. LongestGap

(***************************************************************************)
(* A server that serves stays listed, although one of its announcements    *)
(* may be lost and all may be slow, and it is listed again after a restart *)
(* of the registry: a period of ttl / 3 leaves room for that (registry.py: *)
(* "servers re-announce periodically, entries expire").                    *)
(***************************************************************************)
ServingIsListed ==
  \A p \in Peers :
    server[p].st = "serving" /\ since >= LongestGap => Listed(p)

(***************************************************************************)
(* "TTL expiry of dead servers": nobody is routed to a server for longer   *)
(* than a ttl and the time of a registry call after it died or stopped     *)
(* without being heard.  (What it announced last may still be on its way   *)
(* when it dies.)                                                          *)
(***************************************************************************)
DeadIsUnlisted ==
  \A p \in Peers : server[p].gone > Ttl + MaxDelay => ~Listed(p)

(***************************************************************************)
(* A server that has deregistered does not come back, whatever heartbeat   *)
(* was under way when it stopped (stop cancels the loop before it removes).*)
(***************************************************************************)
LeftStaysOut == \A p \in Peers : server[p].st = "left" => ~Listed(p)

(***************************************************************************)
(* "picks the least-served layers automatically": what a server sees of    *)
(* the swarm when it looks is the registry's view, late news and lost      *)
(* heartbeats in it, yet the layers it takes are the least served in a     *)
(* swarm with everybody who serves, and with nobody who has not announced  *)
(* itself, has deregistered or has been dead for long.  (How the swarm     *)
(* changes before it announces its span, and who looks at the same time,   *)
(* is nothing it knows.)                                                   *)
(***************************************************************************)
Serving == {q \in Peers : server[q].st = "serving"}

MayBeListed ==
  {q \in Peers : \/ server[q].st \in {"joining"} \cup Alive
                 \/ server[q].st = "dead" /\ server[q].gone <= Ttl + MaxDelay}

LeastServed(servers, p) == ChooseSpan({Offer(q) : q \in servers}, NumLayers, SpanLen[p])

JoinsLeastServed ==
  [][\A p \in Peers :
       server[p].st = "new" /\ server'[p].st = "loading" /\ since >= LongestGap =>
         \E seen \in SUBSET MayBeListed :
           Serving \subseteq seen /\ server'[p].span = LeastServed(seen, p)]_vars

=============================================================================
