-------------------------- MODULE MembershipProofs --------------------------
(***************************************************************************)
(* The registry and its servers: who has left stays out, who died is       *)
(* forgotten in time, who serves stays listed, and who joins is needed.    *)
(* The proofs rest on what a server can have on the wire in each of its    *)
(* states, and on how long ago the registry can have heard of it last.     *)
(***************************************************************************)
EXTENDS Membership, PlacementProofs, SequenceTheorems

NoWord == << >>
Hello == <<"announce">>
Bye == <<"remove">>
HelloBye == <<"announce", "remove">>

Words == {NoWord, Hello, Bye, HelloBye}

Processes ==
  [st : {"new", "loading", "joining"} \cup Alive \cup Gone,
   span : [start : 0 .. NumLayers, end : 0 .. NumLayers],
   beat : {"none", "asleep", "announcing"}, sleep : 0 .. Period, misses : 0 .. MaxMisses,
   gone : 0 .. Ttl + MaxDelay + 1]

(***************************************************************************)
(* What holds of p, of whose process s the words w are on the wire for a   *)
(* time a, while the registry holds x.                                     *)
(***************************************************************************)
Sound(p, s, w, a, x) ==
  /\ s.span.start <= s.span.end
  /\ s.beat # "none" <=> s.st = "serving"
  /\ s.st \in {"new", "loading", "left"} \/ s.beat = "asleep" => w = NoWord
  /\ s.st \in {"joining", "serving"} => w \in {NoWord, Hello}
  /\ s.st = "leaving" => w \in {NoWord, Bye, HelloBye}
  /\ s.st \notin Gone => s.gone = 0
  /\ s.st \in Gone /\ w # NoWord => s.gone <= a
  /\ p \in DOMAIN x => /\ x[p] \in -1 .. Ttl
                       /\ x[p] >= 0 => s.gone + x[p] <= Ttl + MaxDelay
  /\ s.st \in {"new", "loading", "left"} \/ (s.st = "leaving" /\ w = NoWord)
       => p \notin DOMAIN x

Shape ==
  /\ DOMAIN expires \subseteq Peers
  /\ server \in [Peers -> Processes]
  /\ wire \in [Peers -> Words] /\ age \in [Peers -> 0 .. MaxDelay]
  /\ restarts \in 0 .. MaxRestarts /\ since \in 0 .. LongestGap

PeersInv == \A p \in Peers : Sound(p, server[p], wire[p], age[p], expires)

Inv == Shape /\ PeersInv

-----------------------------------------------------------------------------
(***************************************************************************)
(* The words and the times.                                                *)
(***************************************************************************)
LEMMA WireFacts ==
  /\ NoWord = << >>
  /\ Hello # NoWord /\ Bye # NoWord /\ HelloBye # NoWord /\ Hello # Bye
  /\ Append(NoWord, "announce") = Hello /\ Append(NoWord, "remove") = Bye
  /\ Append(Hello, "remove") = HelloBye
  /\ Head(Hello) = "announce" /\ Tail(Hello) = NoWord
  /\ Head(Bye) = "remove" /\ Tail(Bye) = NoWord
  /\ Head(HelloBye) = "announce" /\ Tail(HelloBye) = Bye
<1> USE DEF NoWord, Hello, Bye, HelloBye
<1>1. Len(NoWord) = 0 /\ Len(Hello) = 1 /\ Len(Bye) = 1 /\ Len(HelloBye) = 2
  OBVIOUS
<1>2. Hello[1] = "announce" /\ Bye[1] = "remove"
  OBVIOUS
<1>3. Append(NoWord, "announce") = Hello
  OBVIOUS
<1>4. Append(NoWord, "remove") = Bye
  OBVIOUS
<1>5. Append(Hello, "remove") = HelloBye
  <2> DEFINE both == Append(Hello, "remove")
  <2>1. Hello \in Seq({"announce", "remove"})
    OBVIOUS
  <2>2. both \in Seq({"announce", "remove"}) /\ Len(both) = 2
    BY <1>1, <2>1
  <2>3. both[1] = "announce" /\ both[2] = "remove"
    BY <1>1, <1>2, <2>1
  <2>4. HelloBye \in Seq({"announce", "remove"}) /\ Len(HelloBye) = 2
    OBVIOUS
  <2>5. HelloBye[1] = "announce" /\ HelloBye[2] = "remove"
    OBVIOUS
  <2> HIDE DEF both, HelloBye
  <2>6. \A i \in 1 .. Len(both) : both[i] = HelloBye[i]
    BY <2>2, <2>3, <2>5
  <2>7. both = HelloBye
    BY <2>2, <2>4, <2>6, SeqEqual
  <2> QED
    BY <2>7 DEF both
<1>6. Head(Hello) = "announce" /\ Head(Bye) = "remove" /\ Head(HelloBye) = "announce"
  OBVIOUS
<1>7. Tail(Hello) = NoWord
  OBVIOUS
<1>8. Tail(Bye) = NoWord
  OBVIOUS
<1>9. Tail(HelloBye) = Bye
  OBVIOUS
<1>10. Hello # NoWord /\ Bye # NoWord /\ HelloBye # NoWord /\ Hello # Bye
  BY <1>1, <1>2
<1> QED
  BY <1>3, <1>4, <1>5, <1>6, <1>7, <1>8, <1>9, <1>10

LEMMA WordsAreSequences ==
  \A w \in Words : w \in Seq({"announce", "remove"}) /\ Len(w) <= 2
<1> USE DEF NoWord, Hello, Bye, HelloBye
<1>1. NoWord \in Seq({"announce", "remove"}) /\ Len(NoWord) <= 2
  OBVIOUS
<1>2. Hello \in Seq({"announce", "remove"}) /\ Len(Hello) <= 2
  OBVIOUS
<1>3. Bye \in Seq({"announce", "remove"}) /\ Len(Bye) <= 2
  OBVIOUS
<1>4. HelloBye \in Seq({"announce", "remove"}) /\ Len(HelloBye) <= 2
  OBVIOUS
<1> QED
  BY <1>1, <1>2, <1>3, <1>4 DEF Words

LEMMA Times ==
  /\ Ttl \in Nat /\ MaxDelay \in Nat /\ MaxMisses \in Nat /\ MaxRestarts \in Nat
  /\ NumLayers \in Nat /\ Period \in Nat /\ LongestGap \in Nat
<1>1. /\ Ttl \in Nat /\ MaxDelay \in Nat /\ MaxMisses \in Nat /\ MaxRestarts \in Nat
      /\ NumLayers \in Nat
  BY MembershipParametersAreValid DEF MembershipParameters
<1>2. Period \in Nat
  BY <1>1 DEF Period
<1>3. \A m, n \in Nat : m * n \in Nat
  OBVIOUS
<1>4. MaxMisses + 1 \in Nat /\ Period + MaxDelay \in Nat
  BY <1>1, <1>2
<1>5. (MaxMisses + 1) * (Period + MaxDelay) \in Nat
  BY <1>3, <1>4
<1> QED
  BY <1>1, <1>2, <1>5 DEF LongestGap

\* A peer does not mind what the registry does with the others, or a purge.
LEMMA SoundKept ==
  ASSUME NEW p, NEW s, NEW w, NEW a, NEW x, NEW y, Sound(p, s, w, a, x),
         p \in DOMAIN y => p \in DOMAIN x /\ y[p] = x[p]
  PROVE  Sound(p, s, w, a, y)
BY DEF Sound

\* A step of p that leaves the others alone.
LEMMA OnlyPeer ==
  ASSUME Inv, NEW p \in Peers, NEW s \in Processes, NEW w \in Words, NEW a \in 0 .. MaxDelay,
         server' = [server EXCEPT ![p] = s],
         wire' = [wire EXCEPT ![p] = w],
         age' = [age EXCEPT ![p] = a],
         DOMAIN expires' \subseteq Peers,
         \A q \in DOMAIN expires' : q # p => q \in DOMAIN expires /\ expires'[q] = expires[q],
         UNCHANGED <<restarts, since>>,
         Sound(p, s, w, a, expires')
  PROVE  Inv'
<1>1. Shape'
  BY DEF Inv, Shape
<1>2. ASSUME NEW q \in Peers PROVE Sound(q, server'[q], wire'[q], age'[q], expires')
  <2>1. CASE q = p
    <3>1. server'[q] = s /\ wire'[q] = w /\ age'[q] = a
      BY <2>1 DEF Inv, Shape
    <3> QED
      BY <2>1, <3>1
  <2>2. CASE q # p
    <3>1. server'[q] = server[q] /\ wire'[q] = wire[q] /\ age'[q] = age[q]
      BY <2>2 DEF Inv, Shape
    <3>2. Sound(q, server[q], wire[q], age[q], expires)
      BY DEF Inv, PeersInv
    <3> QED
      BY <2>2, <3>1, <3>2, SoundKept
  <2> QED
    BY <2>1, <2>2
<1>3. PeersInv'
  BY <1>2 DEF PeersInv
<1> QED
  BY <1>1, <1>3 DEF Inv

\* The fields a step may give a process.
LEMMA FieldTypes ==
  /\ 0 \in 0 .. MaxDelay /\ 0 \in 0 .. Period /\ Period \in 0 .. Period /\ 0 \in 0 .. MaxMisses
  /\ {"joining", "serving", "leaving", "dead", "left"}
       \subseteq {"new", "loading", "joining"} \cup Alive \cup Gone
BY Times DEF Alive, Gone

LEMMA PeerState ==
  ASSUME Inv, NEW p \in Peers
  PROVE  /\ Sound(p, server[p], wire[p], age[p], expires)
         /\ server[p] \in Processes /\ wire[p] \in Words /\ age[p] \in 0 .. MaxDelay
         /\ server = [server EXCEPT ![p] = server[p]]
         /\ wire = [wire EXCEPT ![p] = wire[p]]
         /\ age = [age EXCEPT ![p] = age[p]]
BY DEF Inv, Shape, PeersInv

-----------------------------------------------------------------------------
(***************************************************************************)
(* The steps of one server.                                                *)
(***************************************************************************)
LEMMA HandleStep == ASSUME Inv, NEW p \in Peers, Handle(p) PROVE Inv'
<1> DEFINE s == server[p]
           w == wire[p]
           a == age[p]
<1>1. /\ Sound(p, s, w, a, expires) /\ s \in Processes /\ w \in Words /\ a \in 0 .. MaxDelay
      /\ server = [server EXCEPT ![p] = s] /\ age = [age EXCEPT ![p] = a]
  BY PeerState
<1>2. /\ w # << >> /\ wire' = [wire EXCEPT ![p] = Tail(w)]
      /\ expires' = IF Head(w) = "announce" THEN Announced(p) ELSE Removed(p)
      /\ UNCHANGED <<server, age, restarts, since>>
  <2>1. wire' = [wire EXCEPT ![p] = Tail(wire[p])]
    BY DEF Handle
  <2> QED
    BY <2>1 DEF Handle
<1>3. server' = [server EXCEPT ![p] = s] /\ age' = [age EXCEPT ![p] = a]
  BY <1>1, <1>2
<1>4. DOMAIN expires \subseteq Peers
  BY DEF Inv, Shape
<1> HIDE DEF s, w, a
<1>5. CASE w \in {Hello, HelloBye}
  <2>1. expires' = Announced(p) /\ Tail(w) = IF w = Hello THEN NoWord ELSE Bye
    BY <1>2, <1>5, WireFacts
  <2>2. /\ DOMAIN expires' = DOMAIN expires \cup {p} /\ expires'[p] = Ttl
        /\ \A q \in DOMAIN expires' : q # p => q \in DOMAIN expires /\ expires'[q] = expires[q]
    BY <2>1 DEF Announced
  <2>3. s.gone \in Nat /\ s.gone <= MaxDelay
    BY <1>1, <1>5, Times, WireFacts DEF Sound, Processes
  <2>4. Sound(p, s, Tail(w), a, expires')
    <3>1. s.st \notin {"new", "left"} /\ (s.st = "leaving" => Tail(w) = Bye)
      BY <1>1, <1>5, <2>1, WireFacts DEF Sound
    <3>2. /\ s.st \in {"joining", "serving"} => Tail(w) = NoWord
          /\ s.st # "loading" /\ s.beat # "asleep"
      BY <1>1, <1>5, <2>1, WireFacts DEF Sound
    <3>3. expires'[p] \in -1 .. Ttl /\ s.gone + expires'[p] <= Ttl + MaxDelay
      BY <2>2, <2>3, Times
    <3>4. s.st \in Gone /\ Tail(w) # NoWord => s.gone <= a
      BY <1>1, <1>5, WireFacts DEF Sound
    <3> QED
      BY <1>1, <3>1, <3>2, <3>3, <3>4, WireFacts DEF Sound
  <2>5. Tail(w) \in Words
    BY <2>1 DEF Words
  <2> QED
    BY <1>1, <1>2, <1>3, <1>4, <2>2, <2>4, <2>5, OnlyPeer
<1>6. CASE w = Bye
  <2>1. expires' = Removed(p) /\ Tail(w) = NoWord /\ NoWord \in Words
    BY <1>2, <1>6, WireFacts DEF Words
  <2>2. /\ DOMAIN expires' = DOMAIN expires \ {p}
        /\ \A q \in DOMAIN expires' : q # p => q \in DOMAIN expires /\ expires'[q] = expires[q]
    BY <2>1 DEF Removed
  <2>3. Sound(p, s, NoWord, a, expires')
    BY <1>1, <2>2 DEF Sound
  <2> QED
    BY <1>1, <1>2, <1>3, <1>4, <2>1, <2>2, <2>3, OnlyPeer
<1> QED
  BY <1>1, <1>2, <1>5, <1>6, WireFacts DEF Words

LEMMA PurgeFacts ==
  ASSUME Inv, expires' = Purged
  PROVE  /\ DOMAIN expires' \subseteq DOMAIN expires /\ DOMAIN expires' \subseteq Peers
         /\ \A q \in DOMAIN expires' : expires'[q] = expires[q]
BY DEF Inv, Shape, Purged

\* The others, as a server that joins sees them, are a swarm.
LEMMA ListedSwarm ==
  ASSUME Inv, NEW p \in Peers
  PROVE  /\ SpanLen[p] \in 1 .. NumLayers
         /\ Swarm({Offer(q) : q \in DOMAIN Purged}, NumLayers)
<1> DEFINE listed == DOMAIN Purged
           f == [q \in listed |-> Offer(q)]
<1>1. SpanLen[p] \in 1 .. NumLayers /\ NumLayers \in Nat /\ IsFiniteSet(Peers)
  BY MembershipParametersAreValid DEF MembershipParameters
<1>2. listed \subseteq Peers
  BY DEF Purged, Inv, Shape
<1> HIDE DEF listed
<1>3. IsFiniteSet(listed)
  BY <1>1, <1>2, FS_Subset
<1>4. f \in Surjection(listed, {Offer(q) : q \in listed})
  BY DEF Surjection
<1>5. IsFiniteSet({Offer(q) : q \in listed})
  BY <1>3, <1>4, FS_Surjection
<1>6. \A q \in listed : Offer(q).throughput \in Nat \ {0}
  <2>1. \A q \in Peers : Throughput[q] \in Nat \ {0}
    BY MembershipParametersAreValid DEF MembershipParameters
  <2> QED
    BY <1>2, <2>1 DEF Offer
<1>7. NumLayers \in Nat \ {0}
  BY <1>1
<1>8. Swarm({Offer(q) : q \in listed}, NumLayers)
  BY <1>5, <1>6, <1>7 DEF Swarm
<1> QED
  BY <1>1, <1>8 DEF listed

LEMMA LoadingProcess ==
  ASSUME NEW span
  PROVE  [Server("loading") EXCEPT !.span = span]
           = [st |-> "loading", span |-> span,
              beat |-> "none", sleep |-> 0, misses |-> 0, gone |-> 0]
<1> DEFINE s == Server("loading")
           r == [s EXCEPT !.span = span]
           zero == [start |-> 0, end |-> 0]
<1>1. s \in [st : {"loading"}, span : {zero},
             beat : {"none"}, sleep : {0}, misses : {0}, gone : {0}]
  BY DEF Server
<1> HIDE DEF s, zero
<1>2. r \in [st : {"loading"}, span : {span},
             beat : {"none"}, sleep : {0}, misses : {0}, gone : {0}]
  BY <1>1
<1> HIDE DEF r
<1>3. r = [st |-> "loading", span |-> span,
           beat |-> "none", sleep |-> 0, misses |-> 0, gone |-> 0]
  BY <1>2
<1> QED
  BY <1>3 DEF r, s

LEMMA ChooseStep == ASSUME Inv, NEW p \in Peers, Choose(p) PROVE Inv'
<1> DEFINE servers == {Offer(q) : q \in DOMAIN Purged}
           span == ChooseSpan(servers, NumLayers, SpanLen[p])
           s == [st |-> "loading", span |-> span,
                 beat |-> "none", sleep |-> 0, misses |-> 0, gone |-> 0]
<1>1. /\ Sound(p, server[p], wire[p], age[p], expires)
      /\ wire[p] \in Words /\ age[p] \in 0 .. MaxDelay
      /\ wire = [wire EXCEPT ![p] = wire[p]] /\ age = [age EXCEPT ![p] = age[p]]
  BY PeerState
<1>2. /\ server[p].st = "new" /\ expires' = Purged
      /\ UNCHANGED <<wire, age, restarts, since>>
      /\ server' = [server EXCEPT ![p] = s]
  <2>2. [Server("loading") EXCEPT !.span = span] = s
    BY LoadingProcess
  <2>3. server' = [server EXCEPT ![p] = [Server("loading") EXCEPT !.span = span]]
    BY DEF Choose
  <2> HIDE DEF s, span
  <2> QED
    BY <2>2, <2>3 DEF Choose
<1>3. /\ DOMAIN expires' \subseteq DOMAIN expires /\ DOMAIN expires' \subseteq Peers
      /\ \A q \in DOMAIN expires' : expires'[q] = expires[q]
  BY <1>2, PurgeFacts
<1>4. p \notin DOMAIN expires /\ wire[p] = NoWord
  BY <1>1, <1>2 DEF Sound
<1>5. span.start \in 0 .. NumLayers /\ span.end \in 0 .. NumLayers /\ span.start <= span.end
      /\ span = [start |-> span.start, end |-> span.end]
  <2>1. SpanLen[p] \in 1 .. NumLayers /\ Swarm(servers, NumLayers)
    BY ListedSwarm
  <2>2. span.start \in 0 .. NumLayers - SpanLen[p] /\ span.end = span.start + SpanLen[p]
    BY <2>1, SpanChosen
  <2>3. span = [start |-> span.start, end |-> span.end]
    BY DEF ChooseSpan
  <2> HIDE DEF span, servers
  <2> QED
    BY <2>1, <2>2, <2>3, Times
<1> HIDE DEF span
<1>6. s \in Processes
  BY <1>5, Times DEF Processes
<1>7. /\ s.st = "loading" /\ s.beat = "none" /\ s.gone = 0
      /\ s.span.start <= s.span.end
  BY <1>5
<1> HIDE DEF s
<1>8. Sound(p, s, wire[p], age[p], expires')
  BY <1>3, <1>4, <1>7 DEF Sound, Gone
<1> QED
  BY <1>1, <1>2, <1>3, <1>6, <1>8, OnlyPeer

LEMMA StartServerStep == ASSUME Inv, NEW p \in Peers, StartServer(p) PROVE Inv'
<1> DEFINE s == [server[p] EXCEPT !.st = "joining"]
<1>1. /\ Sound(p, server[p], wire[p], age[p], expires) /\ server[p] \in Processes
  BY PeerState
<1>2. server[p].st = "loading" /\ wire[p] = NoWord
  BY <1>1 DEF StartServer, Sound
<1>3. /\ server' = [server EXCEPT ![p] = s]
      /\ wire' = [wire EXCEPT ![p] = Hello] /\ age' = [age EXCEPT ![p] = 0]
      /\ UNCHANGED <<expires, restarts, since>>
  BY <1>2, WireFacts DEF StartServer, Send
<1>4. s \in Processes /\ Hello \in Words /\ 0 \in 0 .. MaxDelay
  BY <1>1, FieldTypes DEF Processes, Words
<1>5. Sound(p, s, Hello, 0, expires')
  BY <1>1, <1>2, <1>3 DEF Sound, Processes, Gone
<1>6. DOMAIN expires \subseteq Peers
  BY DEF Inv, Shape
<1> HIDE DEF s
<1> QED
  BY <1>3, <1>4, <1>5, <1>6, OnlyPeer

LEMMA JoinedStep == ASSUME Inv, NEW p \in Peers, Joined(p) PROVE Inv'
<1> DEFINE s == [server[p] EXCEPT !.st = "serving", !.beat = "asleep", !.sleep = Period]
<1>1. /\ Sound(p, server[p], wire[p], age[p], expires) /\ server[p] \in Processes
      /\ wire = [wire EXCEPT ![p] = wire[p]]
  BY PeerState
<1>2. server[p].st = "joining" /\ wire[p] = NoWord
  BY WireFacts DEF Joined
<1>3. /\ server' = [server EXCEPT ![p] = s]
      /\ wire' = [wire EXCEPT ![p] = NoWord] /\ age' = [age EXCEPT ![p] = 0]
      /\ UNCHANGED <<expires, restarts, since>>
  BY <1>1, <1>2 DEF Joined
<1>4. s \in Processes /\ NoWord \in Words /\ 0 \in 0 .. MaxDelay
  BY <1>1, FieldTypes DEF Processes, Words
<1>5. Sound(p, s, NoWord, 0, expires')
  BY <1>1, <1>2, <1>3 DEF Sound, Processes, Gone
<1>6. DOMAIN expires \subseteq Peers
  BY DEF Inv, Shape
<1> HIDE DEF s
<1> QED
  BY <1>3, <1>4, <1>5, <1>6, OnlyPeer

LEMMA BeatStep == ASSUME Inv, NEW p \in Peers, Beat(p) PROVE Inv'
<1> DEFINE s == [server[p] EXCEPT !.beat = "announcing"]
<1>1. /\ Sound(p, server[p], wire[p], age[p], expires) /\ server[p] \in Processes
  BY PeerState
<1>2. server[p].beat = "asleep" /\ server[p].st = "serving" /\ wire[p] = NoWord
  BY <1>1 DEF Beat, Sound
<1>3. /\ server' = [server EXCEPT ![p] = s]
      /\ wire' = [wire EXCEPT ![p] = Hello] /\ age' = [age EXCEPT ![p] = 0]
      /\ UNCHANGED <<expires, restarts, since>>
  BY <1>2, WireFacts DEF Beat, Send
<1>4. s \in Processes /\ Hello \in Words /\ 0 \in 0 .. MaxDelay
  BY <1>1, FieldTypes DEF Processes, Words
<1>5. Sound(p, s, Hello, 0, expires')
  BY <1>1, <1>2, <1>3 DEF Sound, Processes, Gone
<1>6. DOMAIN expires \subseteq Peers
  BY DEF Inv, Shape
<1> HIDE DEF s
<1> QED
  BY <1>3, <1>4, <1>5, <1>6, OnlyPeer

LEMMA BeatOverStep ==
  ASSUME Inv, NEW p \in Peers, BeatDone(p) \/ BeatFails(p)
  PROVE  Inv'
<1>1. /\ Sound(p, server[p], wire[p], age[p], expires) /\ server[p] \in Processes
      /\ wire = [wire EXCEPT ![p] = wire[p]]
  BY PeerState
<1>2. server[p].beat = "announcing" /\ server[p].st = "serving"
  BY <1>1 DEF BeatDone, BeatFails, Sound
<1>3. PICK m \in 0 .. MaxMisses :
        server' = [server EXCEPT ![p] =
          [server[p] EXCEPT !.beat = "asleep", !.sleep = Period, !.misses = m]]
  <2>1. CASE BeatDone(p)
    <3>1. 0 \in 0 .. MaxMisses
      BY Times
    <3> QED
      BY <2>1, <3>1 DEF BeatDone
  <2>2. CASE BeatFails(p)
    <3>1. server[p].misses \in 0 .. MaxMisses /\ server[p].misses < MaxMisses
      BY <1>1, <2>2 DEF BeatFails, Processes
    <3>2. server[p].misses + 1 \in 0 .. MaxMisses
      BY <3>1, Times
    <3> QED
      BY <2>2, <3>2 DEF BeatFails
  <2> QED
    BY <2>1, <2>2
<1> DEFINE s == [server[p] EXCEPT !.beat = "asleep", !.sleep = Period, !.misses = m]
<1>4. /\ server' = [server EXCEPT ![p] = s]
      /\ wire' = [wire EXCEPT ![p] = NoWord] /\ age' = [age EXCEPT ![p] = 0]
      /\ UNCHANGED <<expires, restarts, since>>
  BY <1>1, <1>3, WireFacts DEF BeatDone, BeatFails
<1>5. s \in Processes /\ NoWord \in Words /\ 0 \in 0 .. MaxDelay
  BY <1>1, FieldTypes DEF Processes, Words
<1>6. Sound(p, s, NoWord, 0, expires')
  BY <1>1, <1>2, <1>4 DEF Sound, Processes, Gone
<1>7. DOMAIN expires \subseteq Peers
  BY DEF Inv, Shape
<1> HIDE DEF s
<1> QED
  BY <1>4, <1>5, <1>6, <1>7, OnlyPeer

LEMMA CrashStep == ASSUME Inv, NEW p \in Peers, Crash(p) PROVE Inv'
<1> DEFINE s == [NoBeat(server[p]) EXCEPT !.st = "dead"]
<1>1. /\ Sound(p, server[p], wire[p], age[p], expires) /\ server[p] \in Processes
      /\ wire = [wire EXCEPT ![p] = wire[p]] /\ wire[p] \in Words
  BY PeerState
<1>2. server[p].st \in {"loading", "joining"} \cup Alive
  BY DEF Crash
<1>3. PICK w \in {wire[p], NoWord} : wire' = [wire EXCEPT ![p] = w]
  BY <1>1, WireFacts DEF Crash
<1>4. /\ server' = [server EXCEPT ![p] = s] /\ age' = [age EXCEPT ![p] = 0]
      /\ UNCHANGED <<expires, restarts, since>>
  BY DEF Crash
<1>5. s \in Processes /\ w \in Words /\ 0 \in 0 .. MaxDelay
  BY <1>1, <1>3, FieldTypes DEF Processes, Words, NoBeat
<1>6. /\ s.st = "dead" /\ s.beat = "none" /\ s.gone = 0
      /\ s.span = server[p].span
  <2>1. server[p].gone = 0
    BY <1>1, <1>2 DEF Sound, Gone, Alive
  <2> QED
    BY <1>1, <2>1 DEF Processes, NoBeat
<1> HIDE DEF s
<1>7. Sound(p, s, w, 0, expires')
  BY <1>1, <1>4, <1>6, Times DEF Sound, Gone
<1>8. DOMAIN expires \subseteq Peers
  BY DEF Inv, Shape
<1> QED
  BY <1>3, <1>4, <1>5, <1>7, <1>8, OnlyPeer

LEMMA StopStep == ASSUME Inv, NEW p \in Peers, Stop(p) PROVE Inv'
<1> DEFINE s == [NoBeat(server[p]) EXCEPT !.st = "leaving"]
           w == IF wire[p] = NoWord THEN Bye ELSE HelloBye
<1>1. /\ Sound(p, server[p], wire[p], age[p], expires) /\ server[p] \in Processes
  BY PeerState
<1>2. server[p].st = "serving" /\ wire[p] \in {NoWord, Hello}
  BY <1>1 DEF Stop, Sound
<1>3. /\ server' = [server EXCEPT ![p] = s]
      /\ wire' = [wire EXCEPT ![p] = w] /\ age' = [age EXCEPT ![p] = 0]
      /\ UNCHANGED <<expires, restarts, since>>
  <2>1. Append(wire[p], "remove") = w
    BY <1>2, WireFacts
  <2>2. wire' = [wire EXCEPT ![p] = Append(wire[p], "remove")]
    BY DEF Stop, Send
  <2> QED
    BY <2>1, <2>2 DEF Stop, Send
<1>4. s \in Processes /\ w \in Words /\ 0 \in 0 .. MaxDelay
  BY <1>1, FieldTypes DEF Processes, Words, NoBeat
<1>5. /\ s.st = "leaving" /\ s.beat = "none" /\ s.gone = server[p].gone
      /\ s.span = server[p].span
  BY <1>1 DEF Processes, NoBeat
<1>6. w \in {Bye, HelloBye} /\ w # NoWord
  BY WireFacts
<1> HIDE DEF s, w
<1>7. Sound(p, s, w, 0, expires')
  BY <1>1, <1>2, <1>3, <1>5, <1>6 DEF Sound, Gone
<1>8. DOMAIN expires \subseteq Peers
  BY DEF Inv, Shape
<1> QED
  BY <1>3, <1>4, <1>7, <1>8, OnlyPeer

LEMMA LeftStep == ASSUME Inv, NEW p \in Peers, Left(p) PROVE Inv'
<1> DEFINE s == [server[p] EXCEPT !.st = "left"]
<1>1. /\ Sound(p, server[p], wire[p], age[p], expires) /\ server[p] \in Processes
      /\ wire = [wire EXCEPT ![p] = wire[p]]
  BY PeerState
<1>2. server[p].st = "leaving" /\ wire[p] = NoWord
  BY WireFacts DEF Left
<1>3. /\ server' = [server EXCEPT ![p] = s]
      /\ wire' = [wire EXCEPT ![p] = NoWord] /\ age' = [age EXCEPT ![p] = 0]
      /\ UNCHANGED <<expires, restarts, since>>
  BY <1>1, <1>2 DEF Left
<1>4. s \in Processes /\ NoWord \in Words /\ 0 \in 0 .. MaxDelay
  BY <1>1, FieldTypes DEF Processes, Words
<1>5. Sound(p, s, NoWord, 0, expires')
  BY <1>1, <1>2, <1>3 DEF Sound, Processes, Gone
<1>6. DOMAIN expires \subseteq Peers
  BY DEF Inv, Shape
<1> HIDE DEF s
<1> QED
  BY <1>3, <1>4, <1>5, <1>6, OnlyPeer
LEMMA ListStep == ASSUME Inv, List PROVE Inv'
<1>1. /\ DOMAIN expires' \subseteq DOMAIN expires /\ DOMAIN expires' \subseteq Peers
      /\ \A q \in DOMAIN expires' : expires'[q] = expires[q]
  BY PurgeFacts DEF List
<1>2. UNCHANGED <<server, wire, age, restarts, since>>
  BY DEF List
<1>3. Shape'
  BY <1>1, <1>2 DEF Inv, Shape
<1>4. ASSUME NEW p \in Peers PROVE Sound(p, server[p], wire[p], age[p], expires')
  BY <1>1, PeerState, SoundKept
<1> QED
  BY <1>2, <1>3, <1>4 DEF Inv, PeersInv

\* What a restart of the registry makes of a process.
Restarted(s) ==
  IF s.st = "joining" THEN [s EXCEPT !.st = "dead"]
  ELSE IF s.st = "leaving" THEN [s EXCEPT !.st = "left"]
  ELSE IF s.beat = "announcing" THEN [s EXCEPT !.beat = "asleep", !.sleep = Period]
  ELSE s

LEMMA RestartStep == ASSUME Inv, RestartRegistry PROVE Inv'
<1>1. /\ server' = [p \in Peers |-> Restarted(server[p])]
      /\ wire' = [p \in Peers |-> NoWord] /\ age' = [p \in Peers |-> 0]
      /\ DOMAIN expires' = {} /\ restarts' = restarts + 1 /\ since' = 0
  <2>1. expires' = << >> /\ restarts' = restarts + 1 /\ since' = 0
    BY DEF RestartRegistry
  <2>2. wire' = [p \in Peers |-> NoWord] /\ age' = [p \in Peers |-> 0]
    BY DEF RestartRegistry, NoWord
  <2>3. server' = [p \in Peers |-> Restarted(server[p])]
    BY Zenon DEF RestartRegistry, Restarted
  <2>4. DOMAIN expires' = {}
    BY <2>1
  <2> QED
    BY <2>1, <2>2, <2>3, <2>4
<1>2. ASSUME NEW p \in Peers
      PROVE  /\ Restarted(server[p]) \in Processes
             /\ Sound(p, Restarted(server[p]), NoWord, 0, expires')
  <2>1. Sound(p, server[p], wire[p], age[p], expires) /\ server[p] \in Processes
    BY PeerState
  <2>2. Restarted(server[p]) \in Processes
    BY <2>1, FieldTypes DEF Processes, Restarted
  <2>3. Sound(p, Restarted(server[p]), NoWord, 0, expires')
    BY <1>1, <2>1 DEF Sound, Processes, Restarted, Gone
  <2> QED
    BY <2>2, <2>3
<1>3. restarts' \in 0 .. MaxRestarts /\ since' \in 0 .. LongestGap
  <2>1. restarts \in 0 .. MaxRestarts /\ restarts < MaxRestarts
    BY DEF Inv, Shape, RestartRegistry
  <2> QED
    BY <1>1, <2>1, Times
<1>4. Shape'
  BY <1>1, <1>2, <1>3, FieldTypes DEF Shape, Words
<1>5. PeersInv'
  BY <1>1, <1>2 DEF PeersInv
<1> QED
  BY <1>4, <1>5 DEF Inv

-----------------------------------------------------------------------------
(***************************************************************************)
(* Time passes.                                                            *)
(***************************************************************************)
\* What a tick makes of a process.
Ticked(s) ==
  [s EXCEPT !.sleep = IF s.sleep > 0 THEN s.sleep - 1 ELSE 0,
            !.gone = IF s.st \in Gone THEN Min({s.gone + 1, Ttl + MaxDelay + 1}) ELSE 0]

LEMMA LesserOfTwo ==
  ASSUME NEW m \in Nat, NEW n \in Nat
  PROVE  Min({m, n}) \in Nat /\ Min({m, n}) \in {m, n} /\ Min({m, n}) <= m /\ Min({m, n}) <= n
<1>1. {m, n} \subseteq Nat /\ {m, n} # {}
  OBVIOUS
<1> QED
  BY <1>1, MinIsLeast

LEMMA TickFacts ==
  ASSUME Inv, Tick
  PROVE  /\ server' = [p \in Peers |-> Ticked(server[p])]
         /\ UNCHANGED <<wire, restarts>>
         /\ DOMAIN expires' = DOMAIN expires
         /\ \A p \in DOMAIN expires :
              expires'[p] = IF expires[p] < 0 THEN expires[p] ELSE expires[p] - 1
         /\ since' \in 0 .. LongestGap /\ since' <= since + 1
         /\ age' \in [Peers -> 0 .. MaxDelay]
         /\ \A p \in Peers : /\ server[p].beat = "asleep" => server[p].sleep > 0
                             /\ Calling(p) \/ wire[p] # NoWord => age'[p] = age[p] + 1
<1>1. since \in Nat /\ age \in [Peers -> 0 .. MaxDelay]
  BY Times DEF Inv, Shape
<1>2. since' = Min({since + 1, LongestGap})
  BY DEF Tick
<1>3. since' \in 0 .. LongestGap /\ since' <= since + 1
  <2>1. since + 1 \in Nat /\ LongestGap \in Nat
    BY <1>1, Times
  <2> QED
    BY <1>2, <2>1, LesserOfTwo
<1>4. age' \in [Peers -> 0 .. MaxDelay]
  <2> DEFINE New(p) == IF Calling(p) \/ wire[p] # << >> THEN age[p] + 1 ELSE 0
  <2>1. age' = [p \in Peers |-> New(p)]
    BY DEF Tick
  <2>2. ASSUME NEW p \in Peers PROVE New(p) \in 0 .. MaxDelay
    <3>1. age[p] \in 0 .. MaxDelay /\ (Calling(p) \/ wire[p] # << >> => age[p] < MaxDelay)
      BY <1>1 DEF Tick
    <3> HIDE DEF Calling
    <3> QED
      BY <3>1, Times
  <2> HIDE DEF New
  <2> QED
    BY <2>1, <2>2
<1>5. server' = [p \in Peers |-> Ticked(server[p])]
  <2> DEFINE New(p) == [server[p] EXCEPT
          !.sleep = IF @ > 0 THEN @ - 1 ELSE 0,
          !.gone = IF server[p].st \in Gone THEN Min({@ + 1, Ttl + MaxDelay + 1}) ELSE 0]
  <2>1. server' = [p \in Peers |-> New(p)]
    BY DEF Tick
  <2>2. \A p \in Peers : New(p) = Ticked(server[p])
    BY DEF Ticked
  <2> HIDE DEF New
  <2> QED
    BY <2>1, <2>2
<1> QED
  BY <1>1, <1>3, <1>4, <1>5 DEF Tick, NoWord

LEMMA TickedProcess ==
  ASSUME NEW s \in Processes
  PROVE  /\ Ticked(s) \in Processes
         /\ Ticked(s).st = s.st /\ Ticked(s).span = s.span
         /\ Ticked(s).beat = s.beat /\ Ticked(s).misses = s.misses
         /\ Ticked(s).sleep = IF s.sleep > 0 THEN s.sleep - 1 ELSE 0
         /\ Ticked(s).gone \in Nat /\ Ticked(s).gone <= s.gone + 1
         /\ s.st \notin Gone => Ticked(s).gone = 0
<1> DEFINE gone == IF s.st \in Gone THEN Min({s.gone + 1, Ttl + MaxDelay + 1}) ELSE 0
           sleep == IF s.sleep > 0 THEN s.sleep - 1 ELSE 0
<1>1. s.gone \in Nat /\ s.sleep \in 0 .. Period
  BY Times DEF Processes
<1>2. gone \in 0 .. Ttl + MaxDelay + 1 /\ gone <= s.gone + 1 /\ (s.st \notin Gone => gone = 0)
  <2>1. s.gone + 1 \in Nat /\ Ttl + MaxDelay + 1 \in Nat
    BY <1>1, Times
  <2> QED
    BY <1>1, <2>1, LesserOfTwo
<1>3. sleep \in 0 .. Period
  BY <1>1, Times
<1>4. Ticked(s) = [s EXCEPT !.sleep = sleep, !.gone = gone]
  BY DEF Ticked
<1> HIDE DEF gone
<1>5. gone \in Nat
  BY <1>2, Times
<1> QED
  BY <1>2, <1>3, <1>4, <1>5 DEF Processes

LEMMA TickStep == ASSUME Inv, Tick PROVE Inv'
<1>1. /\ server' = [p \in Peers |-> Ticked(server[p])]
      /\ UNCHANGED <<wire, restarts>> /\ DOMAIN expires' = DOMAIN expires
      /\ \A p \in DOMAIN expires :
           expires'[p] = IF expires[p] < 0 THEN expires[p] ELSE expires[p] - 1
      /\ since' \in 0 .. LongestGap /\ age' \in [Peers -> 0 .. MaxDelay]
      /\ \A p \in Peers : wire[p] # NoWord => age'[p] = age[p] + 1
  BY TickFacts
<1>2. Shape'
  BY <1>1, TickedProcess DEF Inv, Shape
<1>3. ASSUME NEW p \in Peers PROVE Sound(p, server'[p], wire'[p], age'[p], expires')
  <2> DEFINE s == server[p]
             r == Ticked(s)
  <2>1. Sound(p, s, wire[p], age[p], expires) /\ s \in Processes /\ age[p] \in Nat
    BY PeerState, Times
  <2>2. server'[p] = r /\ wire'[p] = wire[p]
    BY <1>1
  <2>3. /\ r.st = s.st /\ r.span = s.span /\ r.beat = s.beat
        /\ r.gone \in Nat /\ r.gone <= s.gone + 1 /\ (s.st \notin Gone => r.gone = 0)
        /\ s.gone \in Nat
    BY <2>1, TickedProcess, Times DEF Processes
  <2> HIDE DEF s, r
  <2>4. s.st \in Gone /\ wire[p] # NoWord => r.gone <= age'[p]
    BY <1>1, <2>1, <2>3 DEF Sound
  <2>5. p \in DOMAIN expires => /\ expires'[p] \in -1 .. Ttl
                                /\ expires'[p] >= 0 => r.gone + expires'[p] <= Ttl + MaxDelay
    BY <1>1, <2>1, <2>3, Times DEF Sound
  <2>6. Sound(p, r, wire[p], age'[p], expires')
    BY <1>1, <2>1, <2>3, <2>4, <2>5 DEF Sound
  <2> QED
    BY <2>2, <2>6
<1> QED
  BY <1>2, <1>3 DEF Inv, PeersInv

LEMMA IdleStep == ASSUME Inv, UNCHANGED vars PROVE Inv'
BY DEF Inv, Shape, PeersInv, vars

LEMMA FirstState == Init => Inv
<1> SUFFICES ASSUME Init PROVE Inv
  OBVIOUS
<1>1. /\ server = [p \in Peers |-> Server("new")] /\ wire = [p \in Peers |-> NoWord]
      /\ age = [p \in Peers |-> 0] /\ DOMAIN expires = {}
      /\ restarts = 0 /\ since = LongestGap
  BY DEF Init, NoWord
<1>2. Server("new") \in Processes
  <2>1. 0 \in 0 .. NumLayers /\ 0 \in 0 .. Ttl + MaxDelay + 1
    BY Times
  <2> QED
    BY <2>1, FieldTypes DEF Server, Processes
<1>3. Shape
  BY <1>1, <1>2, Times DEF Shape, Words
<1>4. \A p \in Peers : Sound(p, Server("new"), NoWord, 0, expires)
  BY <1>1 DEF Sound, Server, Gone
<1> QED
  BY <1>1, <1>3, <1>4 DEF Inv, PeersInv

LEMMA Inductive == Inv /\ [Next]_vars => Inv'
<1> SUFFICES ASSUME Inv, [Next]_vars PROVE Inv'
  OBVIOUS
<1>1. ASSUME NEW p \in Peers,
             \/ Handle(p) \/ Choose(p) \/ StartServer(p) \/ Joined(p) \/ Beat(p)
             \/ BeatDone(p) \/ BeatFails(p) \/ Crash(p) \/ Stop(p) \/ Left(p)
      PROVE  Inv'
  BY <1>1, HandleStep, ChooseStep, StartServerStep, JoinedStep, BeatStep, BeatOverStep,
     CrashStep, StopStep, LeftStep
<1>2. CASE List
  BY <1>2, ListStep
<1>3. CASE RestartRegistry
  BY <1>3, RestartStep
<1>4. CASE Tick
  BY <1>4, TickStep
<1>5. CASE UNCHANGED vars
  BY <1>5, IdleStep
<1> QED
  BY <1>1, <1>2, <1>3, <1>4, <1>5 DEF Next

-----------------------------------------------------------------------------
\* In every state a server has on the wire only what its state allows, and
\* no registry entry of it is older than it can be.
THEOREM ServersSound == Spec => []Inv
BY FirstState, Inductive, PTL DEF Spec

\* Every variable has its type: two words on the wire at most, and no call
\* of the registry takes longer than it may.
THEOREM TypesCorrect == Spec => []TypeOK
<1>1. Inv => TypeOK
  <2> SUFFICES ASSUME Inv PROVE TypeOK
    OBVIOUS
  <2>1. /\ DOMAIN expires \subseteq Peers
        /\ restarts \in 0 .. MaxRestarts /\ since \in 0 .. LongestGap
    BY DEF Inv, Shape
  <2>2. \A p \in DOMAIN expires : expires[p] \in -1 .. Ttl
    BY <2>1 DEF Inv, PeersInv, Sound
  <2>3. ASSUME NEW p \in Peers
        PROVE  LET s == server[p] IN
               /\ s.st \in {"new", "loading", "joining"} \cup Alive \cup Gone
               /\ s.span.start \in 0 .. NumLayers /\ s.span.end \in s.span.start .. NumLayers
               /\ s.beat \in {"none", "asleep", "announcing"}
               /\ s.beat # "none" <=> s.st = "serving"
               /\ s.sleep \in 0 .. Period /\ s.misses \in 0 .. MaxMisses
               /\ wire[p] \in Seq({"announce", "remove"}) /\ Len(wire[p]) <= 2
               /\ age[p] \in 0 .. MaxDelay
    <3> DEFINE s == server[p]
    <3>1. /\ Sound(p, s, wire[p], age[p], expires)
          /\ s \in Processes /\ wire[p] \in Words /\ age[p] \in 0 .. MaxDelay
      BY PeerState
    <3>2. /\ s.st \in {"new", "loading", "joining"} \cup Alive \cup Gone
          /\ s.beat \in {"none", "asleep", "announcing"}
          /\ s.sleep \in 0 .. Period /\ s.misses \in 0 .. MaxMisses
          /\ s.span.start \in 0 .. NumLayers /\ s.span.end \in 0 .. NumLayers
      BY <3>1 DEF Processes
    <3> HIDE DEF s
    <3>3. /\ s.span.start <= s.span.end
          /\ s.beat # "none" <=> s.st = "serving"
      BY <3>1 DEF Sound
    <3>4. s.span.end \in s.span.start .. NumLayers
      BY <3>2, <3>3, Times
    <3>5. wire[p] \in Seq({"announce", "remove"}) /\ Len(wire[p]) <= 2
      BY <3>1, WordsAreSequences
    <3> QED
      BY <3>1, <3>2, <3>3, <3>4, <3>5 DEF s
  <2> QED
    BY <2>1, <2>2, <2>3 DEF TypeOK
<1> QED
  BY <1>1, ServersSound, PTL

\* A server that has deregistered is not listed again, although a heartbeat
\* was on the wire when it stopped: the registry handles that one first.
THEOREM LeftAlwaysStaysOut == Spec => []LeftStaysOut
<1>1. Inv => LeftStaysOut
  BY DEF Inv, PeersInv, Sound, LeftStaysOut, Listed
<1> QED
  BY <1>1, ServersSound, PTL

\* A server that died is not listed once its ttl and the time a last word
\* of it may have been under way are over.
THEOREM DeadAlwaysUnlisted == Spec => []DeadIsUnlisted
<1>1. Inv => DeadIsUnlisted
  <2> SUFFICES ASSUME Inv, NEW p \in Peers, server[p].gone > Ttl + MaxDelay, Listed(p)
               PROVE  FALSE
    BY DEF DeadIsUnlisted
  <2>1. server[p] \in Processes /\ Sound(p, server[p], wire[p], age[p], expires)
    BY PeerState
  <2>2. server[p].gone \in Nat
    BY <2>1, Times DEF Processes
  <2>3. /\ expires[p] \in -1 .. Ttl /\ ~(expires[p] < 0)
        /\ expires[p] >= 0 => server[p].gone + expires[p] <= Ttl + MaxDelay
    BY <2>1 DEF Sound, Listed, Expired
  <2> QED
    BY <2>2, <2>3, Times
<1> QED
  BY <1>1, ServersSound, PTL
-----------------------------------------------------------------------------
(***************************************************************************)
(* A server that serves stays listed.  Each announcement that fails costs  *)
(* a period and the time of a call; Fresh bounds how long ago the registry *)
(* last heard of p, or how long ago it was restarted, by the announcements *)
(* that failed since and the time spent in this one.                       *)
(***************************************************************************)
Missed(m) == m * (Period + MaxDelay)

\* The registry holds p, and p announced itself at most n ago.
Heard(p, x, n) == p \in DOMAIN x /\ Ttl - x[p] <= n

Fresh(p, s, w, a, x, t) ==
  /\ s.st = "joining" /\ w = NoWord => Heard(p, x, a)
  /\ s.beat = "asleep" =>
       \/ Heard(p, x, Missed(s.misses) + Period - s.sleep + MaxDelay)
       \/ t <= Missed(s.misses) + Period - s.sleep
  /\ s.beat = "announcing" /\ w # NoWord =>
       \/ Heard(p, x, Missed(s.misses) + Period + a + MaxDelay)
       \/ t <= Missed(s.misses) + Period + a
  /\ s.beat = "announcing" /\ w = NoWord => Heard(p, x, a)

FreshInv == \A p \in Peers : Fresh(p, server[p], wire[p], age[p], expires, since)

LEMMA MissedTimes ==
  /\ Missed(0) = 0
  /\ \A m \in 0 .. MaxMisses :
       /\ Missed(m) \in Nat /\ Missed(m + 1) = Missed(m) + Period + MaxDelay
       /\ Missed(m) + Period + MaxDelay + MaxDelay <= LongestGap
<1> DEFINE turn == Period + MaxDelay
<1>1. turn \in Nat /\ MaxMisses \in Nat /\ MaxDelay \in Nat /\ Period \in Nat
  BY Times
<1>2. \A m \in Nat : Missed(m) = m * turn
  BY DEF Missed
<1>3. LongestGap = (MaxMisses + 1) * turn + MaxDelay
  BY DEF LongestGap
<1>4. turn = Period + MaxDelay
  OBVIOUS
<1> HIDE DEF turn
<1>5. \A m \in Nat : m * turn \in Nat /\ (m + 1) * turn = m * turn + turn
  BY <1>1
<1>6. \A m, n \in Nat : m <= n => m * turn <= n * turn
  BY <1>1
<1>7. 0 * turn = 0
  BY <1>1
<1>8. ASSUME NEW m \in 0 .. MaxMisses
      PROVE  /\ Missed(m) \in Nat /\ Missed(m + 1) = Missed(m) + turn
             /\ Missed(m) + turn + MaxDelay <= LongestGap
  <2>1. m \in Nat /\ m + 1 \in Nat /\ m <= MaxMisses
    BY <1>1
  <2>2. m * turn <= MaxMisses * turn /\ (MaxMisses + 1) * turn = MaxMisses * turn + turn
    BY <1>1, <1>5, <1>6, <2>1
  <2>3. m * turn \in Nat /\ MaxMisses * turn \in Nat
    BY <1>1, <1>5, <2>1
  <2> QED
    BY <1>1, <1>2, <1>3, <1>5, <2>1, <2>2, <2>3
<1> QED
  BY <1>1, <1>2, <1>4, <1>7, <1>8

\* The registry may forget what has expired, for p has not.
LEMMA FreshKept ==
  ASSUME LongestGap <= Ttl, NEW p, NEW s \in Processes, NEW w, NEW a \in 0 .. MaxDelay,
         NEW x, NEW y, NEW t, Fresh(p, s, w, a, x, t), Sound(p, s, w, a, x),
         p \in DOMAIN x /\ x[p] >= 0 => p \in DOMAIN y /\ y[p] = x[p]
  PROVE  Fresh(p, s, w, a, y, t)
<1>1. /\ s.misses \in 0 .. MaxMisses /\ s.sleep \in 0 .. Period
      /\ Missed(s.misses) \in Nat
      /\ Missed(s.misses) + Period + MaxDelay + MaxDelay <= LongestGap
  BY MissedTimes DEF Processes
<1>2. ASSUME NEW n \in Int, n <= LongestGap, Heard(p, x, n) PROVE Heard(p, y, n)
  <2>1. p \in DOMAIN x /\ x[p] \in -1 .. Ttl /\ Ttl - x[p] <= n
    BY <1>2 DEF Heard, Sound
  <2>2. x[p] >= 0
    BY <1>2, <2>1, Times
  <2> QED
    BY <2>1, <2>2 DEF Heard
<1>3. /\ a \in Int /\ a <= LongestGap
      /\ Missed(s.misses) + Period - s.sleep + MaxDelay \in Int
      /\ Missed(s.misses) + Period - s.sleep + MaxDelay <= LongestGap
      /\ Missed(s.misses) + Period + a + MaxDelay \in Int
      /\ Missed(s.misses) + Period + a + MaxDelay <= LongestGap
  <2> DEFINE n == Missed(s.misses)
  <2> HIDE DEF n
  <2> QED
    BY <1>1, Times DEF n
<1> QED
  BY <1>2, <1>3 DEF Fresh

\* A step of another server, or of the registry for one, leaves p fresh.
LEMMA FreshOnlyPeer ==
  ASSUME LongestGap <= Ttl, Inv, FreshInv, NEW p \in Peers, NEW s, NEW w, NEW a,
         server' = [server EXCEPT ![p] = s],
         wire' = [wire EXCEPT ![p] = w],
         age' = [age EXCEPT ![p] = a],
         since' = since,
         \A q \in DOMAIN expires \ {p} :
           expires[q] >= 0 => q \in DOMAIN expires' /\ expires'[q] = expires[q],
         Fresh(p, s, w, a, expires', since)
  PROVE  FreshInv'
<1>1. ASSUME NEW q \in Peers, q # p
      PROVE  Fresh(q, server'[q], wire'[q], age'[q], expires', since')
  <2>1. server'[q] = server[q] /\ wire'[q] = wire[q] /\ age'[q] = age[q]
    BY <1>1 DEF Inv, Shape
  <2>2. /\ Sound(q, server[q], wire[q], age[q], expires)
        /\ server[q] \in Processes /\ age[q] \in 0 .. MaxDelay
    BY PeerState
  <2>3. Fresh(q, server[q], wire[q], age[q], expires, since)
    BY DEF FreshInv
  <2> QED
    BY <1>1, <2>1, <2>2, <2>3, FreshKept
<1>2. server'[p] = s /\ wire'[p] = w /\ age'[p] = a
  BY DEF Inv, Shape
<1> QED
  BY <1>1, <1>2 DEF FreshInv

\* A process in none of these states has no time limit.
LEMMA NothingDue ==
  ASSUME NEW p, NEW s, NEW w, NEW a, NEW x, NEW t,
         s.beat = "none", s.st = "joining" => w # NoWord
  PROVE  Fresh(p, s, w, a, x, t)
BY DEF Fresh

LEMMA HandleFresh ==
  ASSUME LongestGap <= Ttl, Inv, FreshInv, NEW p \in Peers, Handle(p)
  PROVE  FreshInv'
<1> DEFINE s == server[p]
           w == wire[p]
           a == age[p]
<1>1. /\ Sound(p, s, w, a, expires) /\ s \in Processes /\ w \in Words /\ a \in 0 .. MaxDelay
      /\ server = [server EXCEPT ![p] = s] /\ age = [age EXCEPT ![p] = a]
  BY PeerState
<1>2. /\ w # NoWord /\ wire' = [wire EXCEPT ![p] = Tail(w)]
      /\ expires' = IF Head(w) = "announce" THEN Announced(p) ELSE Removed(p)
      /\ UNCHANGED <<server, age, restarts, since>>
  <2>1. wire' = [wire EXCEPT ![p] = Tail(wire[p])]
    BY DEF Handle
  <2> QED
    BY <2>1 DEF Handle, NoWord
<1>3. server' = [server EXCEPT ![p] = s] /\ age' = [age EXCEPT ![p] = a]
  BY <1>1, <1>2
<1>4. \A q \in DOMAIN expires \ {p} : q \in DOMAIN expires' /\ expires'[q] = expires[q]
  BY <1>2 DEF Announced, Removed
<1> HIDE DEF s, w, a
<1>5. Fresh(p, s, Tail(w), a, expires', since)
  <2>1. CASE s.st \in {"joining", "serving"}
    <3>1. w = Hello /\ Tail(w) = NoWord
      BY <1>1, <1>2, <2>1, WireFacts DEF Sound
    <3>2. expires' = Announced(p)
      BY <1>2, <3>1, WireFacts
    <3>3. Heard(p, expires', a)
      BY <1>1, <3>2, Times DEF Announced, Heard
    <3>4. s.beat # "asleep"
      BY <1>1, <1>2 DEF Sound
    <3> QED
      BY <3>1, <3>3, <3>4 DEF Fresh
  <2>2. CASE s.st \notin {"joining", "serving"}
    <3>1. s.beat = "none"
      BY <1>1, <2>2 DEF Sound
    <3> QED
      BY <2>2, <3>1, NothingDue
  <2> QED
    BY <2>1, <2>2
<1> QED
  BY <1>2, <1>3, <1>4, <1>5, FreshOnlyPeer

LEMMA PurgeFresh ==
  ASSUME LongestGap <= Ttl, Inv, expires' = Purged
  PROVE  \A q \in DOMAIN expires :
           expires[q] >= 0 => q \in DOMAIN expires' /\ expires'[q] = expires[q]
<1> SUFFICES ASSUME NEW q \in DOMAIN expires, expires[q] >= 0
             PROVE  q \in DOMAIN expires' /\ expires'[q] = expires[q]
  OBVIOUS
<1>1. q \in Peers
  BY DEF Inv, Shape
<1>2. expires[q] \in -1 .. Ttl
  BY <1>1 DEF Inv, PeersInv, Sound
<1>3. ~(expires[q] < 0)
  BY <1>2, Times
<1> QED
  BY <1>3 DEF Purged, Expired

\* The steps of p after which nothing is due of it, or its word is out.
LEMMA QuietFresh ==
  ASSUME LongestGap <= Ttl, Inv, FreshInv, NEW p \in Peers,
         Choose(p) \/ StartServer(p) \/ Crash(p) \/ Stop(p) \/ Left(p)
  PROVE  FreshInv'
<1>1. /\ Sound(p, server[p], wire[p], age[p], expires) /\ server[p] \in Processes
      /\ wire = [wire EXCEPT ![p] = wire[p]] /\ age = [age EXCEPT ![p] = age[p]]
  BY PeerState
<1>2. CASE Choose(p)
  <2> DEFINE span == ChooseSpan({Offer(q) : q \in DOMAIN Purged}, NumLayers, SpanLen[p])
             s == [Server("loading") EXCEPT !.span = span]
  <2>1. server' = [server EXCEPT ![p] = s] /\ UNCHANGED <<wire, age, since>> /\ expires' = Purged
    BY <1>2 DEF Choose
  <2>2. s.beat = "none" /\ s.st = "loading"
    <3> HIDE DEF span
    <3> QED
      BY LoadingProcess
  <2> HIDE DEF s
  <2>3. Fresh(p, s, wire[p], age[p], expires', since)
    BY <2>2, NothingDue
  <2>4. wire' = [wire EXCEPT ![p] = wire[p]] /\ age' = [age EXCEPT ![p] = age[p]]
    BY <1>1, <2>1
  <2>5. \A q \in DOMAIN expires \ {p} :
          expires[q] >= 0 => q \in DOMAIN expires' /\ expires'[q] = expires[q]
    BY <2>1, PurgeFresh
  <2>6. since' = since
    BY <2>1
  <2>7. server' = [server EXCEPT ![p] = s]
    BY <2>1
  <2> QED
    BY <2>3, <2>4, <2>5, <2>6, <2>7, FreshOnlyPeer
<1>3. CASE StartServer(p)
  <2> DEFINE s == [server[p] EXCEPT !.st = "joining"]
             w == Append(wire[p], "announce")
  <2>1. /\ server' = [server EXCEPT ![p] = s] /\ wire' = [wire EXCEPT ![p] = w]
        /\ age' = [age EXCEPT ![p] = 0] /\ UNCHANGED <<expires, since>>
    BY <1>3 DEF StartServer, Send
  <2>2. wire[p] = NoWord /\ s.beat = "none"
    BY <1>1, <1>3 DEF StartServer, Sound, Processes
  <2>3. w # NoWord
    BY <2>2, WireFacts
  <2> HIDE DEF s, w
  <2>4. Fresh(p, s, w, 0, expires', since)
    BY <2>2, <2>3, NothingDue
  <2> QED
    BY <2>1, <2>4, FreshOnlyPeer
<1>4. CASE Crash(p)
  <2> DEFINE s == [NoBeat(server[p]) EXCEPT !.st = "dead"]
  <2>1. PICK w : wire' = [wire EXCEPT ![p] = w]
    <3>1. UNCHANGED wire \/ wire' = [wire EXCEPT ![p] = << >>]
      BY <1>4 DEF Crash
    <3> QED
      BY <1>1, <3>1
  <2>2. /\ server' = [server EXCEPT ![p] = s]
        /\ age' = [age EXCEPT ![p] = 0] /\ UNCHANGED <<expires, since>>
    BY <1>4 DEF Crash
  <2>3. s.beat = "none" /\ s.st = "dead"
    BY <1>1 DEF NoBeat, Processes
  <2> HIDE DEF s
  <2>4. Fresh(p, s, w, 0, expires', since)
    BY <2>3, NothingDue
  <2> QED
    BY <2>1, <2>2, <2>4, FreshOnlyPeer
<1>5. CASE Stop(p)
  <2> DEFINE s == [NoBeat(server[p]) EXCEPT !.st = "leaving"]
             w == Append(wire[p], "remove")
  <2>1. /\ server' = [server EXCEPT ![p] = s] /\ wire' = [wire EXCEPT ![p] = w]
        /\ age' = [age EXCEPT ![p] = 0] /\ UNCHANGED <<expires, since>>
    BY <1>5 DEF Stop, Send
  <2>2. s.beat = "none" /\ s.st = "leaving"
    BY <1>1 DEF NoBeat, Processes
  <2> HIDE DEF s, w
  <2>3. Fresh(p, s, w, 0, expires', since)
    BY <2>2, NothingDue
  <2> QED
    BY <2>1, <2>3, FreshOnlyPeer
<1>6. CASE Left(p)
  <2> DEFINE s == [server[p] EXCEPT !.st = "left"]
  <2>1. /\ server' = [server EXCEPT ![p] = s] /\ age' = [age EXCEPT ![p] = 0]
        /\ UNCHANGED <<expires, wire, since>>
    BY <1>6 DEF Left
  <2>2. s.beat = "none" /\ s.st = "left"
    BY <1>1, <1>6 DEF Left, Sound, Processes
  <2> HIDE DEF s
  <2>3. Fresh(p, s, wire[p], 0, expires', since) /\ wire' = [wire EXCEPT ![p] = wire[p]]
    BY <1>1, <2>1, <2>2, NothingDue
  <2> QED
    BY <2>1, <2>3, FreshOnlyPeer
<1> QED
  BY <1>2, <1>3, <1>4, <1>5, <1>6

\* The steps of the heartbeat of p.
LEMMA HeartbeatFresh ==
  ASSUME LongestGap <= Ttl, Inv, FreshInv, NEW p \in Peers,
         Joined(p) \/ Beat(p) \/ BeatDone(p) \/ BeatFails(p)
  PROVE  FreshInv'
<1> DEFINE r == server[p]
<1>1. /\ Sound(p, r, wire[p], age[p], expires) /\ r \in Processes
      /\ wire[p] \in Words /\ age[p] \in 0 .. MaxDelay
      /\ wire = [wire EXCEPT ![p] = wire[p]] /\ Fresh(p, r, wire[p], age[p], expires, since)
  BY PeerState DEF FreshInv
<1>2. r.misses \in 0 .. MaxMisses /\ Missed(r.misses) \in Nat /\ Missed(0) = 0
  BY <1>1, MissedTimes DEF Processes
<1>3. p \in DOMAIN expires => expires[p] \in Int
  BY <1>1 DEF Sound
<1>4. CASE Joined(p) \/ BeatDone(p)
  <2>1. PICK m \in {0, r.misses} : server' = [server EXCEPT ![p] =
          [r EXCEPT !.st = "serving", !.beat = "asleep", !.sleep = Period, !.misses = m]]
    <3>1. CASE Joined(p)
      <4>1. [r EXCEPT !.st = "serving", !.beat = "asleep", !.sleep = Period]
              = [r EXCEPT !.st = "serving", !.beat = "asleep", !.sleep = Period,
                          !.misses = r.misses]
        BY <1>1 DEF Processes
      <4> QED
        BY <3>1, <4>1 DEF Joined
    <3>2. CASE BeatDone(p)
      <4>1. r.st = "serving"
        BY <1>1, <3>2 DEF BeatDone, Sound
      <4>2. [r EXCEPT !.beat = "asleep", !.sleep = Period, !.misses = 0]
              = [r EXCEPT !.st = "serving", !.beat = "asleep", !.sleep = Period, !.misses = 0]
        BY <1>1, <4>1 DEF Processes
      <4> QED
        BY <3>2, <4>2 DEF BeatDone
    <3> QED
      BY <1>4, <3>1, <3>2
  <2> DEFINE s == [r EXCEPT !.st = "serving", !.beat = "asleep", !.sleep = Period, !.misses = m]
  <2>2. /\ age' = [age EXCEPT ![p] = 0] /\ UNCHANGED <<expires, wire, since>>
        /\ wire[p] = NoWord
    BY <1>4, WireFacts DEF Joined, BeatDone
  <2>3. Heard(p, expires, age[p])
    BY <1>1, <1>4, <2>2 DEF Fresh, Joined, BeatDone
  <2>4. s.st = "serving" /\ s.beat = "asleep" /\ s.sleep = Period /\ Missed(s.misses) \in Nat
    BY <1>1, <1>2, <2>1, Times, MissedTimes DEF Processes
  <2> HIDE DEF s, r
  <2>5. Heard(p, expires, Missed(s.misses) + Period - s.sleep + MaxDelay)
    BY <1>1, <1>3, <2>3, <2>4, Times DEF Heard
  <2>6. Fresh(p, s, wire[p], 0, expires', since)
    BY <2>2, <2>4, <2>5 DEF Fresh
  <2>7. server' = [server EXCEPT ![p] = s] /\ wire' = [wire EXCEPT ![p] = wire[p]]
    BY <1>1, <2>1, <2>2 DEF s
  <2> QED
    BY <2>2, <2>6, <2>7, FreshOnlyPeer
<1>5. CASE Beat(p)
  <2> DEFINE s == [r EXCEPT !.beat = "announcing"]
             w == Append(wire[p], "announce")
  <2>1. /\ server' = [server EXCEPT ![p] = s] /\ wire' = [wire EXCEPT ![p] = w]
        /\ age' = [age EXCEPT ![p] = 0] /\ UNCHANGED <<expires, since>>
        /\ r.beat = "asleep" /\ r.sleep = 0
    BY <1>5 DEF Beat, Send
  <2>2. r.st = "serving" /\ w # NoWord
    BY <1>1, <2>1, WireFacts DEF Sound
  <2>3. s.st = "serving" /\ s.beat = "announcing" /\ s.misses = r.misses
    BY <1>1, <2>2 DEF Processes
  <2>4. Heard(p, expires, Missed(r.misses) + Period + 0 + MaxDelay)
          \/ since <= Missed(r.misses) + Period + 0
    BY <1>1, <1>2, <2>1, Times DEF Fresh
  <2> HIDE DEF s, w, r
  <2>5. Fresh(p, s, w, 0, expires', since)
    BY <2>1, <2>2, <2>3, <2>4 DEF Fresh
  <2> QED
    BY <2>1, <2>5, FreshOnlyPeer
<1>6. CASE BeatFails(p)
  <2> DEFINE s == [r EXCEPT !.beat = "asleep", !.sleep = Period, !.misses = r.misses + 1]
  <2>1. /\ server' = [server EXCEPT ![p] = s] /\ wire' = [wire EXCEPT ![p] = NoWord]
        /\ age' = [age EXCEPT ![p] = 0] /\ UNCHANGED <<expires, since>>
        /\ r.beat = "announcing" /\ r.st = "serving"
    BY <1>1, <1>6 DEF BeatFails, NoWord, Sound
  <2>2. s.st = "serving" /\ s.beat = "asleep" /\ s.sleep = Period /\ s.misses = r.misses + 1
    BY <1>1, <2>1 DEF Processes
  <2>3. Missed(s.misses) = Missed(r.misses) + Period + MaxDelay
    BY <1>2, <2>2, MissedTimes
  <2> HIDE DEF s, r
  <2>4. \/ Heard(p, expires, Missed(s.misses) + Period - s.sleep + MaxDelay)
        \/ since <= Missed(s.misses) + Period - s.sleep
    <3>1. CASE wire[p] = NoWord
      <4>1. Heard(p, expires, age[p])
        BY <1>1, <2>1, <3>1 DEF Fresh
      <4>2. Heard(p, expires, Missed(s.misses) + Period - s.sleep + MaxDelay)
        BY <1>1, <1>2, <1>3, <2>2, <2>3, <4>1, Times DEF Heard
      <4> QED
        BY <4>2
    <3>2. CASE wire[p] # NoWord
      <4>1. \/ Heard(p, expires, Missed(r.misses) + Period + age[p] + MaxDelay)
            \/ since <= Missed(r.misses) + Period + age[p]
        BY <1>1, <2>1, <3>2 DEF Fresh
      <4>2. since \in Int
        BY Times DEF Inv, Shape
      <4> QED
        BY <1>1, <1>2, <1>3, <2>2, <2>3, <4>1, <4>2, Times DEF Heard
    <3> QED
      BY <3>1, <3>2
  <2>5. Fresh(p, s, NoWord, 0, expires', since)
    BY <2>1, <2>2, <2>4 DEF Fresh
  <2> QED
    BY <2>1, <2>5, FreshOnlyPeer
<1> QED
  BY <1>4, <1>5, <1>6
LEMMA ListFresh ==
  ASSUME LongestGap <= Ttl, Inv, FreshInv, List
  PROVE  FreshInv'
<1>1. expires' = Purged /\ UNCHANGED <<server, wire, age, since>>
  BY DEF List
<1>2. ASSUME NEW p \in Peers PROVE Fresh(p, server[p], wire[p], age[p], expires', since)
  <2>1. /\ Sound(p, server[p], wire[p], age[p], expires)
        /\ server[p] \in Processes /\ age[p] \in 0 .. MaxDelay
        /\ Fresh(p, server[p], wire[p], age[p], expires, since)
    BY PeerState DEF FreshInv
  <2>2. p \in DOMAIN expires /\ expires[p] >= 0 => p \in DOMAIN expires' /\ expires'[p] = expires[p]
    BY <1>1, PurgeFresh
  <2> QED
    BY <2>1, <2>2, FreshKept
<1> QED
  BY <1>1, <1>2 DEF FreshInv

LEMMA RestartFresh ==
  ASSUME Inv, RestartRegistry
  PROVE  FreshInv'
<1>1. server' = [p \in Peers |-> Restarted(server[p])] /\ since' = 0
  <2>1. server' = [p \in Peers |-> Restarted(server[p])]
    BY Zenon DEF RestartRegistry, Restarted
  <2> QED
    BY <2>1 DEF RestartRegistry
<1>2. ASSUME NEW p \in Peers
      PROVE  Fresh(p, Restarted(server[p]), wire'[p], age'[p], expires', 0)
  <2> DEFINE s == Restarted(server[p])
  <2>1. Sound(p, server[p], wire[p], age[p], expires) /\ server[p] \in Processes
    BY PeerState
  <2>2. s.misses \in 0 .. MaxMisses /\ s.sleep \in 0 .. Period
    BY <2>1, Times DEF Processes, Restarted
  <2>3. s.st # "joining" /\ s.beat # "announcing"
    BY <2>1 DEF Processes, Restarted, Sound
  <2> HIDE DEF s
  <2>4. 0 <= Missed(s.misses) + Period - s.sleep
    BY <2>2, MissedTimes, Times
  <2> QED
    BY <2>3, <2>4 DEF Fresh, s
<1> QED
  BY <1>1, <1>2 DEF FreshInv

LEMMA TickFresh ==
  ASSUME Inv, FreshInv, Tick
  PROVE  FreshInv'
<1>1. /\ server' = [p \in Peers |-> Ticked(server[p])] /\ wire' = wire
      /\ DOMAIN expires' = DOMAIN expires
      /\ \A p \in DOMAIN expires :
           expires'[p] = IF expires[p] < 0 THEN expires[p] ELSE expires[p] - 1
      /\ since' \in Int /\ since' <= since + 1
      /\ \A p \in Peers : /\ server[p].beat = "asleep" => server[p].sleep > 0
                          /\ Calling(p) => age'[p] = age[p] + 1
  BY TickFacts, Times
<1>2. ASSUME NEW p \in Peers
      PROVE  Fresh(p, Ticked(server[p]), wire[p], age'[p], expires', since')
  <2> DEFINE s == server[p]
             r == Ticked(s)
             due == Missed(s.misses)
  <2>1. /\ Sound(p, s, wire[p], age[p], expires) /\ s \in Processes /\ age[p] \in 0 .. MaxDelay
        /\ Fresh(p, s, wire[p], age[p], expires, since)
    BY PeerState DEF FreshInv
  <2>2. /\ r.st = s.st /\ r.beat = s.beat /\ r.misses = s.misses
        /\ r.sleep = IF s.sleep > 0 THEN s.sleep - 1 ELSE 0
    BY <2>1, TickedProcess
  <2>3. /\ s.misses \in 0 .. MaxMisses /\ s.sleep \in 0 .. Period /\ age[p] \in Nat
        /\ since \in Nat
    BY <2>1, Times DEF Processes, Inv, Shape
  <2>4. due \in Nat
    BY <2>3, MissedTimes
  <2>5. s.beat = "asleep" => s.sleep > 0
    BY <1>1
  <2>6. s.st = "joining" \/ s.beat = "announcing" => age'[p] = age[p] + 1
    BY <1>1 DEF Calling
  <2> HIDE DEF s, r
  <2>7. ASSUME NEW n \in Int, Heard(p, expires, n) PROVE Heard(p, expires', n + 1)
    <3>1. p \in DOMAIN expires /\ expires[p] \in Int /\ Ttl - expires[p] <= n
      BY <2>1, <2>7 DEF Heard, Sound
    <3> QED
      BY <1>1, <2>7, <3>1, Times DEF Heard
  <2>8. r.st = "joining" /\ wire[p] = NoWord => Heard(p, expires', age'[p])
    BY <2>1, <2>2, <2>3, <2>6, <2>7 DEF Fresh
  <2>9. r.beat = "announcing" /\ wire[p] = NoWord => Heard(p, expires', age'[p])
    BY <2>1, <2>2, <2>3, <2>6, <2>7 DEF Fresh
  <2>10. r.beat = "asleep" =>
           \/ Heard(p, expires', Missed(r.misses) + Period - r.sleep + MaxDelay)
           \/ since' <= Missed(r.misses) + Period - r.sleep
    <3> SUFFICES ASSUME r.beat = "asleep"
                 PROVE  \/ Heard(p, expires', due + Period - r.sleep + MaxDelay)
                        \/ since' <= due + Period - r.sleep
      BY <2>2
    <3>1. r.sleep = s.sleep - 1
      BY <2>2, <2>3, <2>5, Times
    <3>2. \/ Heard(p, expires, due + Period - s.sleep + MaxDelay)
          \/ since <= due + Period - s.sleep
      BY <2>1, <2>2 DEF Fresh
    <3> HIDE DEF due
    <3>3. due + Period - s.sleep + MaxDelay \in Int
      BY <2>3, <2>4, Times
    <3>4. due + Period - r.sleep + MaxDelay = (due + Period - s.sleep + MaxDelay) + 1
      BY <2>3, <2>4, <3>1, Times
    <3>5. since <= due + Period - s.sleep => since' <= due + Period - r.sleep
      BY <1>1, <2>3, <2>4, <3>1, Times
    <3> QED
      BY <2>7, <3>2, <3>3, <3>4, <3>5
  <2>11. r.beat = "announcing" /\ wire[p] # NoWord =>
           \/ Heard(p, expires', Missed(r.misses) + Period + age'[p] + MaxDelay)
           \/ since' <= Missed(r.misses) + Period + age'[p]
    <3> SUFFICES ASSUME r.beat = "announcing", wire[p] # NoWord
                 PROVE  \/ Heard(p, expires', due + Period + age'[p] + MaxDelay)
                        \/ since' <= due + Period + age'[p]
      BY <2>2
    <3>1. age'[p] = age[p] + 1
      BY <2>2, <2>6
    <3>2. \/ Heard(p, expires, due + Period + age[p] + MaxDelay)
          \/ since <= due + Period + age[p]
      BY <2>1, <2>2 DEF Fresh
    <3> HIDE DEF due
    <3>3. due + Period + age[p] + MaxDelay \in Int
      BY <2>3, <2>4, Times
    <3>4. due + Period + age'[p] + MaxDelay = (due + Period + age[p] + MaxDelay) + 1
      BY <2>3, <2>4, <3>1, Times
    <3>5. since <= due + Period + age[p] => since' <= due + Period + age'[p]
      BY <1>1, <2>3, <2>4, <3>1, Times
    <3> QED
      BY <2>7, <3>2, <3>3, <3>4, <3>5
  <2>12. Fresh(p, r, wire[p], age'[p], expires', since')
    BY <2>8, <2>9, <2>10, <2>11 DEF Fresh
  <2> QED
    BY <2>12 DEF r, s
<1> QED
  BY <1>1, <1>2 DEF FreshInv

LEMMA FreshInductive ==
  ASSUME LongestGap <= Ttl, Inv, FreshInv, [Next]_vars
  PROVE  FreshInv'
<1>1. CASE UNCHANGED vars
  BY <1>1 DEF vars, FreshInv
<1>2. ASSUME NEW p \in Peers,
             \/ Handle(p) \/ Choose(p) \/ StartServer(p) \/ Joined(p) \/ Beat(p)
             \/ BeatDone(p) \/ BeatFails(p) \/ Crash(p) \/ Stop(p) \/ Left(p)
      PROVE  FreshInv'
  BY <1>2, HandleFresh, QuietFresh, HeartbeatFresh
<1>3. CASE List
  BY <1>3, ListFresh
<1>4. CASE RestartRegistry
  BY <1>4, RestartFresh
<1>5. CASE Tick
  BY <1>5, TickFresh
<1> QED
  BY <1>1, <1>2, <1>3, <1>4, <1>5 DEF Next

\* A server that serves is listed, except for a while after the registry was
\* restarted: whenever the time between two announcements that get through
\* fits into the ttl.
THEOREM ServingAlwaysListed ==
  ASSUME LongestGap <= Ttl, MaxDelay > 0
  PROVE  Spec => []ServingIsListed
<1>1. Init => FreshInv
  <2> SUFFICES ASSUME Init, NEW p \in Peers
               PROVE  Fresh(p, server[p], wire[p], age[p], expires, since)
    BY DEF FreshInv
  <2>1. server[p].beat = "none" /\ server[p].st = "new"
    BY DEF Init, Server
  <2> QED
    BY <2>1, NothingDue
<1>2. Inv /\ FreshInv => ServingIsListed
  <2> SUFFICES ASSUME Inv, FreshInv, NEW p \in Peers,
                      server[p].st = "serving", since >= LongestGap
               PROVE  Listed(p)
    BY DEF ServingIsListed
  <2> DEFINE s == server[p]
             due == Missed(s.misses)
  <2>1. /\ Sound(p, s, wire[p], age[p], expires) /\ s \in Processes /\ age[p] \in 0 .. MaxDelay
        /\ Fresh(p, s, wire[p], age[p], expires, since)
    BY PeerState DEF FreshInv
  <2>2. /\ s.misses \in 0 .. MaxMisses /\ s.sleep \in 0 .. Period /\ age[p] \in Nat
        /\ age[p] <= MaxDelay /\ since \in Nat
    BY <2>1, Times DEF Processes, Inv, Shape
  <2>3. s.beat \in {"asleep", "announcing"}
    BY <2>1 DEF Sound, Processes
  <2>4. due \in Nat /\ due + Period + MaxDelay + MaxDelay <= LongestGap
    BY <2>2, MissedTimes
  <2> HIDE DEF s
  <2>5. ASSUME NEW n \in Int, n <= LongestGap, Heard(p, expires, n) PROVE Listed(p)
    <3>1. p \in DOMAIN expires /\ expires[p] \in Int /\ Ttl - expires[p] <= n
      BY <2>1, <2>5 DEF Heard, Sound
    <3>2. ~(expires[p] < 0)
      BY <2>5, <3>1, Times
    <3> QED
      BY <3>1, <3>2 DEF Listed, Expired
  <2>6. CASE s.beat = "asleep"
    <3>1. \/ Heard(p, expires, due + Period - s.sleep + MaxDelay)
          \/ since <= due + Period - s.sleep
      BY <2>1, <2>6 DEF Fresh
    <3> HIDE DEF due
    <3>2. /\ due + Period - s.sleep + MaxDelay \in Int
          /\ due + Period - s.sleep + MaxDelay <= LongestGap
          /\ ~(since <= due + Period - s.sleep)
      BY <2>2, <2>4, Times
    <3> QED
      BY <2>5, <3>1, <3>2
  <2>7. CASE s.beat = "announcing" /\ wire[p] # NoWord
    <3>1. \/ Heard(p, expires, due + Period + age[p] + MaxDelay)
          \/ since <= due + Period + age[p]
      BY <2>1, <2>7 DEF Fresh
    <3> HIDE DEF due
    <3>2. /\ due + Period + age[p] + MaxDelay \in Int
          /\ due + Period + age[p] + MaxDelay <= LongestGap
          /\ ~(since <= due + Period + age[p])
      BY <2>2, <2>4, Times
    <3> QED
      BY <2>5, <3>1, <3>2
  <2>8. CASE s.beat = "announcing" /\ wire[p] = NoWord
    <3>1. Heard(p, expires, age[p])
      BY <2>1, <2>8 DEF Fresh
    <3> HIDE DEF due
    <3>2. age[p] \in Int /\ age[p] <= LongestGap
      BY <2>2, <2>4, Times
    <3> QED
      BY <2>5, <3>1, <3>2
  <2> QED
    BY <2>3, <2>6, <2>7, <2>8
<1>3. FreshInv /\ Inv /\ [Next]_vars => FreshInv'
  BY FreshInductive
<1> QED
  BY <1>1, <1>2, <1>3, ServersSound, PTL DEF Spec
-----------------------------------------------------------------------------
(***************************************************************************)
(* A server takes layers where they are needed.  The listing it looks at   *)
(* lies between the servers that serve and those that may be listed: so a  *)
(* layer without any of the latter is a gap of the listing, and the span   *)
(* it chooses has a layer without any of the former.                       *)
(***************************************************************************)

\* The step makes no choice for p.
Settled(p) == server'[p].st = "new" <=> server[p].st = "new"

LEMMA SettledSteps ==
  ASSUME Inv, [Next]_vars
  PROVE  \/ \A p \in Peers : Settled(p)
         \/ \E p \in Peers : Choose(p) /\ \A q \in Peers \ {p} : Settled(q)
<1>1. server \in [Peers -> Processes]
  BY DEF Inv, Shape
<1>2. CASE UNCHANGED vars
  BY <1>2 DEF vars, Settled
<1>3. ASSUME NEW p \in Peers,
             \/ Handle(p) \/ StartServer(p) \/ Joined(p) \/ Beat(p)
             \/ BeatDone(p) \/ BeatFails(p) \/ Crash(p) \/ Stop(p) \/ Left(p)
      PROVE  \A q \in Peers : Settled(q)
  <2>1. CASE Handle(p)
    BY <2>1 DEF Handle, Settled
  <2>2. CASE StartServer(p)
    BY <1>1, <2>2 DEF StartServer, Settled, Processes
  <2>3. CASE Joined(p)
    BY <1>1, <2>3 DEF Joined, Settled, Processes
  <2>4. CASE Beat(p)
    BY <1>1, <2>4 DEF Beat, Settled, Processes
  <2>5. CASE BeatDone(p)
    BY <1>1, <2>5 DEF BeatDone, Settled, Processes
  <2>6. CASE BeatFails(p)
    BY <1>1, <2>6 DEF BeatFails, Settled, Processes
  <2>7. CASE Crash(p)
    BY <1>1, <2>7 DEF Crash, NoBeat, Settled, Processes, Alive
  <2>8. CASE Stop(p)
    BY <1>1, <2>8 DEF Stop, NoBeat, Settled, Processes
  <2>9. CASE Left(p)
    BY <1>1, <2>9 DEF Left, Settled, Processes
  <2> QED
    BY <1>3, <2>1, <2>2, <2>3, <2>4, <2>5, <2>6, <2>7, <2>8, <2>9
<1>4. ASSUME NEW p \in Peers, Choose(p) PROVE \A q \in Peers \ {p} : Settled(q)
  <2> DEFINE s == [Server("loading") EXCEPT
          !.span = ChooseSpan({Offer(q) : q \in DOMAIN Purged}, NumLayers, SpanLen[p])]
  <2>1. server' = [server EXCEPT ![p] = s]
    BY <1>4 DEF Choose
  <2> HIDE DEF s
  <2> QED
    BY <1>1, <2>1 DEF Settled
<1>5. CASE List
  BY <1>5 DEF List, Settled
<1>6. CASE RestartRegistry
  <2>1. server' = [p \in Peers |-> Restarted(server[p])]
    BY <1>6, Zenon DEF RestartRegistry, Restarted
  <2>2. \A p \in Peers :
          Restarted(server[p]).st = "new" <=> server[p].st = "new"
    BY <1>1 DEF Restarted, Processes
  <2> QED
    BY <2>1, <2>2 DEF Settled
<1>7. CASE Tick
  <2>1. server' = [p \in Peers |-> Ticked(server[p])]
    BY <1>7, TickFacts
  <2> QED
    BY <1>1, <2>1, TickedProcess DEF Settled
<1> QED
  BY <1>2, <1>3, <1>4, <1>5, <1>6, <1>7 DEF Next

LEMMA ListingBounds ==
  ASSUME Inv, ServingIsListed
  PROVE  /\ since >= LongestGap => Serving \subseteq DOMAIN Purged
         /\ DOMAIN Purged \subseteq MayBeListed
<1>1. since >= LongestGap => Serving \subseteq DOMAIN Purged
  BY DEF ServingIsListed, Serving, Listed, Purged
<1>2. ASSUME NEW q \in DOMAIN Purged PROVE q \in MayBeListed
  <2> DEFINE s == server[q]
  <2>1. q \in DOMAIN expires /\ q \in Peers /\ ~(expires[q] < 0)
    BY <1>2 DEF Purged, Expired, Inv, Shape
  <2>2. Sound(q, s, wire[q], age[q], expires) /\ s \in Processes
    BY <2>1, PeerState
  <2> HIDE DEF s
  <2>3. /\ s.st \notin {"new", "loading", "left"}
        /\ expires[q] \in -1 .. Ttl /\ (expires[q] >= 0 => s.gone + expires[q] <= Ttl + MaxDelay)
    BY <2>1, <2>2 DEF Sound
  <2>4. s.gone \in Nat
    BY <2>2, Times DEF Processes
  <2>5. s.gone <= Ttl + MaxDelay
    BY <2>1, <2>3, <2>4, Times
  <2>6. s.st \in {"joining"} \cup Alive \/ s.st = "dead"
    BY <2>2, <2>3 DEF Processes, Gone
  <2> QED
    BY <2>1, <2>5, <2>6 DEF MayBeListed, s
<1> QED
  BY <1>1, <1>2

LEMMA ChosenByListing ==
  ASSUME Inv, NEW p \in Peers, Choose(p)
  PROVE  server'[p].span = LeastServed(DOMAIN Purged, p)
<1> DEFINE span == LeastServed(DOMAIN Purged, p)
           s == [Server("loading") EXCEPT !.span = span]
<1>1. server' = [server EXCEPT ![p] = s]
  BY DEF Choose, LeastServed
<1> HIDE DEF span
<1>2. s.span = span
  BY LoadingProcess
<1> HIDE DEF s
<1>3. server'[p] = s
  BY <1>1 DEF Inv, Shape
<1> QED
  BY <1>2, <1>3 DEF span

\* The step of a server that looks at the swarm is Choose.
LEMMA LookIsChoose ==
  ASSUME Inv, [Next]_vars, NEW p \in Peers, server[p].st = "new", server'[p].st = "loading"
  PROVE  Choose(p)
<1>1. ~Settled(p)
  BY DEF Settled
<1> QED
  BY <1>1, SettledSteps

\* A server that joins takes the layers that are least served by a swarm
\* with everybody who serves and nobody who is long gone; under the premises
\* of ServingAlwaysListed, as it cannot see a server that serves unlisted.
THEOREM AlwaysJoinsLeastServed ==
  ASSUME LongestGap <= Ttl, MaxDelay > 0
  PROVE  Spec => JoinsLeastServed
<1> DEFINE Looks(p) ==
             server[p].st = "new" /\ server'[p].st = "loading" /\ since >= LongestGap
           Placed(p) ==
             \E seen \in SUBSET MayBeListed :
               Serving \subseteq seen /\ server'[p].span = LeastServed(seen, p)
<1>1. Inv /\ ServingIsListed /\ [Next]_vars
        => [\A p \in Peers : Looks(p) => Placed(p)]_vars
  <2> SUFFICES ASSUME Inv, ServingIsListed, [Next]_vars, NEW p \in Peers, Looks(p)
               PROVE  Placed(p)
    OBVIOUS
  <2>1. server'[p].span = LeastServed(DOMAIN Purged, p)
    BY LookIsChoose, ChosenByListing
  <2>2. Serving \subseteq DOMAIN Purged /\ DOMAIN Purged \in SUBSET MayBeListed
    BY ListingBounds
  <2> QED
    BY <2>1, <2>2
<1>2. Spec => []ServingIsListed
  BY ServingAlwaysListed
<1> QED
  BY <1>1, <1>2, ServersSound, PTL DEF Spec, JoinsLeastServed

(***************************************************************************)
(* What this is for (choose_span: "the least-served layers"): who joins    *)
(* takes a layer that no running server serves, if there is one that none  *)
(* holds of those who may be listed.                                       *)
(***************************************************************************)
Layers == 0 .. NumLayers - 1

LayersAt(servers) == UNION {LayersOf(Offer(q), NumLayers) : q \in servers}

JoinsWhereNeeded ==
  [][\A p \in Peers :
       server[p].st = "new" /\ server'[p].st = "loading" /\ since >= LongestGap =>
         \/ Layers \subseteq LayersAt(MayBeListed)
         \/ ~(LayersOf(Offer(p)', NumLayers) \subseteq LayersAt(Serving))]_vars

LEMMA ChosenWhereNeeded ==
  ASSUME Inv, ServingIsListed, NEW p \in Peers, Choose(p), since >= LongestGap,
         ~(Layers \subseteq LayersAt(MayBeListed))
  PROVE  ~(LayersOf(Offer(p)', NumLayers) \subseteq LayersAt(Serving))
<1> DEFINE servers == {Offer(q) : q \in DOMAIN Purged}
           span == ChooseSpan(servers, NumLayers, SpanLen[p])
<1>1. SpanLen[p] \in 1 .. NumLayers /\ Swarm(servers, NumLayers)
  BY ListedSwarm
<1>2. server'[p].span = span
  BY ChosenByListing DEF LeastServed
<1>3. LayersOf(Offer(p)', NumLayers) = LayersOf(span, NumLayers)
  BY <1>2 DEF LayersOf, Offer
<1>4. PICK gap \in 0 .. NumLayers - 1 : gap \notin LayersAt(MayBeListed)
  BY DEF Layers
<1>5. \A s \in servers : gap \notin LayersOf(s, NumLayers)
  BY <1>4, ListingBounds DEF LayersAt
<1>6. PICK l \in LayersOf(span, NumLayers) : \A s \in servers : l \notin LayersOf(s, NumLayers)
  <2> HIDE DEF servers
  <2> QED
    BY <1>1, <1>5, ChosenSpanFillsGap
<1>7. l \notin LayersAt(Serving)
  BY <1>6, ListingBounds DEF LayersAt
<1> QED
  BY <1>3, <1>6, <1>7

\* A server that joins takes a layer that no running server serves, if there
\* is one that nobody holds who may be listed; with the same premises.
THEOREM JoinsAlwaysWhereNeeded ==
  ASSUME LongestGap <= Ttl, MaxDelay > 0
  PROVE  Spec => JoinsWhereNeeded
<1> DEFINE Looks(p) ==
             server[p].st = "new" /\ server'[p].st = "loading" /\ since >= LongestGap
           Needed(p) ==
             \/ Layers \subseteq LayersAt(MayBeListed)
             \/ ~(LayersOf(Offer(p)', NumLayers) \subseteq LayersAt(Serving))
<1>1. Inv /\ ServingIsListed /\ [Next]_vars
        => [\A p \in Peers : Looks(p) => Needed(p)]_vars
  <2> SUFFICES ASSUME Inv, ServingIsListed, [Next]_vars, NEW p \in Peers, Looks(p)
               PROVE  Needed(p)
    OBVIOUS
  <2> QED
    BY LookIsChoose, ChosenWhereNeeded
<1>2. Spec => []ServingIsListed
  BY ServingAlwaysListed
<1> QED
  BY <1>1, <1>2, ServersSound, PTL DEF Spec, JoinsWhereNeeded

=============================================================================
