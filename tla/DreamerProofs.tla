---------------------------- MODULE DreamerProofs ----------------------------
(***************************************************************************)
(* Theorems about a policy over the swarm, for every number of servers,    *)
(* steps, imaginations and failures.                                       *)
(***************************************************************************)
EXTENDS DreamerInvariant, FiniteSetTheorems, SequenceTheorems, TLAPS

-----------------------------------------------------------------------------
(***************************************************************************)
(* Lemmas about the data: what the operators on tables, logs and requests  *)
(* return.                                                                 *)
(***************************************************************************)
LEMMA PutType ==
  ASSUME NEW t, IsTable(t), NEW sid \in Sids, NEW b \in States PROVE IsTable(Put(t, sid, b))
  BY DEF IsTable, Put

LEMMA DropType ==
  ASSUME NEW t, IsTable(t), NEW sids PROVE IsTable(Drop(t, sids))
  BY DEF IsTable, Drop

LEMMA EmptyTable == IsTable(<< >>)
<1> DEFINE none == [i \in {} |-> i]
<1>1. << >> = none /\ DOMAIN none = {}
  OBVIOUS
<1>2. none \in [{} -> States]
  OBVIOUS
<1> HIDE DEF none
<1> QED
  BY <1>1, <1>2 DEF IsTable

LEMMA NoOps == << >> \in States
  BY EmptySeq DEF States

LEMMA LogType ==
  ASSUME NEW b \in States, NEW op \in Ops
  PROVE  Append(b, op) \in States /\ Append(b, op) # << >>
  BY AppendProperties DEF States

LEMMA RequestType ==
  ASSUME NEW a \in Addrs, NEW sid \in Sids, NEW method \in {"observe", "imagine", "fork"},
         NEW n \in Nat
  PROVE  /\ Request(a, sid, method, n) \in Requests
         /\ Request(a, sid, method, n).live
         /\ Request(a, sid, method, n).addr = a
         /\ Request(a, sid, method, n).sid = sid
         /\ Request(a, sid, method, n).method = method
         /\ Request(a, sid, method, n).n = n
         /\ Request(a, sid, method, n).st \in {"sent", "lost"}
  BY NoOps DEF Request, Requests

LEMMA TablesUpdated ==
  ASSUME ServersTypeOK, NEW a \in Addrs, NEW t, IsTable(t),
         sessions' = [sessions EXCEPT ![a] = t]
  PROVE  /\ sessions' = [c \in Addrs |-> sessions'[c]]
         /\ \A c \in Addrs : IsTable(sessions'[c])
<1>1. sessions = [c \in Addrs |-> sessions[c]] /\ \A c \in Addrs : IsTable(sessions[c])
  BY DEF ServersTypeOK
<1>2. \A c \in Addrs : sessions'[c] = IF c = a THEN t ELSE sessions[c]
  BY <1>1
<1> QED
  BY <1>1, <1>2

\* A log is replayed one operation after the other.
LEMMA ReplayPrefix ==
  ASSUME NEW ops \in States, NEW i \in 1 .. Len(ops)
  PROVE  /\ SubSeq(ops, 1, i - 1) \in States
         /\ ops[i] \in Ops
         /\ Append(SubSeq(ops, 1, i - 1), ops[i]) = SubSeq(ops, 1, i)
<1>1. Len(ops) \in Nat /\ ops[i] \in Ops /\ \A m \in 1 .. i - 1 : ops[m] \in Ops
  BY ElementOfSeq, LenProperties DEF States
<1>2. SubSeq(ops, 1, i - 1) \in States
  BY <1>1, SubSeqProperties DEF States
<1>3. SubSeq(ops, 1, i) = SubSeq(ops, 1, i - 1) \o << ops[i] >>
  BY <1>1, SubSeqRecursiveSecond DEF States
<1>4. Append(SubSeq(ops, 1, i - 1), ops[i]) = SubSeq(ops, 1, i - 1) \o << ops[i] >>
  BY <1>1, <1>2, AppendIsConcat DEF States
<1> QED
  BY <1>1, <1>2, <1>3, <1>4

\* Who waits for one call, waits for one.
LEMMA CountLive ==
  ASSUME NEW R, NEW W \in BOOLEAN,
         \A r \in R : r.live => W,
         \A r, s \in R : r.live /\ s.live => r = s,
         W => \E r \in R : r.live
  PROVE  Cardinality({r \in R : r.live}) = IF W THEN 1 ELSE 0
<1>1. CASE W
  <2>1. PICK r \in R : r.live
    BY <1>1
  <2>2. {q \in R : q.live} = {r}
    BY <2>1
  <2> QED
    BY <1>1, <2>2, FS_Singleton
<1>2. CASE ~W
  <2>1. {q \in R : q.live} = {}
    BY <1>2
  <2> QED
    BY <1>2, <2>1, FS_EmptySet
<1> QED
  BY <1>1, <1>2

-----------------------------------------------------------------------------
(***************************************************************************)
(* Types.                                                                  *)
(***************************************************************************)
LEMMA ServerTypes == ASSUME ServersTypeOK, ServerStep PROVE ServersTypeOK'
<1> DEFINE Sound(r) ==
      r \in Requests /\ (r.st \in {"queued", "computed"} => r.method # "fork")
<1>0. /\ inc \in [Addrs -> 0 .. MaxInc] /\ up \in [Addrs -> BOOLEAN] /\ rpcs \subseteq Requests
      /\ \A a \in Addrs : up[a] => inc[a] > 0
      /\ sessions = [a \in Addrs |-> sessions[a]] /\ \A a \in Addrs : IsTable(sessions[a])
      /\ MaxInc \in Nat
      /\ \A r \in rpcs : Sound(r)
  BY RSSMBoundsAreValid DEF ServersTypeOK
<1>1. ASSUME UNCHANGED <<inc, up>>, \A r \in rpcs' : Sound(r),
             \/ UNCHANGED sessions
             \/ \E a \in Addrs : \E t : IsTable(t) /\ sessions' = [sessions EXCEPT ![a] = t]
      PROVE  ServersTypeOK'
  BY <1>0, <1>1, TablesUpdated DEF ServersTypeOK
<1>2. ASSUME NEW r \in rpcs,
             Enqueue(r) \/ ObserveNew(r, Idle(r.addr)) \/ Unknown(r) \/ Compute(r)
             \/ WriteBack(r) \/ Fork(r) \/ Cancel(r)
      PROVE  ServersTypeOK'
  <2>0. /\ r \in Requests /\ r.addr \in Addrs /\ r.sid \in Sids /\ r.n \in Sids
        /\ r.out \in States /\ IsTable(sessions[r.addr])
    BY <1>0 DEF Requests, Sids
  <2>1. /\ \A st \in {"refused", "done"} : Sound([r EXCEPT !.st = st])
        /\ r.method # "fork" => Sound([r EXCEPT !.st = "queued"])
    BY <2>0 DEF Requests
  <2>2. \A s : Sound(s) /\ (Answer(r, s) \/ Becomes(r, s)) => \A q \in rpcs' : Sound(q)
    <3> HIDE DEF Sound
    <3> QED
      BY <1>0 DEF Answer, Becomes
  <2>3. CASE Enqueue(r)
    BY <1>1, <2>1, <2>2, <2>3 DEF Enqueue
  <2>4. CASE ObserveNew(r, Idle(r.addr))
    <3>1. PICK gone :
            \/ /\ Answer(r, [r EXCEPT !.st = "refused"])
               /\ sessions' = [sessions EXCEPT ![r.addr] = Drop(sessions[r.addr], gone)]
            \/ /\ Becomes(r, [r EXCEPT !.st = "queued"])
               /\ sessions' = [sessions EXCEPT ![r.addr] =
                                 Put(Drop(sessions[r.addr], gone), r.sid, << >>)]
      BY <2>4 DEF ObserveNew
    <3> DEFINE kept == Drop(sessions[r.addr], gone)
    <3>2. IsTable(kept) /\ IsTable(Put(kept, r.sid, << >>))
      BY <2>0, DropType, PutType, NoOps
    <3>3. \A q \in rpcs' : Sound(q)
      <4>1. r.method # "fork"
        BY <2>4 DEF ObserveNew
      <4> QED
        BY <2>1, <2>2, <3>1, <4>1
    <3> QED
      BY <1>1, <2>0, <2>4, <3>1, <3>2, <3>3 DEF ObserveNew
  <2>5. CASE Unknown(r)
    BY <1>1, <2>1, <2>2, <2>5 DEF Unknown
  <2>6. CASE Compute(r)
    <3> DEFINE out == Append(sessions[r.addr][r.sid], [method |-> r.method, n |-> r.n])
    <3>1. r.method \in {"observe", "imagine"}
      BY <1>0, <2>6 DEF Compute, Requests
    <3>2. sessions[r.addr][r.sid] \in States /\ [method |-> r.method, n |-> r.n] \in Ops
      BY <2>0, <2>6, <3>1 DEF Compute, IsTable, Ops, Sids
    <3>3. out \in States
      BY <3>2, LogType
    <3>4. Becomes(r, [r EXCEPT !.st = "computed", !.out = out])
      BY <2>6 DEF Compute
    <3> HIDE DEF out
    <3>5. Sound([r EXCEPT !.st = "computed", !.out = out])
      BY <2>0, <3>1, <3>3 DEF Requests
    <3> QED
      BY <1>1, <2>2, <2>6, <3>4, <3>5 DEF Compute
  <2>7. CASE WriteBack(r)
    <3>1. IsTable(Put(sessions[r.addr], r.sid, r.out))
      BY <2>0, PutType
    <3> QED
      BY <1>1, <2>0, <2>1, <2>2, <2>7, <3>1 DEF WriteBack
  <2>8. CASE Fork(r)
    <3>1. sessions[r.addr][r.sid] \in States
      BY <2>0, <2>8 DEF Fork, IsTable
    <3>2. IsTable(Put(sessions[r.addr], r.n, sessions[r.addr][r.sid]))
      BY <2>0, <3>1, PutType
    <3> QED
      BY <1>1, <2>0, <2>1, <2>2, <2>8, <3>2 DEF Fork
  <2>9. CASE Cancel(r)
    BY <1>0, <1>1, <2>9 DEF Cancel
  <2> QED
    BY <1>2, <2>3, <2>4, <2>5, <2>6, <2>7, <2>8, <2>9
<1>3. ASSUME NEW a \in Addrs, Collect(a, Idle(a)) PROVE ServersTypeOK'
  <2>1. PICK gone : sessions' = [sessions EXCEPT ![a] = Drop(sessions[a], gone)]
    BY <1>3 DEF Collect
  <2> QED
    BY <1>0, <1>1, <1>3, <2>1, DropType DEF Collect
<1>4. ASSUME NEW a \in Addrs, Crash(a) PROVE ServersTypeOK'
  <2>1. /\ up' \in [Addrs -> BOOLEAN] /\ \A b \in Addrs : up'[b] => up[b]
        /\ UNCHANGED inc
        /\ sessions' = [sessions EXCEPT ![a] = Drop(sessions[a], DOMAIN sessions[a])]
    BY <1>0, <1>4 DEF Crash
  <2>2. IsTable(Drop(sessions[a], DOMAIN sessions[a]))
    BY <1>0, DropType
  <2>3. \A r \in rpcs' : Sound(r)
    <3>1. \A r \in rpcs : Sound([r EXCEPT !.st = "lost"])
      BY <1>0 DEF Requests
    <3> QED
      BY <1>0, <1>4, <3>1 DEF Crash
  <2> QED
    BY <1>0, <2>1, <2>2, <2>3, TablesUpdated DEF ServersTypeOK
<1>5. ASSUME NEW a \in Addrs, Start(a) PROVE ServersTypeOK'
  <2>1. inc' \in [Addrs -> 0 .. MaxInc] /\ up' \in [Addrs -> BOOLEAN]
    BY <1>0, <1>5 DEF Start
  <2>2. \A b \in Addrs : up'[b] => inc'[b] > 0
    BY <1>0, <1>5 DEF Start
  <2> QED
    BY <1>0, <1>5, <2>1, <2>2 DEF Start, ServersTypeOK
<1> QED
  BY <1>2, <1>3, <1>4, <1>5 DEF ServerStep

\* The session that is called, and where.
LEMMA TheSession ==
  ASSUME ClientTypeOK
  PROVE  /\ who \in Both /\ me \in Sessions /\ me.ops \in States /\ me.sid \in Sids
         /\ me.failures \in Nat /\ me.exclude \subseteq Peers
         /\ me.attached => me.peer \in Peers /\ me.peer.addr \in Addrs
         /\ \A s \in Both : sess[s] \in Sessions
         /\ \A s \in Both :
              /\ sess[s].ops \in States /\ sess[s].sid \in Sids /\ sess[s].sid \in Nat
              /\ sess[s].attached \in BOOLEAN
              /\ sess[s].attached => sess[s].peer \in Peers /\ sess[s].peer.addr \in Addrs
         /\ sess = [s \in Both |-> sess[s]]
         /\ drawn \in Nat
  BY DEF ClientTypeOK, me, Sessions, Both, Peers, Sids

\* One session is replaced.
LEMMA Replaced ==
  ASSUME ClientTypeOK, NEW s \in Both, NEW v \in Sessions, v.attached => v.peer # NoPeer,
         sess' = [sess EXCEPT ![s] = v]
  PROVE  /\ sess' \in [{"acting", "dream"} -> Sessions]
         /\ \A t \in {"acting", "dream"} : sess'[t].attached => sess'[t].peer # NoPeer
         /\ sess'[s] = v /\ \A t \in Both : t # s => sess'[t] = sess[t]
<1>1. sess \in [Both -> Sessions]
  BY DEF ClientTypeOK, Both
<1>2. \A t \in Both : sess'[t] = IF t = s THEN v ELSE sess[t]
  BY <1>1
<1> QED
  BY <1>1, <1>2 DEF ClientTypeOK, Both

LEMMA FailEffect ==
  ASSUME ClientTypeOK, Fail, me.peer = NoPeer => Count(me) > MaxFailures
  PROVE  /\ sess' \in [{"acting", "dream"} -> Sessions]
         /\ \A t \in {"acting", "dream"} : sess'[t].attached => sess'[t].peer # NoPeer
         /\ \A t \in Both : t # who => sess'[t] = sess[t]
         /\ sess'[who].ops = me.ops /\ sess'[who].peer = me.peer /\ sess'[who].sid = me.sid
         /\ \/ /\ sess'[who].attached = me.attached
               /\ raised' = (raised \/ ~dreaming) /\ Raise
            \/ /\ ~sess'[who].attached
               /\ pc' = "call" /\ raised' = raised
         /\ left' = IF me.attached THEN left \cup {me.sid} ELSE left
<1>0. /\ who \in Both /\ me \in Sessions /\ Count(me) \in Nat /\ MaxFailures \in Nat
      /\ me.exclude \subseteq Peers /\ me.peer \in Peers \cup {NoPeer}
      /\ me.attached => me.peer # NoPeer
  BY TheSession, SessionBoundsAreValid DEF ClientTypeOK, Count, SessionBounds, me, Both, Sessions
<1>1. CASE Count(me) > MaxFailures
  <2> DEFINE v == [me EXCEPT !.failures = Count(me)]
  <2>1. sess' = [sess EXCEPT ![who] = v]
    BY <1>1 DEF Fail, me
  <2>2. v \in Sessions /\ v.ops = me.ops /\ v.peer = me.peer /\ v.sid = me.sid
        /\ v.attached = me.attached
    BY <1>0 DEF Sessions
  <2> HIDE DEF v
  <2>3. v.attached => v.peer # NoPeer
    BY <1>0, <2>2
  <2> QED
    BY <1>0, <1>1, <2>1, <2>2, <2>3, Replaced DEF Fail
<1>2. CASE ~(Count(me) > MaxFailures)
  <2> DEFINE v == [me EXCEPT !.failures = Count(me), !.attached = FALSE,
                             !.exclude = me.exclude \cup {me.peer}]
  <2>1. sess' = [sess EXCEPT ![who] = v]
    BY <1>2 DEF Fail, me
  <2>2. me.peer \in Peers
    BY <1>0, <1>2
  <2>3. v \in Sessions /\ v.ops = me.ops /\ v.peer = me.peer /\ v.sid = me.sid /\ ~v.attached
    BY <1>0, <2>2 DEF Sessions
  <2> HIDE DEF v
  <2> QED
    BY <1>0, <1>2, <2>1, <2>3, Replaced DEF Fail
<1> QED
  BY <1>1, <1>2

AttachedTo(s, p, sid) == [s EXCEPT !.peer = p, !.attached = TRUE, !.sid = sid]

LEMMA AttachedFields ==
  ASSUME NEW s \in Sessions, NEW p, NEW sid
  PROVE  /\ AttachedTo(s, p, sid).ops = s.ops /\ AttachedTo(s, p, sid).attached
         /\ AttachedTo(s, p, sid).peer = p /\ AttachedTo(s, p, sid).sid = sid
  BY DEF AttachedTo, Sessions

\* Adopt and Attach attach a session, Log logs, a dream and close() start afresh.
LEMMA AttachEffect ==
  ASSUME ClientTypeOK, NEW s \in Both, NEW p \in Peers, NEW sid \in Sids,
         sess' = [sess EXCEPT ![s] = AttachedTo(sess[s], p, sid)]
  PROVE  /\ sess' \in [{"acting", "dream"} -> Sessions]
         /\ \A t \in {"acting", "dream"} : sess'[t].attached => sess'[t].peer # NoPeer
         /\ \A t \in Both : t # s => sess'[t] = sess[t]
         /\ sess'[s].ops = sess[s].ops /\ sess'[s].attached
         /\ sess'[s].peer = p /\ sess'[s].sid = sid
<1> DEFINE v == AttachedTo(sess[s], p, sid)
<1>1. v \in Sessions /\ v.ops = sess[s].ops /\ v.peer = p /\ v.sid = sid /\ v.attached
  BY TheSession DEF Sessions, AttachedTo
<1>2. sess' = [sess EXCEPT ![s] = v] /\ p # NoPeer
  BY SessionBoundsAreValid DEF SessionBounds
<1> HIDE DEF v
<1> QED
  BY <1>1, <1>2, Replaced

LEMMA LogEffect ==
  ASSUME ClientTypeOK, NEW op \in Ops, Log(op)
  PROVE  /\ sess' \in [{"acting", "dream"} -> Sessions]
         /\ \A t \in {"acting", "dream"} : sess'[t].attached => sess'[t].peer # NoPeer
         /\ \A t \in Both : t # who => sess'[t] = sess[t]
         /\ sess'[who].ops = Append(me.ops, op) /\ sess'[who].attached = me.attached
         /\ sess'[who].peer = me.peer /\ sess'[who].sid = me.sid
<1> DEFINE ops == Append(me.ops, op)
           v == [me EXCEPT !.ops = ops]
<1>1. sess' = [sess EXCEPT ![who] = v]
  BY DEF Log, me
<1>2. ops \in States
  BY TheSession, LogType
<1> HIDE DEF ops
<1>3. v \in Sessions /\ v.ops = ops /\ v.peer = me.peer /\ v.sid = me.sid
      /\ v.attached = me.attached
  BY <1>2, TheSession DEF Sessions
<1> HIDE DEF v
<1>4. v.attached => v.peer # NoPeer
  BY <1>3, TheSession DEF ClientTypeOK, me, Both
<1> QED
  BY <1>1, <1>3, <1>4, TheSession, Replaced DEF ops

LEMMA InheritEffect ==
  ASSUME ClientTypeOK, sess' = [sess EXCEPT !["dream"] = Inherit(sess["acting"])]
  PROVE  /\ sess' \in [{"acting", "dream"} -> Sessions]
         /\ \A t \in {"acting", "dream"} : sess'[t].attached => sess'[t].peer # NoPeer
         /\ sess'["acting"] = sess["acting"]
         /\ sess'["dream"].ops = sess["acting"].ops /\ ~sess'["dream"].attached
<1> DEFINE v == Inherit(sess["acting"])
<1>1. v \in Sessions /\ v.ops = sess["acting"].ops /\ ~v.attached
  BY DEF ClientTypeOK, Inherit, NewSession, Sessions, Sids
<1> HIDE DEF v
<1> QED
  BY <1>1, Replaced DEF Both, v

LEMMA DetachEffect ==
  ASSUME ClientTypeOK, NEW s \in Both, sess' = [sess EXCEPT ![s].attached = FALSE]
  PROVE  /\ sess' \in [{"acting", "dream"} -> Sessions]
         /\ \A t \in {"acting", "dream"} : sess'[t].attached => sess'[t].peer # NoPeer
         /\ \A t \in Both : t # s => sess'[t] = sess[t]
         /\ sess'[s].ops = sess[s].ops /\ ~sess'[s].attached
<1> DEFINE v == [sess[s] EXCEPT !.attached = FALSE]
<1>1. v \in Sessions /\ v.ops = sess[s].ops /\ ~v.attached
  BY TheSession DEF Sessions
<1>2. sess' = [sess EXCEPT ![s] = v]
  OBVIOUS
<1> HIDE DEF v
<1> QED
  BY <1>1, <1>2, Replaced

\* A call is sent, answered, refused or given up.
LEMMA RpcsTyped ==
  ASSUME ServersTypeOK, UNCHANGED <<inc, up, sessions>>,
         \A r \in rpcs' : r \in rpcs \/ (r \in Requests /\ r.st \in {"sent", "lost"})
                          \/ \E q \in rpcs : r = [q EXCEPT !.live = FALSE]
  PROVE  ServersTypeOK'
<1> DEFINE Sound(r) ==
      r \in Requests /\ (r.st \in {"queued", "computed"} => r.method # "fork")
<1>1. \A q \in rpcs : Sound(q) /\ Sound([q EXCEPT !.live = FALSE])
  BY DEF ServersTypeOK, Requests
<1>2. \A r \in Requests : r.st \in {"sent", "lost"} => Sound(r)
  OBVIOUS
<1> HIDE DEF Sound
<1>3. \A r \in rpcs' : Sound(r)
  BY <1>1, <1>2
<1> QED
  BY <1>3 DEF ServersTypeOK, Sound

LEMMA SendTyped ==
  ASSUME ServersTypeOK, ClientTypeOK, me.attached, UNCHANGED <<inc, up, sessions>>,
         NEW method \in {"observe", "imagine", "fork"}, NEW n \in Nat, Send(method, n)
  PROVE  /\ ServersTypeOK'
         /\ \E r \in Requests :
              /\ rpcs' = rpcs \cup {r} /\ r.live
              /\ r.addr = me.peer.addr /\ r.sid = me.sid
              /\ r.method = method /\ r.n = n /\ r.st \in {"sent", "lost"}
<1> DEFINE r == Request(me.peer.addr, me.sid, method, n)
<1>1. /\ r \in Requests /\ r.live /\ r.addr = me.peer.addr /\ r.sid = me.sid
      /\ r.method = method /\ r.n = n /\ r.st \in {"sent", "lost"}
  BY TheSession, RequestType
<1>2. rpcs' = rpcs \cup {r}
  BY DEF Send
<1> HIDE DEF r
<1> QED
  BY <1>1, <1>2, RpcsTyped

LEMMA ClientTypes ==
  ASSUME ServersTypeOK, ClientTypeOK, PolicyInv, ClientStep
  PROVE  ServersTypeOK' /\ ClientTypeOK'
<1>0. /\ who \in Both /\ me \in Sessions /\ me.ops \in States /\ me.sid \in Sids
      /\ me.attached => me.peer \in Peers /\ me.peer.addr \in Addrs
      /\ {k, drawn, acts, dreamt, j} \subseteq Nat /\ left \subseteq Sids
      /\ drawn \in Sids /\ Len(me.ops) \in Nat
  BY TheSession, LenProperties DEF ClientTypeOK, Sids, States
<1>1. CASE Act \/ Dream
  <2>1. todo' \in Ops
    BY <1>0, <1>1 DEF Act, Dream, Op, Ops
  <2> QED
    BY <1>1, <2>1
    DEF Act, Dream, ServersTypeOK, ClientTypeOK, serverVars, policyVars, resultVars, me
<1>2. CASE Imagine
  <2>1. /\ sess' \in [{"acting", "dream"} -> Sessions]
        /\ \A t \in {"acting", "dream"} : sess'[t].attached => sess'[t].peer # NoPeer
    BY <1>2, InheritEffect DEF Imagine
  <2>2. dreamt + 1 \in Nat
    BY <1>0
  <2> QED
    BY <1>2, <2>1, <2>2 DEF Imagine, ServersTypeOK, ClientTypeOK, serverVars, resultVars
<1>3. CASE SendFork
  <2>1. me.attached
    BY <1>3 DEF SendFork, PolicyInv, me
  <2>2. ServersTypeOK'
    BY <1>0, <1>3, <2>1, SendTyped DEF SendFork
  <2> QED
    BY <1>3, <2>2 DEF SendFork, ClientTypeOK, policyVars, sessionVars, resultVars
<1>4. CASE SendOp
  <2>1. todo.method \in {"observe", "imagine"} /\ todo.n \in Nat
    BY DEF ClientTypeOK, Ops
  <2>2. ServersTypeOK'
    BY <1>4, <2>1, SendTyped DEF SendOp
  <2> QED
    BY <1>4, <2>2 DEF SendOp, ClientTypeOK, policyVars, sessionVars, resultVars
<1>5. CASE SendReplay
  <2>1. k \in 1 .. Len(me.ops) /\ me.attached
    BY <1>5 DEF SendReplay, ClientTypeOK
  <2>2. me.ops[k].method \in {"observe", "imagine"} /\ me.ops[k].n \in Nat
    BY <1>0, <2>1, ReplayPrefix DEF Ops
  <2>3. ServersTypeOK'
    BY <1>5, <2>1, <2>2, SendTyped DEF SendReplay
  <2> QED
    BY <1>5, <2>1, <2>3 DEF SendReplay, ClientTypeOK, policyVars, sessionVars, resultVars, me
<1>6. CASE Attach
  <2>1. PICK p \in listed : sess' = [sess EXCEPT ![who] = AttachedTo(sess[who], p, drawn)]
    BY <1>6 DEF Attach, AttachedTo
  <2>2. p \in Peers
    BY DEF ClientTypeOK
  <2>3. /\ sess' \in [{"acting", "dream"} -> Sessions]
        /\ \A t \in {"acting", "dream"} : sess'[t].attached => sess'[t].peer # NoPeer
        /\ sess'[who].attached /\ sess'[who].ops = me.ops
    BY <1>0, <2>1, <2>2, AttachEffect DEF me
  <2>4. drawn + 1 \in Nat /\ 1 \in Nat
    BY <1>0
  <2>5. me.ops # << >> => k' \in 1 .. Len(me.ops)
    <3>1. me.ops # << >> => Len(me.ops) \in Nat \ {0}
      BY <1>0, EmptySeq DEF States
    <3> QED
      BY <1>6, <3>1 DEF Attach, ReplayFrom
  <2> QED
    BY <1>6, <2>3, <2>4, <2>5
    DEF Attach, ReplayFrom, ServersTypeOK, ClientTypeOK, serverVars, policyVars, resultVars, me
<1>7. CASE LookupFails \/ \E r \in rpcs : CallFails(r)
  <2>1. CASE LookupFails /\ me.peer = NoPeer /\ Count(me) <= MaxFailures
    <3> DEFINE v == [me EXCEPT !.failures = Count(me)]
    <3>1. sess' = [sess EXCEPT ![who] = v]
      BY <2>1 DEF LookupFails, me
    <3>2. Count(me) \in Nat
      BY TheSession DEF Count
    <3>3. v \in Sessions /\ v.attached = me.attached
      BY <1>0, <3>2 DEF Sessions
    <3> HIDE DEF v
    <3>4. ~v.attached
      BY <2>1, <3>3 DEF LookupFails
    <3>5. /\ sess' \in [{"acting", "dream"} -> Sessions]
          /\ \A t \in {"acting", "dream"} : sess'[t].attached => sess'[t].peer # NoPeer
      BY <1>0, <3>1, <3>3, <3>4, Replaced
    <3> QED
      BY <2>1, <3>5
      DEF LookupFails, Raise, ServersTypeOK, ClientTypeOK, serverVars, policyVars
  <2>2. ASSUME Fail, me.peer = NoPeer => Count(me) > MaxFailures,
               UNCHANGED <<listed, policyVars, who, todo, k, drawn, feat>>
        PROVE  ClientTypeOK'
    <3>1. /\ sess' \in [{"acting", "dream"} -> Sessions]
          /\ \A t \in {"acting", "dream"} : sess'[t].attached => sess'[t].peer # NoPeer
          /\ left' \subseteq Sids /\ raised' \in BOOLEAN
          /\ pc' \in {"idle", "close", "call"}
      BY <1>0, <2>2, FailEffect DEF Raise, ClientTypeOK
    <3> QED
      BY <2>2, <3>1 DEF ClientTypeOK, policyVars
  <2>3. CASE LookupFails /\ ~(me.peer = NoPeer /\ Count(me) <= MaxFailures)
    <3>1. Count(me) \in Nat /\ MaxFailures \in Nat
      BY TheSession, SessionBoundsAreValid DEF Count, SessionBounds
    <3>2. ServersTypeOK'
      BY <2>3 DEF LookupFails, ServersTypeOK, serverVars
    <3> QED
      BY <2>2, <2>3, <3>1, <3>2 DEF LookupFails
  <2>4. ASSUME NEW r \in rpcs, CallFails(r) PROVE ServersTypeOK' /\ ClientTypeOK'
    <3>1. me.attached /\ me.peer # NoPeer
      BY <2>4 DEF CallFails, PolicyInv, ClientTypeOK, me
    <3>2. ServersTypeOK'
      BY <2>4, RpcsTyped DEF CallFails, Failed, Abandoned
    <3> QED
      BY <2>2, <2>4, <3>1, <3>2 DEF CallFails
  <2> QED
    BY <1>7, <2>1, <2>3, <2>4
<1>8. CASE NoServer
  BY <1>8
  DEF NoServer, Raise, ServersTypeOK, ClientTypeOK, serverVars, policyVars, sessionVars,
      resultVars
<1>9. CASE BeginClose
  BY <1>9
  DEF BeginClose, ServersTypeOK, ClientTypeOK, serverVars, policyVars, sessionVars, resultVars
<1>10. CASE EndClose
  <2> DEFINE it == IF dreaming THEN "dream" ELSE "acting"
  <2>1. /\ sess' \in [{"acting", "dream"} -> Sessions]
        /\ \A t \in {"acting", "dream"} : sess'[t].attached => sess'[t].peer # NoPeer
    BY <1>10, DetachEffect DEF EndClose, Both
  <2>2. left' \subseteq Sids
    BY <1>0, <1>10, TheSession DEF EndClose, Both
  <2>3. ServersTypeOK'
    <3>1. CASE UNCHANGED sessions
      BY <1>10, <3>1 DEF EndClose, ServersTypeOK
    <3>2. CASE sess[it].attached /\ Close(sess[it].peer.addr, sess[it].sid)
      <4> DEFINE a == sess[it].peer.addr
                 t == Drop(sessions[a], {sess[it].sid})
      <4>1. a \in Addrs
        BY <3>2, TheSession DEF Both
      <4>2. IsTable(t)
        BY <4>1, DropType DEF ServersTypeOK
      <4>3. sessions' = [sessions EXCEPT ![a] = t]
        BY <3>2 DEF Close
      <4> HIDE DEF t, a, it
      <4> QED
        BY <1>10, <4>1, <4>2, <4>3, TablesUpdated DEF EndClose, ServersTypeOK
    <3> QED
      BY <1>10, <3>1, <3>2 DEF EndClose
  <2> QED
    BY <1>10, <2>1, <2>2, <2>3 DEF EndClose, ClientTypeOK
<1>11. ASSUME NEW r \in rpcs, ForkDone(r) PROVE ServersTypeOK' /\ ClientTypeOK'
  <2>1. sess["acting"].attached
    BY <1>11 DEF ForkDone, PolicyInv
  <2>2. sess["acting"].peer \in Peers
    BY <2>1, TheSession DEF Both
  <2>3. /\ sess' \in [{"acting", "dream"} -> Sessions]
        /\ \A t \in {"acting", "dream"} : sess'[t].attached => sess'[t].peer # NoPeer
    BY <1>0, <1>11, <2>2, AttachEffect DEF ForkDone, Adopt, AttachedTo, Both
  <2>4. ServersTypeOK' /\ drawn + 1 \in Nat
    BY <1>0, <1>11, RpcsTyped DEF ForkDone
  <2> QED
    BY <1>11, <2>3, <2>4 DEF ForkDone, ClientTypeOK, policyVars, resultVars
<1>12. ASSUME NEW r \in rpcs, ReplayDone(r) PROVE ServersTypeOK' /\ ClientTypeOK'
  <2>1. ServersTypeOK' /\ k' \in Nat
    BY <1>0, <1>12, RpcsTyped DEF ReplayDone
  <2>2. k < Len(me.ops) => k + 1 \in 1 .. Len(me.ops)
    BY <1>0
  <2> QED
    BY <1>12, <2>1, <2>2 DEF ReplayDone, ReplayGoesOn, ClientTypeOK, policyVars, resultVars, me
<1>13. ASSUME NEW r \in rpcs, OpDone(r) PROVE ServersTypeOK' /\ ClientTypeOK'
  <2>1. ServersTypeOK' /\ acts' \in Nat /\ j' \in Nat
    BY <1>0, <1>13, RpcsTyped DEF OpDone
  <2>2. r.out \in States
    BY <1>13 DEF ServersTypeOK, Requests
  <2>3. /\ sess' \in [{"acting", "dream"} -> Sessions]
        /\ \A t \in {"acting", "dream"} : sess'[t].attached => sess'[t].peer # NoPeer
    BY <1>13, LogEffect DEF OpDone, ClientTypeOK
  <2> QED
    BY <1>13, <2>1, <2>2, <2>3 DEF OpDone, ClientTypeOK
<1>14. ASSUME NEW r \in rpcs, ForkFails(r) PROVE ServersTypeOK' /\ ClientTypeOK'
  <2>1. ServersTypeOK' /\ drawn + 1 \in Nat
    BY <1>0, <1>14, RpcsTyped DEF ForkFails, Failed, Abandoned
  <2> QED
    BY <1>0, <1>14, <2>1 DEF ForkFails, ClientTypeOK, policyVars
<1> QED
  BY <1>1, <1>2, <1>3, <1>4, <1>5, <1>6, <1>7, <1>8, <1>9, <1>10, <1>11, <1>12, <1>13, <1>14
  DEF ClientStep

-----------------------------------------------------------------------------
(***************************************************************************)
(* The policy, and the calls it makes.                                     *)
(***************************************************************************)
\* What a failure of the session that is called does.
LEMMA FailedSession ==
  ASSUME ServersTypeOK, ClientTypeOK, PolicyInv,
         LookupFails \/ \E r \in rpcs : CallFails(r)
  PROVE  /\ \A t \in Both : t # who => sess'[t] = sess[t]
         /\ sess'[who].ops = me.ops /\ sess'[who].sid = me.sid /\ sess'[who].peer = me.peer
         /\ \/ /\ sess'[who].attached <=> me.attached
               /\ pc' = IF dreaming THEN "close" ELSE "idle"
               /\ me.attached /\ ~dreaming => raised'
            \/ ~sess'[who].attached /\ pc' = "call" /\ (raised' => raised)
         /\ raised' => raised \/ (~dreaming /\ pc' = "idle")
         /\ raised => raised'
         /\ left' = IF me.attached THEN left \cup {me.sid} ELSE left
         /\ UNCHANGED <<listed, policyVars, who, todo, k, drawn, feat>>
         /\ InCall
<1>0. who \in Both /\ me \in Sessions /\ Count(me) \in Nat /\ MaxFailures \in Nat
  BY TheSession, SessionBoundsAreValid DEF ClientTypeOK, Count, SessionBounds
<1>1. UNCHANGED <<listed, policyVars, who, todo, k, drawn, feat>> /\ InCall
  BY DEF LookupFails, CallFails, InCall
<1>2. CASE Fail /\ (me.peer = NoPeer => Count(me) > MaxFailures)
  <2>1. /\ \A t \in Both : t # who => sess'[t] = sess[t]
        /\ sess'[who].ops = me.ops /\ sess'[who].peer = me.peer /\ sess'[who].sid = me.sid
        /\ left' = IF me.attached THEN left \cup {me.sid} ELSE left
    BY <1>2, FailEffect
  <2>2. \/ /\ sess'[who].attached = me.attached
           /\ raised' = (raised \/ ~dreaming) /\ Raise
        \/ /\ ~sess'[who].attached
           /\ pc' = "call" /\ raised' = raised
    BY <1>2, FailEffect
  <2>3. CASE sess'[who].attached = me.attached /\ raised' = (raised \/ ~dreaming) /\ Raise
    <3>1. (sess'[who].attached <=> me.attached) /\ (raised' <=> raised \/ ~dreaming)
      BY <2>3
    <3>2. pc' = IF dreaming THEN "close" ELSE "idle"
      BY <2>3 DEF Raise
    <3> QED
      BY <1>1, <2>1, <3>1, <3>2
  <2>4. CASE ~sess'[who].attached /\ pc' = "call" /\ raised' = raised
    <3>1. raised' <=> raised
      BY <2>4
    <3> QED
      BY <1>1, <2>1, <2>4, <3>1
  <2> QED
    BY <2>2, <2>3, <2>4
<1>3. CASE LookupFails /\ me.peer = NoPeer /\ Count(me) <= MaxFailures
  <2> DEFINE v == [me EXCEPT !.failures = Count(me)]
  <2>1. sess' = [sess EXCEPT ![who] = v]
    BY <1>3 DEF LookupFails, me
  <2>2. v \in Sessions /\ v.attached = me.attached /\ v.ops = me.ops /\ v.sid = me.sid
        /\ v.peer = me.peer
    BY <1>0 DEF Sessions
  <2> HIDE DEF v
  <2>3. ~v.attached /\ ~me.attached /\ UNCHANGED <<left, raised>> /\ Raise
    BY <1>3, <2>2 DEF LookupFails
  <2>4. sess'[who] = v /\ \A t \in Both : t # who => sess'[t] = sess[t]
    BY <1>0, <2>1, <2>2, <2>3, Replaced
  <2> QED
    BY <1>1, <2>2, <2>3, <2>4, Zenon DEF Raise
<1>4. CASE LookupFails /\ ~(me.peer = NoPeer /\ Count(me) <= MaxFailures)
  <2>1. Fail
    BY <1>4 DEF LookupFails
  <2>2. me.peer = NoPeer => Count(me) > MaxFailures
    BY <1>0, <1>4
  <2> QED
    BY <1>2, <2>1, <2>2
<1>5. ASSUME NEW r \in rpcs, CallFails(r)
      PROVE  Fail /\ (me.peer = NoPeer => Count(me) > MaxFailures)
  BY <1>5 DEF CallFails, PolicyInv, ClientTypeOK, me
<1> QED
  BY <1>2, <1>3, <1>4, <1>5

LEMMA PolicyStep ==
  ASSUME ServersTypeOK, ClientTypeOK, PolicyInv, [Next]_vars PROVE PolicyInv'
<1>0. /\ who \in Both /\ raised \in BOOLEAN /\ dreaming \in BOOLEAN
      /\ MaxActs \in Nat /\ Horizon \in Nat /\ acts \in Nat /\ j \in Nat
  BY TheSession, SessionBoundsAreValid DEF ClientTypeOK, SessionBounds
<1>1. CASE ~GivenUp /\ Act
  <2>1. todo'.method = "observe" /\ todo'.n = acts /\ acts < MaxActs + Horizon
    BY <1>0, <1>1 DEF Act, Op
  <2> QED
    BY <1>1, <2>1 DEF Act, GivenUp, PolicyInv, policyVars, resultVars
<1>2. CASE ~GivenUp /\ Imagine
  <2>1. /\ sess'["acting"] = sess["acting"]
        /\ sess'["dream"].ops = sess["acting"].ops /\ ~sess'["dream"].attached
    BY <1>2, InheritEffect DEF Imagine
  <2> QED
    BY <1>2, <2>1 DEF Imagine, GivenUp, PolicyInv, InCall, resultVars
<1>3. CASE Dream
  <2>1. todo'.method = "imagine" /\ todo'.n = j /\ j < MaxActs + Horizon
    BY <1>0, <1>3 DEF Dream, Op
  <2> QED
    BY <1>3, <2>1 DEF Dream, PolicyInv, policyVars, resultVars
<1>4. CASE SendFork \/ SendOp \/ SendReplay
  BY <1>4
  DEF SendFork, SendOp, SendReplay, PolicyInv, InCall, policyVars, sessionVars, resultVars, me
<1>5. CASE Attach
  <2>1. PICK p \in listed : sess' = [sess EXCEPT ![who] = AttachedTo(sess[who], p, drawn)]
    BY <1>5 DEF Attach, AttachedTo
  <2>2. p \in Peers /\ drawn \in Sids
    BY DEF ClientTypeOK, Sids
  <2>3. \A t \in Both : t # who => sess'[t] = sess[t]
    BY <1>0, <2>1, <2>2, AttachEffect
  <2> QED
    BY <1>0, <1>5, <2>3 DEF Attach, PolicyInv, InCall, policyVars, resultVars, Both
<1>6. CASE LookupFails \/ \E r \in rpcs : CallFails(r)
  <2>1. /\ \A t \in Both : t # who => sess'[t] = sess[t]
        /\ sess'[who].attached => me.attached
        /\ UNCHANGED <<who, todo, dreaming>> /\ InCall
        /\ pc' \in {"close", "idle", "call"}
    BY <1>6, FailedSession DEF policyVars
  <2>2. raised' /\ ~Persistent => ~dreaming /\ pc' = "idle"
    BY <1>6, <2>1, FailedSession DEF PolicyInv, InCall
  <2>3. ~dreaming => ~sess'["dream"].attached
    BY <1>0, <2>1 DEF PolicyInv, InCall, Both
  <2> QED
    BY <2>1, <2>2, <2>3 DEF PolicyInv, InCall
<1>7. CASE NoServer
  BY <1>7 DEF NoServer, Raise, PolicyInv, InCall, policyVars, sessionVars, resultVars
<1>8. CASE BeginClose
  BY <1>8 DEF BeginClose, PolicyInv, InCall, policyVars, sessionVars, resultVars
<1>9. CASE EndClose
  <2>1. /\ \A t \in Both : t # (IF dreaming THEN "dream" ELSE "acting") => sess'[t] = sess[t]
        /\ ~sess'[IF dreaming THEN "dream" ELSE "acting"].attached
    BY <1>9, DetachEffect DEF EndClose, Both
  <2>2. ~sess'["dream"].attached
    BY <2>1 DEF Both, PolicyInv
  <2> QED
    BY <1>9, <2>2 DEF EndClose, PolicyInv, InCall
<1>10. ASSUME NEW r \in rpcs, ForkDone(r) PROVE PolicyInv'
  BY <1>10 DEF ForkDone, PolicyInv, InCall, policyVars, resultVars
<1>11. ASSUME NEW r \in rpcs, ReplayDone(r) PROVE PolicyInv'
  BY <1>11 DEF ReplayDone, PolicyInv, InCall, policyVars, resultVars, ClientTypeOK
<1>12. ASSUME NEW r \in rpcs, OpDone(r) PROVE PolicyInv'
  <2>1. \A t \in Both : t # who => sess'[t] = sess[t]
    BY <1>12, LogEffect DEF OpDone, ClientTypeOK
  <2> QED
    BY <1>0, <1>12, <2>1 DEF OpDone, PolicyInv, InCall, Both
<1>13. ASSUME NEW r \in rpcs, ForkFails(r) PROVE PolicyInv'
  BY <1>13 DEF ForkFails, PolicyInv, InCall, policyVars
<1>14. ASSUME UNCHANGED clientVars PROVE PolicyInv'
  BY <1>14 DEF clientVars, policyVars, sessionVars, resultVars, PolicyInv, InCall, me
<1>15. CASE RegistryStep
  BY <1>14, <1>15 DEF RegistryStep, Announce, Expire
<1> QED
  BY <1>1, <1>2, <1>3, <1>4, <1>5, <1>6, <1>7, <1>8, <1>9, <1>10, <1>11, <1>12, <1>13, <1>14,
     <1>15
  DEF Next, ClientStep, vars

\* What tells a call.
Same(s, r) ==
  /\ s.addr = r.addr /\ s.sid = r.sid /\ s.method = r.method /\ s.n = r.n
  /\ s.live <=> r.live

OneLive == \A r, s \in rpcs : r.live /\ s.live => r = s
SomeLive == \E r \in rpcs : r.live

\* A server only moves calls on, one by one, or loses them.
LEMMA ServerCalls ==
  ASSUME ServersTypeOK, ServerStep
  PROVE  /\ \A s \in rpcs' : \E r \in rpcs : Same(s, r)
         /\ OneLive => OneLive'
         /\ SomeLive => SomeLive'
         /\ OneWriter => OneWriter'
<1> DEFINE Goal == /\ \A s \in rpcs' : \E r \in rpcs : Same(s, r)
                   /\ OneLive => OneLive'
                   /\ SomeLive => SomeLive'
                   /\ OneWriter => OneWriter'
<1>0. \A r \in rpcs : Same(r, r)
  BY DEF Same
<1>1. ASSUME NEW r \in rpcs, NEW s, Same(s, r), rpcs' = (rpcs \ {r}) \cup {s} PROVE Goal
  <2>1. (\A q \in rpcs' : \E t \in rpcs : Same(q, t)) /\ (OneLive => OneLive')
        /\ (SomeLive => SomeLive')
    BY <1>0, <1>1 DEF Same, OneLive, SomeLive
  <2>2. OneWriter => OneWriter'
    BY <1>1 DEF Same, OneWriter
  <2> QED
    BY <2>1, <2>2
<1>2. ASSUME NEW r \in rpcs, ~r.live, rpcs' = rpcs \ {r} PROVE Goal
  BY <1>0, <1>2 DEF OneLive, SomeLive, OneWriter
<1>3. ASSUME UNCHANGED rpcs PROVE Goal
  BY <1>0, <1>3 DEF OneLive, SomeLive, OneWriter
<1>4. ASSUME NEW r \in rpcs, NEW s, Same(s, r), Becomes(r, s) \/ Answer(r, s) PROVE Goal
  BY <1>1, <1>2, <1>4 DEF Becomes, Answer
<1>5. ASSUME NEW r \in rpcs,
             Enqueue(r) \/ ObserveNew(r, Idle(r.addr)) \/ Unknown(r) \/ Compute(r)
             \/ WriteBack(r) \/ Fork(r) \/ Cancel(r)
      PROVE  Goal
  <2>1. r \in Requests
    BY DEF ServersTypeOK
  <2>2. \A st : Same([r EXCEPT !.st = st], r)
    BY <2>1 DEF Same, Requests
  <2>3. \A out : Same([r EXCEPT !.st = "computed", !.out = out], r)
    BY <2>1 DEF Same, Requests
  <2>4. CASE Enqueue(r) \/ ObserveNew(r, Idle(r.addr)) \/ Unknown(r) \/ WriteBack(r) \/ Fork(r)
    BY <1>4, <2>2, <2>4 DEF Enqueue, ObserveNew, Unknown, WriteBack, Fork
  <2>5. CASE Compute(r)
    BY <1>4, <2>3, <2>5 DEF Compute
  <2>6. CASE Cancel(r)
    BY <1>2, <2>6 DEF Cancel
  <2> QED
    BY <1>5, <2>4, <2>5, <2>6
<1>6. ASSUME NEW a \in Addrs, Crash(a) PROVE Goal
  <2> DEFINE lost(r) == [r EXCEPT !.st = "lost"]
  <2>1. \A r \in rpcs : Same(lost(r), r)
    BY DEF Same, ServersTypeOK, Requests
  <2>2. rpcs' = {r \in rpcs : r.addr # a} \cup {lost(r) : r \in {q \in rpcs : q.addr = a /\ q.live}}
    BY <1>6 DEF Crash
  <2> HIDE DEF lost
  <2>3. \A s \in rpcs' : \E r \in rpcs : Same(s, r)
                           /\ IF s.addr = a THEN s = lost(r) ELSE s = r
    BY <1>0, <2>1, <2>2 DEF Same
  <2>4. OneLive => OneLive'
    BY <2>3 DEF OneLive, Same
  <2>5. SomeLive => SomeLive'
    <3>1. ASSUME NEW r \in rpcs, r.live PROVE \E s \in rpcs' : s.live
      BY <2>1, <2>2, <3>1 DEF Same
    <3> QED
      BY <3>1 DEF SomeLive
  <2>6. ASSUME OneWriter, NEW s \in rpcs', NEW t \in rpcs',
               s.method # "fork", t.method # "fork", s.addr = t.addr, s.sid = t.sid
        PROVE  s = t
    <3>1. PICK r \in rpcs : Same(s, r) /\ IF s.addr = a THEN s = lost(r) ELSE s = r
      BY <2>3
    <3>2. PICK q \in rpcs : Same(t, q) /\ IF t.addr = a THEN t = lost(q) ELSE t = q
      BY <2>3
    <3>3. r = q
      BY <2>6, <3>1, <3>2 DEF OneWriter, Same
    <3> QED
      BY <2>6, <3>1, <3>2, <3>3
  <2>7. OneWriter => OneWriter'
    BY <2>6 DEF OneWriter
  <2> QED
    BY <2>3, <2>4, <2>5, <2>7
<1>7. ASSUME NEW a \in Addrs, Collect(a, Idle(a)) \/ Start(a) PROVE Goal
  BY <1>3, <1>7 DEF Collect, Start
<1> QED
  BY <1>5, <1>6, <1>7 DEF ServerStep

\* A session belongs to a call that was made.
LEMMA ServerTables ==
  ASSUME ServersTypeOK, ServerStep, NEW a \in Addrs, NEW sid \in DOMAIN sessions'[a]
  PROVE  sid \in DOMAIN sessions[a] \/ \E r \in rpcs : r.addr = a /\ Target(r) = sid
<1> DEFINE Goal == sid \in DOMAIN sessions[a] \/ \E r \in rpcs : r.addr = a /\ Target(r) = sid
<1>0. sessions = [c \in Addrs |-> sessions[c]] /\ \A r \in rpcs : r.addr \in Addrs
  BY DEF ServersTypeOK, Requests
<1>1. ASSUME NEW c \in Addrs, NEW t, sessions' = [sessions EXCEPT ![c] = t],
             \A i \in DOMAIN t : i \in DOMAIN sessions[c] \/ \E r \in rpcs : r.addr = c /\ Target(r) = i
      PROVE  Goal
  <2>1. sessions'[a] = IF a = c THEN t ELSE sessions[a]
    BY <1>0, <1>1
  <2> QED
    BY <1>1, <2>1
<1>2. ASSUME UNCHANGED sessions PROVE Goal
  BY <1>2
<1>3. ASSUME NEW r \in rpcs,
             Enqueue(r) \/ ObserveNew(r, Idle(r.addr)) \/ Unknown(r) \/ Compute(r)
             \/ WriteBack(r) \/ Fork(r) \/ Cancel(r)
      PROVE  Goal
  <2>1. CASE ObserveNew(r, Idle(r.addr))
    <3>1. PICK gone, t : /\ sessions' = [sessions EXCEPT ![r.addr] = t]
                         /\ \/ t = Drop(sessions[r.addr], gone)
                            \/ t = Put(Drop(sessions[r.addr], gone), r.sid, << >>)
      BY <2>1 DEF ObserveNew
    <3>2. Target(r) = r.sid
      BY <2>1 DEF ObserveNew, Target
    <3>3. \A i \in DOMAIN t : i \in DOMAIN sessions[r.addr] \/ i = r.sid
      BY <3>1 DEF Drop, Put
    <3> QED
      BY <1>0, <1>1, <3>1, <3>2, <3>3
  <2>2. CASE WriteBack(r)
    <3>1. \A i \in DOMAIN Put(sessions[r.addr], r.sid, r.out) : i \in DOMAIN sessions[r.addr]
      BY <2>2 DEF WriteBack, Put
    <3> QED
      BY <1>0, <1>1, <2>2, <3>1 DEF WriteBack
  <2>3. CASE Fork(r)
    <3> DEFINE t == Put(sessions[r.addr], r.n, sessions[r.addr][r.sid])
    <3>1. Target(r) = r.n
      BY <2>3 DEF Fork, Target
    <3>2. \A i \in DOMAIN t : i \in DOMAIN sessions[r.addr] \/ i = r.n
      BY DEF Put
    <3>3. sessions' = [sessions EXCEPT ![r.addr] = t]
      BY <2>3 DEF Fork
    <3> HIDE DEF t
    <3> QED
      BY <1>0, <1>1, <3>1, <3>2, <3>3
  <2>4. CASE Enqueue(r) \/ Unknown(r) \/ Compute(r) \/ Cancel(r)
    BY <1>2, <2>4 DEF Enqueue, Unknown, Compute, Cancel
  <2> QED
    BY <1>3, <2>1, <2>2, <2>3, <2>4
<1>4. ASSUME NEW c \in Addrs, Collect(c, Idle(c)) \/ Crash(c) PROVE Goal
  <2>1. PICK gone : sessions' = [sessions EXCEPT ![c] = Drop(sessions[c], gone)]
    BY <1>4 DEF Collect, Crash
  <2>2. \A i \in DOMAIN Drop(sessions[c], gone) : i \in DOMAIN sessions[c]
    BY DEF Drop
  <2> QED
    BY <1>1, <2>1, <2>2
<1>5. ASSUME NEW c \in Addrs, Start(c) PROVE Goal
  BY <1>2, <1>5 DEF Start
<1> QED
  BY <1>3, <1>4, <1>5 DEF ServerStep

-----------------------------------------------------------------------------
(***************************************************************************)
(* What the policy does, by what becomes of its calls: nothing, one more,  *)
(* or one less.                                                            *)
(***************************************************************************)
Aside ==
  Act \/ Imagine \/ Dream \/ Attach \/ LookupFails \/ NoServer \/ BeginClose \/ EndClose

Sends == SendFork \/ SendOp \/ SendReplay

Returns(r) == ForkDone(r) \/ ReplayDone(r) \/ OpDone(r) \/ CallFails(r) \/ ForkFails(r)

LEMMA StepsOfThree ==
  ASSUME ClientStep PROVE Aside \/ Sends \/ \E r \in rpcs : Returns(r)
  BY DEF ClientStep, Aside, Sends, Returns

LEMMA AsideEffect ==
  ASSUME ServersTypeOK, ClientTypeOK, PolicyInv, Aside
  PROVE  ~Waiting /\ ~Waiting' /\ UNCHANGED <<inc, up, rpcs>>
<1>1. CASE LookupFails
  <2>1. pc' \in {"idle", "close", "call"}
    BY <1>1, FailedSession
  <2> QED
    BY <1>1, <2>1 DEF LookupFails, Waiting, serverVars
<1>2. CASE ~LookupFails
  BY <1>2
  DEF Aside, Act, Imagine, Dream, Attach, NoServer, Raise, BeginClose, EndClose, Waiting,
      serverVars
<1> QED
  BY <1>1, <1>2

\* Where a call goes and what it asks for.
Asking(r) ==
  /\ r \in Requests /\ r.live /\ r.st \in {"sent", "lost"}
  /\ r.addr = me.peer.addr /\ r.sid = me.sid
  /\ \/ pc = "fork" /\ r.method = "fork" /\ r.n = drawn
     \/ pc = "call" /\ r.method = todo.method /\ r.n = todo.n
     \/ pc = "replay" /\ r.method = me.ops[k].method /\ r.n = me.ops[k].n

LEMMA SendEffect ==
  ASSUME ServersTypeOK, ClientTypeOK, PolicyInv, Sends
  PROVE  /\ \E r : Asking(r) /\ rpcs' = rpcs \cup {r}
         /\ ~Waiting /\ Waiting' /\ me.attached
         /\ \/ pc = "fork" /\ pc' = "awaitFork"
            \/ pc = "call" /\ pc' = "await"
            \/ pc = "replay" /\ pc' = "awaitReplay"
         /\ UNCHANGED <<inc, up, sessions, listed, policyVars, sessionVars, resultVars>>
<1>1. /\ drawn \in Nat
      /\ todo.method \in {"observe", "imagine"} /\ todo.n \in Nat
      /\ me.ops \in States
  BY TheSession DEF ClientTypeOK, Ops
<1>2. CASE SendFork
  <2>1. me.attached
    BY <1>2 DEF SendFork, PolicyInv, me
  <2> QED
    BY <1>1, <1>2, <2>1, SendTyped DEF SendFork, Waiting, Asking
<1>3. CASE SendOp
  BY <1>1, <1>3, SendTyped DEF SendOp, Waiting, Asking
<1>4. CASE SendReplay
  <2>1. k \in 1 .. Len(me.ops) /\ me.attached
    BY <1>4 DEF SendReplay, ClientTypeOK
  <2>2. me.ops[k].method \in {"observe", "imagine"} /\ me.ops[k].n \in Nat
    BY <1>1, <2>1, ReplayPrefix DEF Ops
  <2> QED
    BY <1>1, <1>4, <2>1, <2>2, SendTyped DEF SendReplay, Waiting, Asking
<1> QED
  BY <1>2, <1>3, <1>4 DEF Sends

LEMMA ReturnEffect ==
  ASSUME ServersTypeOK, ClientTypeOK, PolicyInv, CallInv, NEW r \in rpcs, Returns(r)
  PROVE  /\ r.live /\ Waiting /\ ~Waiting' /\ Asks(r)
         /\ \A q \in rpcs : q.live => q = r
         /\ \A q \in rpcs' : q \in rpcs \ {r} \/ (q = [r EXCEPT !.live = FALSE])
         /\ \A q \in rpcs' : ~q.live
         /\ UNCHANGED <<inc, up, sessions, listed>>
<1>1. r.live /\ Waiting /\ Asks(r) /\ \A q \in rpcs : q.live => q = r
  BY DEF Returns, ForkDone, ReplayDone, OpDone, CallFails, ForkFails, Failed, Abandoned,
         Awaited, CallInv
<1>2. ~Waiting' /\ UNCHANGED <<inc, up, sessions, listed>>
  <2>1. CASE CallFails(r)
    <3>1. pc' \in {"idle", "close", "call"}
      BY <2>1, FailedSession
    <3> QED
      BY <2>1, <3>1 DEF CallFails, Waiting
  <2>2. CASE ~CallFails(r)
    BY <2>2 DEF Returns, ForkDone, ReplayDone, OpDone, ForkFails, Waiting
  <2> QED
    BY <2>1, <2>2
<1>3. rpcs' = rpcs \ {r} \/ rpcs' = (rpcs \ {r}) \cup {[r EXCEPT !.live = FALSE]}
  BY DEF Returns, ForkDone, ReplayDone, OpDone, CallFails, ForkFails, Failed, Abandoned
<1>4. ~[r EXCEPT !.live = FALSE].live
  BY DEF ServersTypeOK, Requests
<1> QED
  BY <1>1, <1>2, <1>3, <1>4

LEMMA CallStep ==
  ASSUME ServersTypeOK, ClientTypeOK, PolicyInv, CallInv, [Next]_vars PROVE CallInv'
<1>1. CASE Aside
  BY <1>1, AsideEffect DEF CallInv
<1>2. CASE Sends
  <2>1. PICK r : Asking(r) /\ rpcs' = rpcs \cup {r}
    BY <1>2, SendEffect
  <2>2. ~Waiting /\ Waiting' /\ UNCHANGED <<sessionVars>>
        /\ \/ pc = "fork" /\ pc' = "awaitFork"
           \/ pc = "call" /\ pc' = "await"
           \/ pc = "replay" /\ pc' = "awaitReplay"
    BY <1>2, SendEffect
  <2>3. Asks(r)'
    BY <2>1, <2>2 DEF Asks, Asked, Asking, sessionVars, me, Op
  <2>4. \A q \in rpcs : ~q.live
    BY <2>2 DEF CallInv
  <2>5. r.live /\ \A q \in rpcs' : q.live => q = r
    BY <2>1, <2>4 DEF Asking
  <2> QED
    BY <2>1, <2>2, <2>3, <2>5 DEF CallInv
<1>3. ASSUME NEW r \in rpcs, Returns(r) PROVE CallInv'
  BY <1>3, ReturnEffect DEF CallInv
<1>4. CASE UNCHANGED <<rpcs, clientVars>>
  BY <1>4 DEF CallInv, Waiting, Asks, Asked, me, clientVars, sessionVars
<1>5. CASE ServerStep /\ UNCHANGED <<listed, clientVars>>
  <2>1. \A s \in rpcs' : \E r \in rpcs : Same(s, r)
    BY <1>5, ServerCalls
  <2>2. OneLive => OneLive'
    BY <1>5, ServerCalls
  <2>3. SomeLive => SomeLive'
    BY <1>5, ServerCalls
  <2>4. (Waiting' <=> Waiting) /\ \A r : Asks(r)' <=> Asks(r)
    BY <1>5 DEF Waiting, Asks, Asked, me, clientVars, sessionVars
  <2>5. \A r, s : Same(s, r) /\ Asks(r) => Asks(s)
    BY DEF Same, Asks
  <2>6. \A s \in rpcs' : s.live => Waiting' /\ Asks(s)'
    BY <2>1, <2>4, <2>5 DEF CallInv, Same
  <2> QED
    BY <2>2, <2>3, <2>4, <2>6 DEF CallInv, OneLive, SomeLive
<1>6. CASE RegistryStep
  BY <1>4, <1>6 DEF RegistryStep, Announce, Expire, serverVars
<1>7. CASE UNCHANGED vars
  BY <1>4, <1>7 DEF vars, serverVars
<1> QED
  BY <1>1, <1>2, <1>3, <1>5, <1>6, <1>7, StepsOfThree DEF Next

LEMMA OneCallStep ==
  ASSUME ServersTypeOK, ClientTypeOK, PolicyInv, CallInv, [Next]_vars PROVE OneCall'
<1>1. CallInv'
  BY CallStep
<1>2. Waiting' \in BOOLEAN
  BY DEF Waiting
<1>3. OneCall' <=> Cardinality({r \in rpcs' : r.live}) = IF Waiting' THEN 1 ELSE 0
  BY DEF OneCall, Waiting
<1> HIDE DEF Waiting
<1>4. /\ \A r \in rpcs' : r.live => Waiting'
      /\ \A r, s \in rpcs' : r.live /\ s.live => r = s
      /\ Waiting' => \E r \in rpcs' : r.live
  BY <1>1 DEF CallInv
<1> QED
  BY <1>2, <1>3, <1>4, CountLive

LEMMA TypeStep ==
  ASSUME TypeOK, PolicyInv, CallInv, [Next]_vars PROVE TypeOK'
<1>1. CASE ClientStep
  BY <1>1, ClientTypes, OneCallStep DEF TypeOK
<1>2. CASE ServerStep /\ UNCHANGED <<listed, clientVars>>
  <2>1. ClientTypeOK'
    BY <1>2 DEF TypeOK, ClientTypeOK, clientVars, policyVars, sessionVars, resultVars, me
  <2> QED
    BY <1>2, <2>1, ServerTypes, OneCallStep DEF TypeOK
<1>3. CASE RegistryStep
  <2>1. UNCHANGED <<serverVars, clientVars>> /\ listed' \subseteq Peers
    <3>1. ASSUME NEW a \in Addrs, Announce(a) PROVE listed' \subseteq Peers
      BY <1>3, <3>1, RSSMBoundsAreValid
      DEF Announce, CurrentPeer, TypeOK, ServersTypeOK, ClientTypeOK, Peers
    <3> QED
      BY <1>3, <3>1 DEF RegistryStep, Announce, Expire, TypeOK, ClientTypeOK
  <2>2. ServersTypeOK' /\ ClientTypeOK'
    BY <2>1 DEF TypeOK, ServersTypeOK, ClientTypeOK, serverVars, clientVars, policyVars,
                sessionVars, resultVars, me
  <2> QED
    BY <2>2, OneCallStep DEF TypeOK
<1>4. CASE UNCHANGED vars
  BY <1>4 DEF vars, TypeOK, ServersTypeOK, ClientTypeOK, OneCall, serverVars, clientVars,
              policyVars, sessionVars, resultVars, me
<1> QED
  BY <1>1, <1>2, <1>3, <1>4 DEF Next

-----------------------------------------------------------------------------
(***************************************************************************)
(* Session ids: drawn once, given up or accounted for.                     *)
(***************************************************************************)
\* Whom the call that the policy waits for is to, and what it writes.
LEMMA LiveTarget ==
  ASSUME ClientTypeOK, PolicyInv, CallInv, NEW r \in rpcs, r.live
  PROVE  /\ Waiting /\ me.attached /\ r.addr = me.peer.addr /\ r.sid = me.sid
         /\ pc = "awaitFork" => who = "acting" /\ r.method = "fork" /\ Target(r) = drawn
         /\ pc # "awaitFork" =>
              /\ InCall /\ Asked \in Ops /\ r.method = Asked.method /\ r.n = Asked.n
              /\ r.method # "fork" /\ Target(r) = me.sid
<1>1. Waiting /\ Asks(r)
  BY DEF CallInv
<1>2. CASE pc = "awaitFork"
  BY <1>1, <1>2 DEF Asks, Asked, Op, Target, PolicyInv, me
<1>3. CASE pc \in {"await", "awaitReplay"}
  <2>1. Asked \in Ops
    <3>1. CASE pc = "await"
      BY <3>1 DEF Asked, ClientTypeOK
    <3>2. CASE pc = "awaitReplay"
      <4>1. me.ops \in States /\ k \in 1 .. Len(me.ops)
        BY <3>2, TheSession DEF ClientTypeOK
      <4> QED
        BY <3>2, <4>1, ReplayPrefix DEF Asked
    <3> QED
      BY <1>3, <3>1, <3>2
  <2>2. Asked.method # "fork"
    BY <2>1 DEF Ops
  <2> QED
    BY <1>1, <1>3, <2>1, <2>2 DEF Asks, Target, PolicyInv, ClientTypeOK, InCall
<1> QED
  BY <1>1, <1>2, <1>3 DEF Waiting

\* The calls given up before this step are to sessions given up before it.
LEMMA DeadCalls ==
  ASSUME ServersTypeOK, ClientTypeOK, PolicyInv, CallInv, Fenced, ClientStep
  PROVE  /\ Aside \/ Sends => \A q \in rpcs' : ~q.live => Target(q) \in left
         /\ \A r \in rpcs : Returns(r) =>
              \A q \in rpcs' : ~q.live => Target(q) \in left \/ Target(q) = Target(r)
<1>1. CASE Aside
  BY <1>1, AsideEffect DEF Fenced
<1>2. CASE Sends
  BY <1>2, SendEffect DEF Fenced, Asking
<1>3. ASSUME NEW r \in rpcs, Returns(r), NEW q \in rpcs'
      PROVE  Target(q) \in left \/ Target(q) = Target(r)
  <2>1. /\ q \in rpcs \ {r} \/ q = [r EXCEPT !.live = FALSE]
        /\ \A s \in rpcs : s.live => s = r
    BY <1>3, ReturnEffect
  <2>2. Target([r EXCEPT !.live = FALSE]) = Target(r)
    BY DEF Target, ServersTypeOK, Requests
  <2> QED
    BY <2>1, <2>2 DEF Fenced
<1> QED
  BY <1>1, <1>2, <1>3

LEMMA IdStep ==
  ASSUME ServersTypeOK, ClientTypeOK, PolicyInv, CallInv, SidInv, Fenced, Accounts, ClientStep
  PROVE  SidInv' /\ Fenced' /\ Accounts'
<1> DEFINE Stays(s) ==
      sess[s].attached /\ sess'[s].sid = sess[s].sid /\ sess'[s].peer = sess[s].peer
<1>0. /\ who \in Both /\ drawn \in Nat /\ left \subseteq Nat
      /\ \A s \in Both : sess[s].attached \in BOOLEAN
      /\ \A s \in Both : sess[s].attached => sess[s].sid \in Nat /\ sess[s].peer.addr \in Addrs
      /\ drawn \notin left /\ \A s \in Both : sess[s].attached => sess[s].sid # drawn
      /\ sessions = [a \in Addrs |-> sessions[a]]
  BY TheSession DEF ClientTypeOK, ServersTypeOK, SidInv, Sids
<1>1. ASSUME UNCHANGED <<drawn, left, raised, sessions>>,
             \A s \in Both : sess'[s].attached => Stays(s),
             \A s \in Both : sess[s].attached => sess'[s].attached,
             \A q \in rpcs' : ~q.live => Target(q) \in left,
             pc # "close", pc # "awaitFork"
      PROVE  SidInv' /\ Fenced' /\ Accounts'
  <2>1. SidInv'
    BY <1>1 DEF SidInv
  <2>2. Fenced'
    BY <1>1 DEF Fenced, Dropped
  <2>3. Accounts'
    BY <1>1 DEF Accounts, HeldAt
  <2> QED
    BY <2>1, <2>2, <2>3
<1>2. CASE Act \/ Dream \/ NoServer \/ BeginClose
  <2>1. /\ UNCHANGED <<drawn, left, raised, sessions, sess>>
        /\ pc # "close" /\ pc # "awaitFork"
    BY <1>2 DEF Act, Dream, NoServer, BeginClose, serverVars, sessionVars, resultVars
  <2> QED
    BY <1>0, <1>1, <1>2, <2>1, DeadCalls DEF Aside
<1>3. CASE Sends
  <2>1. UNCHANGED <<drawn, left, raised, sessions, sess>> /\ pc # "close" /\ pc # "awaitFork"
    BY <1>3, SendEffect DEF sessionVars, resultVars
  <2> QED
    BY <1>0, <1>1, <1>3, <2>1, DeadCalls
<1>4. CASE Imagine
  <2>1. /\ sess'["acting"] = sess["acting"] /\ ~sess'["dream"].attached
        /\ ~sess["dream"].attached
        /\ UNCHANGED <<drawn, left, raised, sessions>> /\ pc # "close" /\ pc # "awaitFork"
    BY <1>4, InheritEffect DEF Imagine, PolicyInv, resultVars, serverVars
  <2>2. \A q \in rpcs' : ~q.live => Target(q) \in left
    BY <1>4, DeadCalls DEF Aside
  <2> QED
    BY <1>0, <1>1, <2>1, <2>2 DEF Both
<1>5. CASE Attach
  <2>1. PICK p \in listed : sess' = [sess EXCEPT ![who] = AttachedTo(sess[who], p, drawn)]
    BY <1>5 DEF Attach, AttachedTo
  <2>2. p \in Peers /\ drawn \in Sids /\ who \in Both
    BY <1>0 DEF ClientTypeOK, Sids
  <2>3. /\ \A t \in Both : t # who => sess'[t] = sess[t]
        /\ sess'[who].attached /\ sess'[who].sid = drawn
    <3>1. sess[who] \in Sessions /\ sess' = [t \in Both |-> IF t = who
                                       THEN AttachedTo(sess[who], p, drawn) ELSE sess[t]]
      BY <2>1, <2>2, TheSession DEF me
    <3> QED
      BY <2>2, <3>1, AttachedFields
  <2>4. /\ UNCHANGED <<left, raised, sessions>> /\ drawn' = drawn + 1 /\ ~sess[who].attached
        /\ pc = "call" /\ pc' # "awaitFork"
    BY <1>5 DEF Attach, resultVars, serverVars, me
  <2>5. \A q \in rpcs' : ~q.live => Target(q) \in left
    BY <1>5, DeadCalls DEF Aside
  <2>6. SidInv'
    BY <1>0, <2>3, <2>4 DEF SidInv
  <2>7. Fenced'
    BY <1>0, <2>3, <2>4, <2>5 DEF Fenced, Dropped
  <2>8. Accounts'
    BY <2>3, <2>4 DEF Accounts, HeldAt
  <2> QED
    BY <2>6, <2>7, <2>8
<1>6. CASE LookupFails \/ \E r \in rpcs : CallFails(r)
  <2>1. /\ \A t \in Both : t # who => sess'[t] = sess[t]
        /\ sess'[who].sid = sess[who].sid /\ sess'[who].peer = sess[who].peer
        /\ \/ /\ sess'[who].attached <=> sess[who].attached
              /\ pc' = IF dreaming THEN "close" ELSE "idle"
              /\ sess[who].attached /\ ~dreaming => raised'
           \/ ~sess'[who].attached
        /\ raised => raised'
        /\ left' = IF sess[who].attached THEN left \cup {sess[who].sid} ELSE left
        /\ drawn' = drawn /\ InCall
    BY <1>6, FailedSession DEF me
  <2>2. UNCHANGED sessions /\ pc # "close" /\ pc # "awaitFork"
    BY <1>6 DEF LookupFails, CallFails, serverVars
  <2>3. \A q \in rpcs' : ~q.live => Target(q) \in left'
    <3>1. CASE LookupFails
      BY <2>1, <3>1, DeadCalls DEF Aside
    <3>2. ASSUME NEW r \in rpcs, CallFails(r) PROVE \A q \in rpcs' : ~q.live => Target(q) \in left'
      <4>1. sess[who].attached /\ Target(r) = sess[who].sid
        BY <3>2, ReturnEffect, LiveTarget DEF Returns, CallFails, me
      <4> QED
        BY <2>1, <3>2, <4>1, DeadCalls DEF Returns
    <3> QED
      BY <1>6, <3>1, <3>2
  <2>4. SidInv'
    BY <1>0, <2>1 DEF SidInv
  <2>5. Fenced'
    <3>1. ASSUME ~raised', NEW s \in Both, sess'[s].attached, sess'[s].sid \in left'
          PROVE  Dropped(s)'
      <4>1. sess[s].attached /\ sess'[s].sid = sess[s].sid
        BY <1>0, <2>1, <3>1
      <4>2. sess[s].sid \notin left
        BY <2>1, <2>2, <3>1, <4>1 DEF Fenced, Dropped
      <4>3. sess[who].attached /\ s = who
        BY <1>0, <2>1, <3>1, <4>1, <4>2 DEF SidInv
      <4>4. dreaming /\ pc' = "close"
        BY <2>1, <3>1, <4>3
      <4> QED
        BY <2>1, <4>3, <4>4 DEF Dropped, PolicyInv
    <3> QED
      BY <2>3, <3>1 DEF Fenced
  <2>6. Accounts'
    <3>1. ASSUME NEW a \in Addrs, NEW sid, HeldAt(a, sid) PROVE sid \in left' \/ HeldAt(a, sid)'
      <4>1. PICK s \in Both : sess[s].attached /\ sess[s].sid = sid /\ sess[s].peer.addr = a
        BY <2>2, <3>1 DEF HeldAt
      <4> QED
        BY <1>0, <2>1, <4>1 DEF HeldAt
    <3> QED
      BY <2>1, <2>2, <3>1 DEF Accounts
  <2> QED
    BY <2>4, <2>5, <2>6
<1>7. CASE EndClose
  <2> DEFINE it == IF dreaming THEN "dream" ELSE "acting"
  <2>0. it \in Both
    BY DEF Both
  <2>1. /\ \A t \in Both : t # it => sess'[t] = sess[t]
        /\ ~sess'[it].attached
    BY <1>7, <2>0, DetachEffect DEF EndClose
  <2>2. /\ UNCHANGED <<drawn, raised>> /\ pc = "close" /\ pc' # "awaitFork"
        /\ \/ /\ sess[it].attached
              /\ sessions' = [sessions EXCEPT ![sess[it].peer.addr] =
                                Drop(sessions[sess[it].peer.addr], {sess[it].sid})]
              /\ left' = left
           \/ sess[it].attached /\ left' = left \cup {sess[it].sid} /\ sessions' = sessions
           \/ ~sess[it].attached /\ left' = left /\ sessions' = sessions
    BY <1>7 DEF EndClose, Close
  <2>3. \A q \in rpcs' : ~q.live => Target(q) \in left'
    BY <1>7, <2>2, DeadCalls DEF Aside
  <2>4. it = "acting" => ~sess["dream"].attached
    BY DEF PolicyInv
  <2> HIDE DEF it
  <2>5. SidInv'
    BY <1>0, <2>0, <2>1, <2>2 DEF SidInv
  <2>6. Fenced'
    <3>1. ASSUME ~raised', NEW s \in Both, sess'[s].attached, sess'[s].sid \in left'
          PROVE  FALSE
      <4>1. s # it /\ sess[s].attached /\ sess'[s].sid = sess[s].sid
        BY <2>1, <3>1
      <4>2. s = "acting"
        BY <2>0, <2>4, <4>1 DEF Both
      <4>3. sess[s].sid \in left
        BY <2>0, <2>2, <3>1, <4>1 DEF SidInv
      <4> QED
        BY <2>2, <3>1, <4>1, <4>2, <4>3 DEF Fenced, Dropped
    <3> QED
      BY <2>3, <3>1 DEF Fenced
  <2>7. Accounts'
    <3>1. ASSUME NEW a \in Addrs, NEW sid, sid \in DOMAIN sessions'[a]
          PROVE  sid \in left' \/ HeldAt(a, sid)'
      <4>1. sid \in DOMAIN sessions[a]
            /\ (sess[it].attached /\ sid = sess[it].sid /\ a = sess[it].peer.addr => sid \in left')
        BY <1>0, <2>0, <2>2, <3>1 DEF Drop
      <4>2. CASE sid \in left
        BY <2>2, <4>2
      <4>3. ASSUME NEW s \in Both, sess[s].attached, sess[s].sid = sid, sess[s].peer.addr = a
            PROVE  sid \in left' \/ HeldAt(a, sid)'
        BY <2>1, <4>1, <4>3 DEF HeldAt
      <4> QED
        BY <2>2, <4>1, <4>2, <4>3 DEF Accounts, HeldAt
    <3> QED
      BY <3>1 DEF Accounts
  <2> QED
    BY <2>5, <2>6, <2>7
<1>8. ASSUME NEW r \in rpcs, ForkDone(r) PROVE SidInv' /\ Fenced' /\ Accounts'
  <2>1. /\ pc = "awaitFork" /\ drawn' = drawn + 1 /\ pc' = "idle"
        /\ UNCHANGED <<left, raised, sessions>> /\ rpcs' = rpcs \ {r}
        /\ sess["acting"].attached /\ ~sess["dream"].attached
        /\ sess' = [sess EXCEPT !["dream"] =
                                  AttachedTo(sess["dream"], sess["acting"].peer, drawn)]
    BY <1>8 DEF ForkDone, Adopt, AttachedTo, PolicyInv, resultVars
  <2>2. sess["acting"].peer \in Peers /\ drawn \in Sids /\ "dream" \in Both /\ "acting" \in Both
    BY <1>0, <2>1, TheSession DEF Both, Sids
  <2>3. /\ sess'["acting"] = sess["acting"]
        /\ sess'["dream"].attached /\ sess'["dream"].sid = drawn
        /\ sess'["dream"].peer = sess["acting"].peer
    <3> DEFINE p == sess["acting"].peer
    <3>1. sess' = [sess EXCEPT !["dream"] = AttachedTo(sess["dream"], p, drawn)]
      BY <2>1
    <3>2. p \in Peers
      BY <2>2
    <3> HIDE DEF p
    <3>3. /\ \A t \in Both : t # "dream" => sess'[t] = sess[t]
          /\ sess'["dream"].attached /\ sess'["dream"].sid = drawn
          /\ sess'["dream"].peer = p
      <4>1. sess["dream"] \in Sessions /\ sess' = [t \in Both |-> IF t = "dream"
                                   THEN AttachedTo(sess["dream"], p, drawn) ELSE sess[t]]
        BY <2>2, <3>1, TheSession
      <4> QED
        BY <2>2, <4>1, AttachedFields
    <3> QED
      BY <2>2, <3>3 DEF p
  <2>4. SidInv'
    BY <1>0, <2>1, <2>2, <2>3 DEF SidInv, Both
  <2>5. Fenced'
    BY <1>0, <2>1, <2>2, <2>3 DEF Fenced, Dropped, Both
  <2>6. Accounts'
    <3>1. ASSUME NEW a \in Addrs, NEW sid, HeldAt(a, sid) PROVE HeldAt(a, sid)'
      BY <2>1, <2>2, <2>3, <3>1 DEF HeldAt, Both
    <3> QED
      BY <2>1, <3>1 DEF Accounts
  <2> QED
    BY <2>4, <2>5, <2>6
<1>9. ASSUME NEW r \in rpcs, ReplayDone(r) PROVE SidInv' /\ Fenced' /\ Accounts'
  <2>1. /\ UNCHANGED <<drawn, left, raised, sessions, sess>> /\ rpcs' = rpcs \ {r}
        /\ pc # "close" /\ pc # "awaitFork"
    BY <1>9 DEF ReplayDone, resultVars
  <2>2. \A q \in rpcs' : ~q.live => Target(q) \in left
    BY <2>1 DEF Fenced
  <2> QED
    BY <1>0, <1>1, <2>1, <2>2
<1>10. ASSUME NEW r \in rpcs, OpDone(r) PROVE SidInv' /\ Fenced' /\ Accounts'
  <2>1. /\ UNCHANGED <<drawn, left, raised, sessions>> /\ rpcs' = rpcs \ {r}
        /\ pc # "close" /\ pc # "awaitFork" /\ Log(todo) /\ todo \in Ops
    BY <1>10 DEF OpDone, ClientTypeOK
  <2>2. \A q \in rpcs' : ~q.live => Target(q) \in left
    BY <2>1 DEF Fenced
  <2>3. /\ \A t \in Both : t # who => sess'[t] = sess[t]
        /\ sess'[who].attached = sess[who].attached
        /\ sess'[who].peer = sess[who].peer /\ sess'[who].sid = sess[who].sid
    BY <2>1, LogEffect DEF me
  <2> QED
    BY <1>0, <1>1, <2>1, <2>2, <2>3
<1>11. ASSUME NEW r \in rpcs, ForkFails(r) PROVE SidInv' /\ Fenced' /\ Accounts'
  <2>1. /\ pc = "awaitFork" /\ drawn' = drawn + 1 /\ left' = left \cup {drawn}
        /\ UNCHANGED <<sess, raised, sessions>> /\ pc' = "idle"
    BY <1>11 DEF ForkFails
  <2>2. Target(r) = drawn
    BY <1>11, <2>1, ReturnEffect DEF Returns, Asks, Asked, Op, Target
  <2>3. \A q \in rpcs' : ~q.live => Target(q) \in left'
    BY <1>11, <2>1, <2>2, DeadCalls DEF Returns
  <2>4. SidInv'
    BY <1>0, <2>1 DEF SidInv
  <2>5. Fenced'
    BY <1>0, <2>1, <2>3 DEF Fenced, Dropped
  <2>6. Accounts'
    BY <2>1 DEF Accounts, HeldAt
  <2> QED
    BY <2>4, <2>5, <2>6
<1> QED
  BY <1>2, <1>3, <1>4, <1>5, <1>6, <1>7, <1>8, <1>9, <1>10, <1>11 DEF ClientStep, Sends

\* A session that is called has not been given up, nor has any other call to it.
LEMMA WriterStep ==
  ASSUME ServersTypeOK, ClientTypeOK, PolicyInv, CallInv, Fenced, WriterInv, ClientStep
  PROVE  WriterInv'
<1>1. raised => raised'
  <2>1. CASE LookupFails \/ \E r \in rpcs : CallFails(r)
    BY <2>1, FailedSession
  <2>2. CASE ~(LookupFails \/ \E r \in rpcs : CallFails(r))
    BY <2>2
    DEF ClientStep, Act, Imagine, Dream, SendFork, SendOp, Attach, SendReplay, NoServer,
        BeginClose, EndClose, ForkDone, ReplayDone, OpDone, ForkFails, resultVars
  <2> QED
    BY <2>1, <2>2
<1>3. CASE Aside
  BY <1>1, <1>3, AsideEffect DEF WriterInv, OneWriter
<1>4. CASE Sends
  <2>1. PICK r : Asking(r) /\ rpcs' = rpcs \cup {r}
    BY <1>4, SendEffect
  <2>2. ~Waiting /\ me.attached /\ pc \in {"fork", "call", "replay"} /\ UNCHANGED raised
    BY <1>4, SendEffect DEF resultVars
  <2>3. \A q \in rpcs : q.method # "fork" => q.sid \in left
    BY <2>2 DEF CallInv, Fenced, Target
  <2>4. ~raised => r.sid \notin left
    BY <2>1, <2>2, TheSession DEF Asking, Fenced, Dropped, me
  <2>5. ~(raised /\ Persistent) => ~raised
    BY <2>2 DEF PolicyInv
  <2> QED
    BY <2>1, <2>2, <2>3, <2>4, <2>5 DEF WriterInv, OneWriter
<1>5. ASSUME NEW r \in rpcs, Returns(r) PROVE WriterInv'
  <2> DEFINE dead == [r EXCEPT !.live = FALSE]
  <2>1. \A q \in rpcs' : q \in rpcs \ {r} \/ q = dead
    BY <1>5, ReturnEffect
  <2>2. dead.addr = r.addr /\ dead.sid = r.sid /\ dead.method = r.method
    BY DEF ServersTypeOK, Requests
  <2> HIDE DEF dead
  <2>3. OneWriter => OneWriter'
    BY <2>1, <2>2 DEF OneWriter
  <2> QED
    BY <1>1, <2>3 DEF WriterInv
<1> QED
  BY <1>3, <1>4, <1>5, StepsOfThree

LEMMA ServerIds ==
  ASSUME ServersTypeOK, ClientTypeOK, PolicyInv, CallInv, SidInv, Fenced, Accounts, WriterInv,
         ServerStep, UNCHANGED <<listed, clientVars>>
  PROVE  SidInv' /\ Fenced' /\ Accounts' /\ WriterInv'
<1>0. UNCHANGED <<pc, who, sess, dreaming, todo, k, drawn, raised, left>>
  BY DEF clientVars, policyVars, sessionVars, resultVars
<1>1. SidInv'
  BY <1>0 DEF SidInv
<1>2. Fenced'
  <2>1. \A s \in rpcs' : \E r \in rpcs : Same(s, r)
    BY ServerCalls
  <2>2. \A s \in rpcs' : ~s.live => Target(s) \in left
    BY <2>1 DEF Same, Target, Fenced
  <2> QED
    BY <1>0, <2>2 DEF Fenced, Dropped
<1>3. Accounts'
  <2>1. ASSUME NEW r \in rpcs, r.live PROVE HeldAt(r.addr, Target(r))
    BY <2>1, LiveTarget, TheSession DEF HeldAt, me
  <2>2. \A a \in Addrs : \A sid : HeldAt(a, sid)' <=> HeldAt(a, sid)
    BY <1>0 DEF HeldAt
  <2>3. ASSUME NEW a \in Addrs, NEW sid \in DOMAIN sessions'[a]
        PROVE  sid \in left \/ HeldAt(a, sid)
    <3>1. sid \in DOMAIN sessions[a] \/ \E r \in rpcs : r.addr = a /\ Target(r) = sid
      BY ServerTables
    <3> QED
      BY <2>1, <3>1 DEF Accounts, Fenced
  <2> QED
    BY <1>0, <2>2, <2>3 DEF Accounts
<1>4. WriterInv'
  BY <1>0, ServerCalls DEF WriterInv
<1> QED
  BY <1>1, <1>2, <1>3, <1>4

LEMMA PlumbingStep == ASSUME Plumbing, [Next]_vars PROVE Plumbing'
<1>0. /\ TypeOK /\ ServersTypeOK /\ ClientTypeOK /\ PolicyInv /\ CallInv
      /\ SidInv /\ Fenced /\ Accounts /\ WriterInv
  BY DEF Plumbing, TypeOK
<1>1. TypeOK' /\ PolicyInv' /\ CallInv'
  BY <1>0, TypeStep, PolicyStep, CallStep
<1>2. CASE ClientStep
  BY <1>0, <1>1, <1>2, IdStep, WriterStep DEF Plumbing
<1>3. CASE ServerStep /\ UNCHANGED <<listed, clientVars>>
  BY <1>0, <1>1, <1>3, ServerIds DEF Plumbing
<1>4. CASE RegistryStep \/ UNCHANGED vars
  <2>1. UNCHANGED <<serverVars, clientVars>>
    BY <1>4 DEF RegistryStep, Announce, Expire, vars
  <2>2. SidInv' /\ Fenced' /\ Accounts' /\ WriterInv'
    BY <1>0, <2>1 DEF SidInv, Fenced, Dropped, Target, Accounts, HeldAt, WriterInv, OneWriter,
                      serverVars, clientVars, policyVars, sessionVars, resultVars
  <2> QED
    BY <1>1, <2>2 DEF Plumbing
<1> QED
  BY <1>2, <1>3, <1>4 DEF Next

LEMMA PlumbingInit == ASSUME Init PROVE Plumbing
<1>0. /\ inc = [a \in Addrs |-> IF a \in Founders THEN 1 ELSE 0]
      /\ up = [a \in Addrs |-> a \in Founders]
      /\ sessions = [a \in Addrs |-> << >>] /\ rpcs = {}
      /\ MaxInc \in Nat \ {0} /\ Founders \subseteq Addrs
  BY RSSMBoundsAreValid, SessionBoundsAreValid DEF Init, ServersInit, SessionBounds
<1>1. ServersTypeOK
  <2>1. \A a \in Addrs : sessions[a] = << >>
    BY <1>0
  <2>2. \A a \in Addrs : IsTable(sessions[a])
    BY <2>1, EmptyTable
  <2>3. sessions = [a \in Addrs |-> sessions[a]]
    BY <1>0
  <2>4. inc \in [Addrs -> 0 .. MaxInc] /\ up \in [Addrs -> BOOLEAN]
    BY <1>0
  <2>5. \A a \in Addrs : up[a] => inc[a] > 0
    <3>1. ASSUME NEW a \in Addrs PROVE up[a] <=> a \in Founders
      BY <1>0, Zenon
    <3> QED
      BY <1>0, <3>1
  <2> QED
    BY <1>0, <2>2, <2>3, <2>4, <2>5 DEF ServersTypeOK
<1>2. NewSession(<< >>, {}) \in Sessions /\ ~NewSession(<< >>, {}).attached
  BY NoOps DEF NewSession, Sessions, Sids
<1>3. sess \in [Both -> Sessions] /\ \A s \in Both : ~sess[s].attached
  BY <1>2 DEF Init, Both
<1>4. ClientTypeOK
  <2>1. listed \subseteq Peers
    BY <1>0 DEF Init, CurrentPeer, Peers
  <2>2. todo \in Ops
    BY DEF Init, Op, Ops
  <2>3. {k, drawn, acts, dreamt, j} \subseteq Nat /\ left \subseteq Sids /\ feat \in States
    BY NoOps DEF Init
  <2>4. dreaming \in BOOLEAN /\ raised \in BOOLEAN
    BY DEF Init
  <2>5. pc = "idle" /\ who = "acting"
    BY DEF Init
  <2> QED
    BY <1>3, <2>1, <2>2, <2>3, <2>4, <2>5 DEF ClientTypeOK, Both
<1>5. CallInv /\ Accounts /\ WriterInv
  <2>1. \A a \in Addrs : DOMAIN sessions[a] = {}
    BY <1>0
  <2> QED
    BY <1>0, <2>1 DEF Init, CallInv, Waiting, Accounts, WriterInv, OneWriter
<1>6. OneCall
  <2>1. {r \in rpcs : r.live} = {}
    BY <1>0
  <2> QED
    BY <2>1, FS_EmptySet DEF OneCall, Init
<1>7. PolicyInv
  BY <1>3 DEF Init, PolicyInv, InCall, Both
<1>8. SidInv /\ Fenced
  BY <1>0, <1>3 DEF Init, SidInv, Fenced
<1> QED
  BY <1>1, <1>4, <1>5, <1>6, <1>7, <1>8 DEF Plumbing, TypeOK

(***************************************************************************)
(* However calls, failures, crashes and restarts interleave, the policy    *)
(* waits for one call at most, and every call, session and session id is   *)
(* as the code expects it: the invariant the other theorems rest on.       *)
(***************************************************************************)
THEOREM PlumbingCorrect == Spec => []Plumbing
<1>1. Init => Plumbing
  BY PlumbingInit
<1>2. Plumbing /\ [Next]_vars => Plumbing'
  BY PlumbingStep
<1> QED
  BY <1>1, <1>2, PTL DEF Spec

(***************************************************************************)
(* Every variable of the policy and of the workers keeps its type, and no  *)
(* more than one call of the policy is under way.                          *)
(***************************************************************************)
THEOREM TypesCorrect == Spec => []TypeOK
<1>1. Plumbing => TypeOK
  BY DEF Plumbing
<1> QED
  BY <1>1, PlumbingCorrect, PTL

(***************************************************************************)
(* No two operations are ever under way in one session of a worker, though *)
(* a worker reads the state in the executor and writes it back later, and  *)
(* still works on calls the policy has given up on.  The premise is a      *)
(* caller that stops at "too many failures": one that goes on may call a   *)
(* session in which the operation that failed is still under way.          *)
(***************************************************************************)
THEOREM NeverTwoWriters == ASSUME ~Persistent PROVE Spec => []OneWriter
<1>1. Plumbing => OneWriter
  BY DEF Plumbing, WriterInv
<1> QED
  BY <1>1, PlumbingCorrect, PTL

(***************************************************************************)
(* No worker keeps a session the policy has forgotten, unless a call to it *)
(* failed or its close call was lost.                                      *)
(***************************************************************************)
THEOREM SessionsAlwaysAccountedFor == Spec => []SessionsAccountedFor
<1>1. Plumbing => SessionsAccountedFor
  BY DEF Plumbing, Accounts, HeldAt, SessionsAccountedFor, Held, Both
<1> QED
  BY <1>1, PlumbingCorrect, PTL

-----------------------------------------------------------------------------
(***************************************************************************)
(* What a server does to one session of its table.                         *)
(***************************************************************************)
\* The server r was sent to takes a step of it.
Moves(r) ==
  Enqueue(r) \/ ObserveNew(r, Idle(r.addr)) \/ Unknown(r) \/ Compute(r) \/ WriteBack(r)
  \/ Fork(r) \/ Cancel(r)

\* A session nobody writes to and that is not idle stays as it is.
LEMMA Untouched ==
  ASSUME ServersTypeOK, ServerStep, NEW a \in Addrs, NEW sid, sid \notin Idle(a),
         \A r \in rpcs : Moves(r) /\ r.addr = a => Target(r) # sid,
         ~Crash(a)
  PROVE  /\ sid \in DOMAIN sessions'[a] <=> sid \in DOMAIN sessions[a]
         /\ sid \in DOMAIN sessions[a] => sessions'[a][sid] = sessions[a][sid]
<1> DEFINE Goal == /\ sid \in DOMAIN sessions'[a] <=> sid \in DOMAIN sessions[a]
                   /\ sid \in DOMAIN sessions[a] => sessions'[a][sid] = sessions[a][sid]
<1>0. sessions = [c \in Addrs |-> sessions[c]] /\ \A r \in rpcs : r.addr \in Addrs
  BY DEF ServersTypeOK, Requests
<1>1. ASSUME NEW c \in Addrs, NEW t, sessions' = [sessions EXCEPT ![c] = t],
             c = a => /\ sid \in DOMAIN t <=> sid \in DOMAIN sessions[a]
                      /\ sid \in DOMAIN sessions[a] => t[sid] = sessions[a][sid]
      PROVE  Goal
  <2>1. sessions'[a] = IF a = c THEN t ELSE sessions[a]
    BY <1>0, <1>1
  <2> QED
    BY <1>1, <2>1
<1>2. ASSUME UNCHANGED sessions PROVE Goal
  BY <1>2
<1>3. ASSUME NEW r \in rpcs, Moves(r) PROVE Goal
  <2>0. r.addr = a => Target(r) # sid
    BY <1>3
  <2>1. CASE ObserveNew(r, Idle(r.addr))
    <3>1. PICK gone, t : /\ sessions' = [sessions EXCEPT ![r.addr] = t]
                         /\ gone \subseteq Idle(r.addr)
                         /\ \/ t = Drop(sessions[r.addr], gone)
                            \/ t = Put(Drop(sessions[r.addr], gone), r.sid, << >>)
      BY <2>1 DEF ObserveNew
    <3>2. Target(r) = r.sid
      BY <2>1 DEF ObserveNew, Target
    <3>3. r.addr = a => r.sid # sid /\ sid \notin gone
      BY <2>0, <3>1, <3>2
    <3>4. r.addr = a => /\ sid \in DOMAIN t <=> sid \in DOMAIN sessions[a]
                        /\ sid \in DOMAIN sessions[a] => t[sid] = sessions[a][sid]
      <4> DEFINE kept == Drop(sessions[r.addr], gone)
    <4>1. r.addr = a => /\ sid \in DOMAIN kept <=> sid \in DOMAIN sessions[a]
                        /\ sid \in DOMAIN sessions[a] => kept[sid] = sessions[a][sid]
      BY <3>3 DEF Drop
    <4>2. r.sid # sid => /\ sid \in DOMAIN Put(kept, r.sid, << >>) <=> sid \in DOMAIN kept
                         /\ sid \in DOMAIN kept => Put(kept, r.sid, << >>)[sid] = kept[sid]
      <5> HIDE DEF kept
      <5> QED
        BY DEF Put
    <4>3. t = kept \/ t = Put(kept, r.sid, << >>)
      BY <3>1
    <4> HIDE DEF kept
    <4> QED
      BY <3>3, <4>1, <4>2, <4>3
    <3> QED
      BY <1>0, <1>1, <3>1, <3>4
  <2>2. CASE WriteBack(r)
    <3> DEFINE t == Put(sessions[r.addr], r.sid, r.out)
    <3>1. Target(r) = r.sid
      BY <2>2 DEF WriteBack, Target, ServersTypeOK
    <3>2. r.addr = a => /\ sid \in DOMAIN t <=> sid \in DOMAIN sessions[a]
                        /\ sid \in DOMAIN sessions[a] => t[sid] = sessions[a][sid]
      BY <2>0, <3>1 DEF Put
    <3>3. sessions' = [sessions EXCEPT ![r.addr] = t]
      BY <2>2 DEF WriteBack
    <3> HIDE DEF t
    <3> QED
      BY <1>0, <1>1, <3>2, <3>3
  <2>3. CASE Fork(r)
    <3> DEFINE t == Put(sessions[r.addr], r.n, sessions[r.addr][r.sid])
    <3>1. Target(r) = r.n
      BY <2>3 DEF Fork, Target
    <3>2. r.addr = a => /\ sid \in DOMAIN t <=> sid \in DOMAIN sessions[a]
                        /\ sid \in DOMAIN sessions[a] => t[sid] = sessions[a][sid]
      BY <2>0, <3>1 DEF Put
    <3>3. sessions' = [sessions EXCEPT ![r.addr] = t]
      BY <2>3 DEF Fork
    <3> HIDE DEF t
    <3> QED
      BY <1>0, <1>1, <3>2, <3>3
  <2>4. CASE Enqueue(r) \/ Unknown(r) \/ Compute(r) \/ Cancel(r)
    BY <1>2, <2>4 DEF Enqueue, Unknown, Compute, Cancel
  <2> QED
    BY <1>3, <2>1, <2>2, <2>3, <2>4 DEF Moves
<1>4. ASSUME NEW c \in Addrs, Collect(c, Idle(c)) PROVE Goal
  <2>1. PICK gone \in SUBSET Idle(c) : sessions' = [sessions EXCEPT ![c] = Drop(sessions[c], gone)]
    BY <1>4 DEF Collect
  <2> DEFINE t == Drop(sessions[c], gone)
  <2>2. c = a => /\ sid \in DOMAIN t <=> sid \in DOMAIN sessions[a]
                 /\ sid \in DOMAIN sessions[a] => t[sid] = sessions[a][sid]
    BY <2>1 DEF Drop
  <2> HIDE DEF t
  <2> QED
    BY <1>1, <2>1, <2>2 DEF t
<1>5. ASSUME NEW c \in Addrs, Crash(c) PROVE Goal
  <2>1. c # a
    BY <1>5
  <2>2. sessions' = [sessions EXCEPT ![c] = Drop(sessions[c], DOMAIN sessions[c])]
    BY <1>5 DEF Crash
  <2> QED
    BY <1>1, <2>1, <2>2
<1>6. ASSUME NEW c \in Addrs, Start(c) PROVE Goal
  BY <1>2, <1>6 DEF Start
<1> QED
  BY <1>3, <1>4, <1>5, <1>6 DEF ServerStep, Moves

-----------------------------------------------------------------------------
(***************************************************************************)
(* Dreaming leaves the acting session alone.                               *)
(***************************************************************************)
LEMMA DreamsApart ==
  ASSUME Plumbing, ~Persistent, ~LongIdle, dreaming, [Next]_vars
  PROVE  LeavesActing
<1> DEFINE s == sess["acting"]
<1>0. /\ ServersTypeOK /\ ClientTypeOK /\ PolicyInv /\ CallInv /\ SidInv /\ Fenced
      /\ "acting" \in Both /\ "dream" \in Both /\ who \in Both
      /\ sessions = [a \in Addrs |-> sessions[a]]
      /\ \A t \in Both : sess[t].attached => sess[t].peer.addr \in Addrs
      /\ ~raised
  BY TheSession DEF Plumbing, TypeOK, Both, ServersTypeOK, PolicyInv
<1>1. ASSUME sess'["acting"] = s,
             s.attached /\ up'[s.peer.addr] =>
               /\ s.sid \in DOMAIN sessions'[s.peer.addr] <=> s.sid \in DOMAIN sessions[s.peer.addr]
               /\ s.sid \in DOMAIN sessions[s.peer.addr] =>
                    sessions'[s.peer.addr][s.sid] = sessions[s.peer.addr][s.sid]
      PROVE  LeavesActing
  BY <1>1 DEF LeavesActing, StateOf
<1>2. ASSUME UNCHANGED sessions, sess'["acting"] = s PROVE LeavesActing
  BY <1>1, <1>2
<1>3. CASE Dream \/ Sends \/ NoServer \/ BeginClose
  BY <1>0, <1>2, <1>3, SendEffect
  DEF Dream, NoServer, BeginClose, serverVars, sessionVars
<1>4. CASE Attach
  <2>1. who = "dream" /\ UNCHANGED sessions
    BY <1>0, <1>4 DEF Attach, PolicyInv, InCall, serverVars
  <2>2. sess'["acting"] = s
    BY <1>0, <1>4, <2>1 DEF Attach, ClientTypeOK
  <2> QED
    BY <1>2, <2>1, <2>2
<1>5. CASE LookupFails \/ \E r \in rpcs : CallFails(r)
  <2>1. InCall /\ \A t \in Both : t # who => sess'[t] = sess[t]
    BY <1>0, <1>5, FailedSession
  <2>2. UNCHANGED sessions
    BY <1>5 DEF LookupFails, CallFails, serverVars
  <2> QED
    BY <1>0, <1>2, <2>1, <2>2 DEF PolicyInv
<1>6. CASE EndClose
  <2> DEFINE d == sess["dream"]
  <2>1. sess' = [sess EXCEPT !["dream"].attached = FALSE]
    BY <1>6 DEF EndClose
  <2>2. sess'["acting"] = s
    BY <1>0, <2>1, DetachEffect
  <2>3. \/ UNCHANGED sessions
        \/ d.attached /\ sessions' = [sessions EXCEPT ![d.peer.addr] =
                                        Drop(sessions[d.peer.addr], {d.sid})]
    BY <1>6 DEF EndClose, Close
  <2>4. ASSUME d.attached, s.attached,
               sessions' = [sessions EXCEPT ![d.peer.addr] = Drop(sessions[d.peer.addr], {d.sid})]
        PROVE  /\ s.sid \in DOMAIN sessions'[s.peer.addr] <=> s.sid \in DOMAIN sessions[s.peer.addr]
               /\ s.sid \in DOMAIN sessions[s.peer.addr] =>
                    sessions'[s.peer.addr][s.sid] = sessions[s.peer.addr][s.sid]
    <3>1. s.sid # d.sid
      BY <1>0, <2>4 DEF SidInv
    <3>2. sessions'[s.peer.addr] = IF s.peer.addr = d.peer.addr
                                   THEN Drop(sessions[d.peer.addr], {d.sid})
                                   ELSE sessions[s.peer.addr]
      BY <1>0, <2>4
    <3> QED
      BY <3>1, <3>2 DEF Drop
  <2> QED
    BY <1>1, <1>2, <2>2, <2>3, <2>4
<1>7. ASSUME NEW r \in rpcs, ForkDone(r) \/ ReplayDone(r) \/ OpDone(r) \/ ForkFails(r)
      PROVE  LeavesActing
  <2>1. UNCHANGED sessions
    BY <1>7 DEF ForkDone, ReplayDone, OpDone, ForkFails
  <2>2. CASE ForkDone(r)
    <3>1. sess' = [sess EXCEPT !["dream"] = AttachedTo(sess["dream"], sess["acting"].peer, drawn)]
      BY <2>2 DEF ForkDone, Adopt, AttachedTo
    <3>2. sess'["acting"] = s
      BY <1>0, <3>1 DEF ClientTypeOK
    <3> QED
      BY <1>2, <2>1, <3>2
  <2>3. CASE OpDone(r)
    <3>1. who = "dream" /\ \A t \in Both : t # who => sess'[t] = sess[t]
      BY <1>0, <2>3, LogEffect DEF OpDone, PolicyInv, InCall, ClientTypeOK
    <3> QED
      BY <1>0, <1>2, <2>1, <3>1
  <2>4. CASE ReplayDone(r) \/ ForkFails(r)
    BY <1>2, <2>1, <2>4 DEF ReplayDone, ForkFails
  <2> QED
    BY <1>7, <2>2, <2>3, <2>4
<1>8. CASE ServerStep /\ UNCHANGED <<listed, clientVars>>
  <2>1. sess' = sess
    BY <1>8 DEF clientVars, sessionVars
  <2>2. ASSUME s.attached, up'[s.peer.addr]
        PROVE  /\ s.sid \in DOMAIN sessions'[s.peer.addr] <=> s.sid \in DOMAIN sessions[s.peer.addr]
               /\ s.sid \in DOMAIN sessions[s.peer.addr] =>
                    sessions'[s.peer.addr][s.sid] = sessions[s.peer.addr][s.sid]
    <3>1. PICK a \in Addrs : a = s.peer.addr
      BY <1>0, <2>2
    <3>2. PICK sid : sid = s.sid
      OBVIOUS
    <3>3. sid \notin Idle(a)
      BY <1>0, <2>2, <3>2 DEF Idle, Held, Both
    <3>4. sid \notin left
      BY <1>0, <2>2, <3>2 DEF Fenced, Dropped
    <3>5. ASSUME NEW r \in rpcs PROVE Target(r) # sid
      <4>1. CASE ~r.live
        BY <1>0, <3>4, <4>1 DEF Fenced
      <4>2. CASE r.live
        <5>1. Target(r) = drawn \/ (who = "dream" /\ me.attached /\ Target(r) = me.sid)
          BY <1>0, <4>2, LiveTarget DEF PolicyInv
        <5> QED
          BY <1>0, <2>2, <3>2, <5>1, TheSession DEF SidInv, me
      <4> QED
        BY <4>1, <4>2
    <3>6. ~Crash(a)
      BY <1>0, <2>2, <3>1 DEF Crash, ServersTypeOK
    <3>7. /\ sid \in DOMAIN sessions'[a] <=> sid \in DOMAIN sessions[a]
          /\ sid \in DOMAIN sessions[a] => sessions'[a][sid] = sessions[a][sid]
      <4> HIDE DEF s
      <4> QED
        BY <1>0, <1>8, <3>3, <3>5, <3>6, Untouched
    <3> QED
      BY <3>1, <3>2, <3>7
  <2> QED
    BY <1>1, <2>1, <2>2
<1>9. CASE RegistryStep \/ UNCHANGED vars
  BY <1>2, <1>9
  DEF RegistryStep, Announce, Expire, vars, serverVars, clientVars, sessionVars
<1> QED
  BY <1>0, <1>3, <1>4, <1>5, <1>6, <1>7, <1>8, <1>9 DEF Next, ClientStep, Sends, Act, Imagine

(***************************************************************************)
(* Dreaming never changes the acting session, nor its state on a running   *)
(* worker, whatever calls are lost or late.  The premises are the two that *)
(* the code relies on: a caller that stops at "too many failures", and     *)
(* sessions in use that gc() does not take for idle.                       *)
(***************************************************************************)
THEOREM ActingNeverDisturbed ==
  ASSUME ~Persistent, ~LongIdle PROVE Spec => ActingUndisturbed
<1>1. Plumbing /\ [Next]_vars => [dreaming => LeavesActing]_vars
  BY DreamsApart
<1> QED
  BY <1>1, PlumbingCorrect, PTL DEF Spec, ActingUndisturbed

-----------------------------------------------------------------------------
(***************************************************************************)
(* Which states the workers hold.  A worker that was started once does not *)
(* come back with an empty table, so what it holds stays.                  *)
(***************************************************************************)
\* A process is started only where another may follow the ones before.
LEMMA Processes ==
  ASSUME ServersTypeOK, ServerStep, NEW a \in Addrs
  PROVE  /\ inc[a] > 0 => inc'[a] > 0
         /\ up'[a] => up[a] \/ inc[a] < MaxInc
<1>0. inc \in [Addrs -> 0 .. MaxInc] /\ up \in [Addrs -> BOOLEAN] /\ MaxInc \in Nat
  BY RSSMBoundsAreValid DEF ServersTypeOK
<1>1. ASSUME NEW c \in Addrs, Start(c)
      PROVE  (inc[a] > 0 => inc'[a] > 0) /\ (up'[a] => up[a] \/ c = a)
  <2>1. inc' = [inc EXCEPT ![c] = inc[c] + 1] /\ up' = [up EXCEPT ![c] = TRUE]
    BY <1>1 DEF Start
  <2>2. inc'[a] = IF a = c THEN inc[c] + 1 ELSE inc[a]
    BY <1>0, <2>1
  <2>3. a # c => up'[a] = up[a]
    BY <1>0, <2>1
  <2> QED
    BY <1>0, <2>2, <2>3
<1>2. ASSUME NEW c \in Addrs, Crash(c) PROVE UNCHANGED inc /\ (up'[a] => up[a])
  <2>1. up' = [up EXCEPT ![c] = FALSE] /\ UNCHANGED inc
    BY <1>2 DEF Crash
  <2> QED
    BY <1>0, <2>1
<1>3. CASE ~\E c \in Addrs : Start(c) \/ Crash(c)
  <2>1. UNCHANGED <<inc, up>>
    BY <1>3
    DEF ServerStep, Enqueue, ObserveNew, Unknown, Compute, WriteBack, Fork, Cancel, Collect
  <2> QED
    BY <2>1
<1>4. ASSUME NEW c \in Addrs, Start(c) PROVE inc[c] < MaxInc
  BY <1>4 DEF Start
<1> QED
  <2>1. CASE \E c \in Addrs : Start(c)
    BY <1>1, <1>4, <2>1
  <2>2. CASE \E c \in Addrs : Crash(c)
    BY <1>2, <2>2
  <2> QED
    BY <1>3, <2>1, <2>2

LEMMA PeersStep == ASSUME Plumbing, PeersInv, [Next]_vars PROVE PeersInv'
<1>0. /\ ServersTypeOK /\ ClientTypeOK /\ PolicyInv /\ who \in Both
      /\ "acting" \in Both /\ "dream" \in Both
      /\ inc \in [Addrs -> 0 .. MaxInc] /\ MaxInc \in Nat /\ drawn \in Sids
      /\ \A s \in Both : sess[s].attached => sess[s].peer.addr \in Addrs
      /\ \A p \in listed : p.addr \in Addrs
  BY TheSession, RSSMBoundsAreValid
  DEF Plumbing, TypeOK, Both, ServersTypeOK, ClientTypeOK, Peers, Sids
<1>1. \A a \in Addrs : inc[a] > 0 => inc'[a] > 0
  <2>1. CASE ServerStep
    BY <1>0, <2>1, Processes
  <2>2. CASE ClientStep
    BY <1>0, <2>2, StepsOfThree, AsideEffect, SendEffect, ReturnEffect DEF Plumbing
  <2> QED
    BY <2>1, <2>2 DEF Next, RegistryStep, Announce, Expire, vars, serverVars
<1>2. ASSUME UNCHANGED listed,
             \A s \in Both : sess'[s].attached =>
               \/ sess[s].attached /\ sess'[s].peer = sess[s].peer
               \/ sess'[s].peer \in listed
               \/ sess["acting"].attached /\ sess'[s].peer = sess["acting"].peer
      PROVE  PeersInv'
  BY <1>0, <1>1, <1>2 DEF PeersInv
<1>3. CASE Act \/ Dream \/ Sends \/ NoServer \/ BeginClose
  BY <1>0, <1>2, <1>3, SendEffect DEF Act, Dream, NoServer, BeginClose, sessionVars
<1>4. CASE Imagine
  <2>1. sess'["acting"] = sess["acting"] /\ ~sess'["dream"].attached
    BY <1>0, <1>4, InheritEffect DEF Imagine
  <2> QED
    BY <1>2, <1>4, <2>1 DEF Imagine, Both
<1>5. CASE Attach
  <2>1. PICK p \in listed : sess' = [sess EXCEPT ![who] = AttachedTo(sess[who], p, drawn)]
    BY <1>5 DEF Attach, AttachedTo
  <2>2. p \in Peers
    BY <1>0 DEF ClientTypeOK
  <2>3. sess'[who].peer = p /\ \A t \in Both : t # who => sess'[t] = sess[t]
    BY <1>0, <2>1, <2>2, AttachEffect
  <2> QED
    BY <1>2, <1>5, <2>3 DEF Attach
<1>6. CASE LookupFails \/ \E r \in rpcs : CallFails(r)
  <2>1. /\ \A t \in Both : t # who => sess'[t] = sess[t]
        /\ sess'[who].peer = me.peer /\ (sess'[who].attached => me.attached)
        /\ UNCHANGED listed
    BY <1>0, <1>6, FailedSession
  <2> QED
    BY <1>0, <1>2, <2>1 DEF me
<1>7. CASE EndClose
  <2> DEFINE it == IF dreaming THEN "dream" ELSE "acting"
  <2>1. /\ \A t \in Both : t # it => sess'[t] = sess[t]
        /\ ~sess'[it].attached
    BY <1>0, <1>7, DetachEffect DEF EndClose
  <2> QED
    BY <1>0, <1>2, <1>7, <2>1 DEF EndClose
<1>8. ASSUME NEW r \in rpcs, ForkDone(r) PROVE PeersInv'
  <2>1. /\ sess["acting"].attached
        /\ sess' = [sess EXCEPT !["dream"] =
                                  AttachedTo(sess["dream"], sess["acting"].peer, drawn)]
    BY <1>0, <1>8 DEF ForkDone, Adopt, AttachedTo, PolicyInv
  <2>2. sess["acting"].peer \in Peers
    BY <1>0, <2>1, TheSession
  <2>3. /\ sess'["acting"] = sess["acting"]
        /\ sess'["dream"].peer = sess["acting"].peer
    BY <1>0, <2>1, <2>2, AttachEffect
  <2> QED
    BY <1>2, <1>8, <2>1, <2>3 DEF ForkDone, Both
<1>9. ASSUME NEW r \in rpcs, ReplayDone(r) \/ ForkFails(r) PROVE PeersInv'
  BY <1>2, <1>9 DEF ReplayDone, ForkFails
<1>10. ASSUME NEW r \in rpcs, OpDone(r) PROVE PeersInv'
  <2>1. /\ \A t \in Both : t # who => sess'[t] = sess[t]
        /\ sess'[who].attached = me.attached /\ sess'[who].peer = me.peer
    BY <1>0, <1>10, LogEffect DEF OpDone, ClientTypeOK
  <2> QED
    BY <1>0, <1>2, <1>10, <2>1 DEF OpDone, me
<1>11. CASE RegistryStep
  <2>1. UNCHANGED <<sess, inc>>
    BY <1>11 DEF RegistryStep, Announce, Expire, serverVars, clientVars, sessionVars
  <2>2. \A p \in listed' : p \in listed \/ \E a \in Addrs : p = CurrentPeer(a) /\ up[a]
    BY <1>11 DEF RegistryStep, Announce, Expire
  <2> QED
    BY <1>0, <2>1, <2>2 DEF PeersInv, CurrentPeer, ServersTypeOK
<1>12. CASE UNCHANGED <<listed, clientVars>>
  BY <1>2, <1>12 DEF clientVars, sessionVars
<1> QED
  BY <1>3, <1>4, <1>5, <1>6, <1>7, <1>8, <1>9, <1>10, <1>11, <1>12
  DEF Next, ClientStep, Sends, vars

\* The sessions the policy uses: not idle, and on a server that stays up or is gone.
LEMMA InUse ==
  ASSUME SessionsKept, ServersTypeOK, ClientTypeOK, PolicyInv, PeersInv, ServerStep,
         NEW a \in Addrs, NEW sid, HeldAt(a, sid)
  PROVE  sid \notin Idle(a) /\ inc[a] > 0 /\ (up'[a] => up[a] /\ ~Crash(a))
<1>0. /\ inc \in [Addrs -> 0 .. MaxInc] /\ up \in [Addrs -> BOOLEAN] /\ MaxInc = 1 /\ ~LongIdle
  BY DEF SessionsKept, ServersTypeOK
<1>1. inc[a] > 0
  BY DEF HeldAt, PeersInv, PolicyInv, Both
<1>2. sid \notin Idle(a)
  BY <1>0 DEF HeldAt, Idle, Held, Both
<1>3. up'[a] => up[a]
  BY <1>0, <1>1, Processes
<1>4. Crash(a) => ~up'[a]
  BY <1>0 DEF Crash
<1> QED
  BY <1>1, <1>2, <1>3, <1>4

LEMMA StaysThere ==
  ASSUME SessionsKept, ServersTypeOK, ClientTypeOK, PolicyInv, PeersInv, ServerStep,
         NEW a \in Addrs, NEW sid, HeldAt(a, sid), NEW b,
         \A r \in rpcs : Moves(r) /\ r.addr = a => Target(r) # sid
  PROVE  /\ ~Crash(a) /\ Has(a, sid, b) => Has(a, sid, b)'
         /\ At(a, sid, b) => At(a, sid, b)'
  BY InUse, Untouched DEF Has, At

\* What a call that the policy waits for becomes.
LEMMA LiveMoves ==
  ASSUME ServersTypeOK, ServerStep, NEW s \in rpcs', s.live
  PROVE  \E r \in rpcs : /\ Same(s, r)
                         /\ s.st # "lost" => ~Crash(s.addr)
                         /\ s = r \/ s.st = "lost" \/ Moves(r)
<1>0. \A r \in rpcs : r \in Requests
  BY DEF ServersTypeOK
<1>1. ASSUME NEW r \in rpcs, Moves(r) PROVE s \in rpcs \ {r} \/ Same(s, r)
  <2>1. \A st : Same([r EXCEPT !.st = st], r)
    BY <1>0 DEF Requests, Same
  <2>2. \A out : Same([r EXCEPT !.st = "computed", !.out = out], r)
    BY <1>0 DEF Requests, Same
  <2>3. CASE Cancel(r)
    BY <2>3 DEF Cancel
  <2>4. CASE ~Cancel(r)
    <3>1. PICK q : Same(q, r) /\ (Becomes(r, q) \/ Answer(r, q))
      <4>1. CASE Compute(r)
        BY <2>2, <4>1 DEF Compute
      <4>2. CASE ~Compute(r)
        BY <1>1, <2>1, <2>4, <4>2 DEF Moves, Enqueue, ObserveNew, Unknown, WriteBack, Fork
      <4> QED
        BY <4>1, <4>2
    <3> QED
      BY <3>1 DEF Becomes, Answer
  <2> QED
    BY <2>3, <2>4
<1>2. ASSUME NEW a \in Addrs, Crash(a)
      PROVE  \/ s \in rpcs /\ s.addr # a
             \/ s.st = "lost" /\ \E r \in rpcs : Same(s, r)
  <2> DEFINE lost(r) == [r EXCEPT !.st = "lost"]
  <2>1. \A r \in rpcs : Same(lost(r), r) /\ lost(r).st = "lost"
    BY <1>0 DEF Requests, Same
  <2>2. rpcs' = {r \in rpcs : r.addr # a} \cup {lost(r) : r \in {q \in rpcs : q.addr = a /\ q.live}}
    BY <1>2 DEF Crash
  <2> HIDE DEF lost
  <2> QED
    BY <2>1, <2>2
<1>3. Same(s, s)
  BY DEF Same
<1>4. Crash(s.addr) => s.st = "lost"
  <2>1. ASSUME Crash(s.addr) PROVE s.st = "lost"
    <3>1. s.addr \in Addrs
      BY ServerTypes DEF ServersTypeOK, Requests
    <3> QED
      BY <1>2, <2>1, <3>1
  <2> QED
    BY <2>1
<1>5. ASSUME NEW a \in Addrs, Collect(a, Idle(a)) \/ Start(a) PROVE s \in rpcs
  BY <1>5 DEF Collect, Start
<1> QED
  BY <1>1, <1>2, <1>3, <1>4, <1>5 DEF ServerStep, Moves

\* An operation that is called is applied to the state it was called in.
LEMMA CallMoves ==
  ASSUME SessionsKept, Plumbing, PeersInv, ServerStep, ~raised, InCall,
         NEW r \in rpcs, r.live, NEW b, NEW op, op = [method |-> r.method, n |-> r.n],
         Called(r, b, op), NEW s \in rpcs', s.live
  PROVE  Called(s, b, op)'
<1>0. /\ ServersTypeOK /\ ClientTypeOK /\ PolicyInv /\ CallInv /\ Fenced
      /\ sessions = [c \in Addrs |-> sessions[c]]
      /\ r \in Requests /\ r.addr \in Addrs
  BY DEF Plumbing, TypeOK, ServersTypeOK, Requests
<1>1. /\ r.method # "fork" /\ Target(r) = r.sid /\ HeldAt(r.addr, r.sid) /\ r.sid \notin left
  <2>1. pc # "awaitFork" /\ pc # "close"
    BY DEF InCall
  <2> QED
    BY <1>0, <2>1, LiveTarget, TheSession DEF HeldAt, Fenced, Dropped, me
<1>2. \A q \in rpcs : q # r => ~q.live /\ Target(q) # r.sid
  BY <1>0, <1>1 DEF CallInv, Fenced
<1>3. /\ s.addr = r.addr /\ s.sid = r.sid
      /\ s = r \/ s.st = "lost" \/ Moves(r)
      /\ s.st # "lost" => ~Crash(r.addr)
  <2>1. PICK q \in rpcs : /\ Same(s, q)
                          /\ s.st # "lost" => ~Crash(s.addr)
                          /\ s = q \/ s.st = "lost" \/ Moves(q)
    BY <1>0, LiveMoves
  <2>2. q = r
    BY <1>2, <2>1 DEF Same
  <2> QED
    BY <2>1, <2>2 DEF Same
<1>4. CASE s.st = "lost"
  BY <1>4 DEF Called
<1>5. CASE ~Moves(r) /\ s.st # "lost"
  <2>1. s = r
    BY <1>3, <1>5
  <2>2. /\ \A c : Has(r.addr, r.sid, c) => Has(r.addr, r.sid, c)'
        /\ At(r.addr, r.sid, b) => At(r.addr, r.sid, b)'
    BY <1>0, <1>1, <1>2, <1>3, <1>5, StaysThere
  <2> HIDE DEF Has, At
  <2> QED
    BY <2>1, <2>2 DEF Called
<1>6. CASE Moves(r) /\ s.st # "lost"
  <2>1. \A x : Becomes(r, x) \/ Answer(r, x) => s = x
    BY <1>2 DEF Becomes, Answer
  <2>2. CASE Enqueue(r)
    <3>1. s = [r EXCEPT !.st = "queued"]
      BY <2>1, <2>2 DEF Enqueue
    <3>2. s.st = "queued" /\ Has(r.addr, r.sid, b) /\ UNCHANGED sessions
      BY <1>0, <2>2, <3>1 DEF Enqueue, Arrives, Called, At, Has, Requests
    <3> QED
      BY <1>3, <3>2 DEF Called, Has
  <2>3. CASE ObserveNew(r, Idle(r.addr))
    <3>1. b = << >>
      BY <2>3 DEF ObserveNew, Arrives, Called, At, Has
    <3>2. PICK t : /\ sessions' = [sessions EXCEPT ![r.addr] = Put(t, r.sid, << >>)]
                   /\ s = [r EXCEPT !.st = "queued"]
                   \/ s = [r EXCEPT !.st = "refused"]
      BY <2>1, <2>3 DEF ObserveNew
    <3>3. CASE s = [r EXCEPT !.st = "refused"]
      <4>1. s.st = "refused"
        BY <1>0, <3>3 DEF Requests
      <4> QED
        BY <4>1 DEF Called
    <3>4. CASE /\ sessions' = [sessions EXCEPT ![r.addr] = Put(t, r.sid, << >>)]
               /\ s = [r EXCEPT !.st = "queued"]
      <4>1. s.st = "queued"
        BY <1>0, <3>4 DEF Requests
      <4>2. sessions'[r.addr] = Put(t, r.sid, << >>)
        BY <1>0, <3>4
      <4>3. Has(r.addr, r.sid, b)'
        BY <3>1, <4>2 DEF Has, Put
      <4> QED
        BY <1>3, <4>1, <4>3 DEF Called
    <3> QED
      BY <3>2, <3>3, <3>4
  <2>4. CASE Unknown(r)
    <3>1. s = [r EXCEPT !.st = "refused"]
      BY <2>1, <2>4 DEF Unknown
    <3>2. s.st = "refused"
      BY <1>0, <3>1 DEF Requests
    <3> QED
      BY <3>2 DEF Called
  <2>5. CASE Compute(r)
    <3>1. s = [r EXCEPT !.st = "computed", !.out = Append(sessions[r.addr][r.sid], op)]
      BY <2>1, <2>5 DEF Compute
    <3>2. Has(r.addr, r.sid, b) /\ UNCHANGED sessions
      BY <2>5 DEF Compute, Called
    <3>3. s.st = "computed" /\ s.out = Append(b, op)
      BY <1>0, <3>1, <3>2 DEF Requests, Has
    <3> QED
      BY <1>3, <3>2, <3>3 DEF Called, Has
  <2>6. CASE WriteBack(r)
    <3>1. s = [r EXCEPT !.st = "done"]
      BY <2>1, <2>6 DEF WriteBack
    <3>2. r.out = Append(b, op)
      BY <2>6 DEF WriteBack, Called
    <3>3. s.st = "done" /\ s.out = Append(b, op)
      BY <1>0, <3>1, <3>2 DEF Requests
    <3>4. sessions' = [sessions EXCEPT ![r.addr] = Put(sessions[r.addr], r.sid, r.out)]
      BY <2>6 DEF WriteBack
    <3>5. sessions'[r.addr] = Put(sessions[r.addr], r.sid, r.out)
      BY <1>0, <3>4
    <3>6. Has(r.addr, r.sid, Append(b, op))'
      BY <3>2, <3>5 DEF Has, Put
    <3> QED
      BY <1>3, <3>3, <3>6 DEF Called
  <2> QED
    BY <1>1, <1>6, <2>2, <2>3, <2>4, <2>5, <2>6 DEF Moves, Fork, Cancel
<1> QED
  BY <1>4, <1>5, <1>6

\* The copy that a fork makes, until the policy hears of it.
LEMMA ForkMoves ==
  ASSUME SessionsKept, Plumbing, PeersInv, ServerStep, pc = "awaitFork", drawn' = drawn,
         NEW b, \A a \in Addrs : a = sess["acting"].peer.addr /\ up[a]
                                   => Has(a, sess["acting"].sid, b),
         NEW r \in rpcs, r.live, r.st = "done" => Has(r.addr, drawn, b),
         NEW s \in rpcs', s.live, s.st = "done"
  PROVE  Has(s.addr, drawn, b)'
<1>0. /\ ServersTypeOK /\ ClientTypeOK /\ PolicyInv /\ CallInv /\ Fenced /\ SidInv
      /\ sessions = [c \in Addrs |-> sessions[c]] /\ drawn \in Nat /\ left \subseteq Nat
      /\ r \in Requests /\ r.addr \in Addrs
  BY TheSession DEF Plumbing, TypeOK, ServersTypeOK, ClientTypeOK, Requests, Sids
<1>1. /\ r.method = "fork" /\ Target(r) = drawn /\ r.n = drawn
      /\ r.addr = sess["acting"].peer.addr /\ r.sid = sess["acting"].sid
  BY <1>0, LiveTarget DEF me, Target
<1>2. \A q \in rpcs : q # r => ~q.live /\ Target(q) # drawn
  BY <1>0 DEF CallInv, Fenced, SidInv
<1>3. s.addr = r.addr /\ (s = r \/ Moves(r)) /\ ~Crash(r.addr)
  <2>1. PICK q \in rpcs : /\ Same(s, q)
                          /\ s.st # "lost" => ~Crash(s.addr)
                          /\ s = q \/ s.st = "lost" \/ Moves(q)
    BY <1>0, LiveMoves
  <2>2. q = r
    BY <1>2, <2>1 DEF Same
  <2> QED
    BY <2>1, <2>2 DEF Same
<1>4. CASE ~Moves(r)
  <2>1. HeldAt(r.addr, drawn)
    BY <1>1 DEF HeldAt
  <2>2. Has(r.addr, drawn, b)
    BY <1>3, <1>4
  <2>3. \A q \in rpcs : Moves(q) /\ q.addr = r.addr => Target(q) # drawn
    BY <1>2, <1>4
  <2>4. PICK sid : sid = drawn
    OBVIOUS
  <2>5. Has(r.addr, sid, b)'
    BY <1>0, <1>3, <2>1, <2>2, <2>3, <2>4, StaysThere
  <2> QED
    BY <1>3, <2>4, <2>5 DEF Has
<1>5. CASE Moves(r)
  <2>1. \A x : Becomes(r, x) \/ Answer(r, x) => s = x
    BY <1>2 DEF Becomes, Answer
  <2>2. CASE Unknown(r)
    <3>1. s = [r EXCEPT !.st = "refused"]
      BY <2>1, <2>2 DEF Unknown
    <3>2. s.st = "refused"
      BY <1>0, <3>1 DEF Requests
    <3> QED
      BY <3>2
  <2>3. CASE Fork(r)
    <3>1. sessions[r.addr][r.sid] = b
      BY <1>0, <1>1, <2>3 DEF Fork, Arrives, Has
    <3>2. sessions' = [sessions EXCEPT ![r.addr] = Put(sessions[r.addr], drawn, b)]
      BY <1>1, <2>3, <3>1 DEF Fork
    <3>3. sessions'[r.addr] = Put(sessions[r.addr], drawn, b)
      BY <1>0, <3>2
    <3> QED
      BY <1>3, <3>3 DEF Has, Put
  <2> QED
    BY <1>0, <1>1, <1>5, <2>2, <2>3
    DEF Moves, Enqueue, ObserveNew, Compute, WriteBack, Cancel, ServersTypeOK
<1> QED
  BY <1>4, <1>5

LEMMA ContentsServer ==
  ASSUME SessionsKept, Plumbing, Contents, ~raised, ServerStep, UNCHANGED <<listed, clientVars>>
  PROVE  SettledInv' /\ CalledInv'
<1>0. /\ ServersTypeOK /\ ClientTypeOK /\ PolicyInv /\ CallInv /\ Fenced /\ SidInv
      /\ PeersInv /\ SettledInv /\ CalledInv /\ who \in Both
      /\ \A s \in Both : sess[s].attached => sess[s].peer.addr \in Addrs /\ sess[s].sid \in Nat
  BY TheSession DEF Plumbing, TypeOK, Contents, Sids
<1>1. UNCHANGED <<pc, who, sess, dreaming, todo, k, drawn, raised>>
  BY DEF clientVars, policyVars, sessionVars, resultVars
<1>2. ASSUME NEW s \in Both, sess[s].attached, ~Dropped(s), InCall /\ s = who => ~Waiting,
             NEW b, NEW a \in Addrs, NEW sid, a = sess[s].peer.addr, sid = sess[s].sid
      PROVE  /\ At(a, sid, b) => At(a, sid, b)'
             /\ up[a] /\ Has(a, sid, b) /\ up'[a] => Has(a, sid, b)'
             /\ up'[a] => up[a]
  <2>1. HeldAt(a, sid)
    BY <1>2 DEF HeldAt
  <2>2. sid \notin left
    BY <1>0, <1>2 DEF Fenced
  <2>3. ASSUME NEW q \in rpcs, q.live PROVE Target(q) # sid
    <3>1. CASE pc = "awaitFork"
      BY <1>0, <1>2, <2>3, <3>1, LiveTarget DEF SidInv
    <3>2. CASE pc # "awaitFork"
      BY <1>0, <1>2, <2>3, <3>2, LiveTarget DEF SidInv, me
    <3> QED
      BY <3>1, <3>2
  <2>4. \A q \in rpcs : Target(q) # sid
    BY <1>0, <2>2, <2>3 DEF Fenced
  <2>5. up'[a] => up[a] /\ ~Crash(a)
    BY <1>0, <2>1, InUse
  <2> QED
    BY <1>0, <2>1, <2>4, <2>5, StaysThere
<1>3. SettledInv'
  <2>1. ASSUME NEW s \in Both, Settled(s), up'[sess[s].peer.addr]
        PROVE  Has(sess[s].peer.addr, sess[s].sid, sess[s].ops)'
    <3>1. sess[s].attached /\ ~Dropped(s) /\ ~(InCall /\ s = who)
      BY <2>1 DEF Settled
    <3>2. PICK a, sid, b :
            a \in Addrs /\ a = sess[s].peer.addr /\ sid = sess[s].sid /\ b = sess[s].ops
      BY <1>0, <3>1
    <3>3. up'[a] => up[a]
      BY <1>2, <3>1, <3>2
    <3>4. up[a] /\ Has(a, sid, b)
      BY <1>0, <2>1, <3>2, <3>3 DEF SettledInv
    <3>5. Has(a, sid, b)'
      BY <1>2, <2>1, <3>1, <3>2, <3>4
    <3> QED
      BY <1>1, <3>2, <3>5 DEF Has
  <2>2. \A s \in Both : Settled(s)' <=> Settled(s)
    BY <1>1 DEF Settled, InCall, Dropped
  <2> QED
    BY <1>1, <2>1, <2>2 DEF SettledInv
<1>4. Before' = Before /\ Asked' = Asked /\ me' = me /\ (InCall' <=> InCall) /\ (Waiting' <=> Waiting)
  BY <1>1 DEF Before, Asked, me, InCall, Waiting
<1>5. ASSUME InCall, ~Waiting, me.attached PROVE At(me.peer.addr, me.sid, Before)'
  <2>1. PICK a, sid, b : a \in Addrs /\ a = me.peer.addr /\ sid = me.sid /\ b = Before
    BY <1>0, <1>5 DEF me
  <2>2. At(a, sid, b) /\ ~Dropped(who)
    BY <1>0, <1>5, <2>1 DEF CalledInv, InCall, Dropped
  <2>3. At(a, sid, b)'
    BY <1>0, <1>2, <1>5, <2>1, <2>2 DEF me
  <2> QED
    BY <1>4, <2>1, <2>3 DEF At, Has
<1>6. ASSUME InCall, NEW s \in rpcs', s.live PROVE Called(s, Before, Asked)'
  <2>1. PICK r \in rpcs : Same(s, r)
    BY <1>0, <1>6, LiveMoves
  <2>2. r.live /\ Called(r, Before, Asked)
    BY <1>0, <1>6, <2>1 DEF Same, CalledInv
  <2>3. Asked = [method |-> r.method, n |-> r.n]
    BY <1>0, <1>6, <2>2, LiveTarget DEF InCall, Ops
  <2>4. PICK b, op : b = Before /\ op = Asked
    OBVIOUS
  <2>5. Called(s, b, op)'
    BY <1>0, <1>6, <2>2, <2>3, <2>4, CallMoves
  <2> QED
    BY <1>4, <2>4, <2>5 DEF Called, Has, At
<1>7. ASSUME pc = "awaitFork", NEW s \in rpcs', s.live, s.st = "done"
      PROVE  Has(s.addr, drawn, sess["acting"].ops)'
  <2>1. PICK r \in rpcs : Same(s, r)
    BY <1>0, <1>7, LiveMoves
  <2>2. r.live /\ (r.st = "done" => Has(r.addr, drawn, sess["acting"].ops))
    BY <1>0, <1>7, <2>1 DEF Same, CalledInv
  <2>3. PICK b : b = sess["acting"].ops
    OBVIOUS
  <2>4. Settled("acting")
    BY <1>0, <1>7 DEF Settled, InCall, Dropped, PolicyInv
  <2>5. \A a \in Addrs : a = sess["acting"].peer.addr /\ up[a] => Has(a, sess["acting"].sid, b)
    BY <1>0, <2>3, <2>4 DEF SettledInv, Both
  <2>6. Has(s.addr, drawn, b)'
    BY <1>0, <1>1, <1>7, <2>2, <2>3, <2>5, ForkMoves
  <2> QED
    BY <1>1, <2>3, <2>6 DEF Has
<1>8. CalledInv'
  BY <1>1, <1>4, <1>5, <1>6, <1>7 DEF CalledInv
<1> QED
  BY <1>3, <1>8

\* What the policy knows is true of the workers after each of its steps.
LEMMA ContentsClient ==
  ASSUME SessionsKept, Plumbing, Contents, ~raised, ~raised', ClientStep
  PROVE  SettledInv' /\ CalledInv'
<1>0. /\ ServersTypeOK /\ ClientTypeOK /\ PolicyInv /\ CallInv /\ SidInv /\ Accounts
      /\ PeersInv /\ SettledInv /\ CalledInv /\ who \in Both
      /\ "acting" \in Both /\ "dream" \in Both /\ drawn \in Nat /\ left \subseteq Nat
      /\ sessions = [c \in Addrs |-> sessions[c]]
      /\ \A s \in Both : sess[s].attached => sess[s].peer.addr \in Addrs /\ sess[s].sid \in Nat
  BY TheSession
  DEF Plumbing, TypeOK, Contents, Both, ServersTypeOK, ClientTypeOK, Sids
<1>1. CallInv'
  BY <1>0, CallStep DEF Next
<1>2. \A a, sid, b : UNCHANGED <<up, sessions>> =>
        /\ Has(a, sid, b)' <=> Has(a, sid, b)
        /\ At(a, sid, b)' <=> At(a, sid, b)
  BY DEF Has, At
<1> DEFINE Keeps(s) == /\ Settled(s) /\ sess'[s].peer = sess[s].peer
                       /\ sess'[s].sid = sess[s].sid /\ sess'[s].ops = sess[s].ops
           Holds(s) == Has(sess'[s].peer.addr, sess'[s].sid, sess'[s].ops)
\* It returned, or did nothing with its calls.
<1>3. ASSUME UNCHANGED <<up, sessions>>, ~Waiting',
             \A s \in Both : Settled(s)' => Keeps(s) \/ Holds(s),
             InCall' /\ me'.attached => At(me'.peer.addr, me'.sid, Before')
      PROVE  SettledInv' /\ CalledInv'
  <2>1. SettledInv'
    <3>1. ASSUME NEW s \in Both, Settled(s)', up'[sess'[s].peer.addr]
          PROVE  Has(sess'[s].peer.addr, sess'[s].sid, sess'[s].ops)
      BY <1>0, <1>3, <3>1 DEF SettledInv
    <3> QED
      BY <1>3, <3>1 DEF SettledInv, Has
  <2>2. CalledInv'
    BY <1>1, <1>3 DEF CalledInv, CallInv, Waiting, At, Has
  <2> QED
    BY <2>1, <2>2
\* Between two calls, and for a session that is not the one called.
<1>4. ASSUME NEW s \in Both, pc = "idle", sess[s].attached
      PROVE  At(sess[s].peer.addr, sess[s].sid, sess[s].ops)
  BY <1>0, <1>4 DEF SettledInv, Settled, InCall, Dropped, At
<1>5. CASE Act \/ Dream
  <2>1. /\ UNCHANGED <<up, sessions, sess>> /\ ~Waiting' /\ pc = "idle" /\ pc' = "call"
        /\ me' = sess[who'] /\ who' \in Both
    BY <1>5 DEF Act, Dream, Waiting, me, serverVars, Both
  <2>2. Before' = me'.ops
    BY <2>1 DEF Before
  <2>3. \A s \in Both : Settled(s)' => Keeps(s)
    BY <2>1 DEF Settled, InCall, Dropped
  <2> QED
    BY <1>3, <1>4, <2>1, <2>2, <2>3
<1>6. CASE Imagine
  <2>1. /\ sess'["acting"] = sess["acting"] /\ ~sess'["dream"].attached
        /\ UNCHANGED <<up, sessions>> /\ ~Waiting' /\ pc = "idle" /\ pc' \in {"fork", "idle"}
    BY <1>0, <1>6, InheritEffect DEF Imagine, Waiting, serverVars
  <2>2. \A s \in Both : Settled(s)' => Keeps(s)
    BY <2>1 DEF Settled, InCall, Dropped, Both
  <2> QED
    BY <1>3, <2>1, <2>2 DEF InCall
<1>7. CASE NoServer \/ BeginClose
  <2>1. /\ UNCHANGED <<up, sessions, sess>> /\ ~Waiting' /\ pc' \in {"idle", "close"}
        /\ pc = "idle" \/ (pc = "call" /\ ~me.attached)
    BY <1>7 DEF NoServer, BeginClose, Raise, Waiting, serverVars, sessionVars
  <2>2. \A s \in Both : Settled(s)' => Keeps(s)
    BY <2>1 DEF Settled, InCall, Dropped, me
  <2> QED
    BY <1>3, <2>1, <2>2 DEF InCall
<1>8. CASE Attach
  <2>1. PICK p \in listed : sess' = [sess EXCEPT ![who] = AttachedTo(sess[who], p, drawn)]
    BY <1>8 DEF Attach, AttachedTo
  <2>2. p \in Peers /\ p.addr \in Addrs /\ sess[who] \in Sessions
    BY <1>0, TheSession DEF ClientTypeOK, Peers
  <2>3. sess' = [t \in Both |-> IF t = who THEN AttachedTo(sess[who], p, drawn) ELSE sess[t]]
    BY <1>0, <2>1, TheSession
  <2>4. /\ \A t \in Both : t # who => sess'[t] = sess[t]
        /\ me'.peer = p /\ me'.sid = drawn /\ me'.ops = me.ops /\ who' = who
    <3>1. /\ \A t \in Both : t # who => sess'[t] = sess[t]
          /\ sess'[who].peer = p /\ sess'[who].sid = drawn /\ sess'[who].ops = sess[who].ops
      BY <1>0, <2>2, <2>3, AttachedFields
    <3>2. who' = who
      BY <1>8 DEF Attach
    <3> QED
      BY <3>1, <3>2 DEF me
  <2>5. /\ UNCHANGED <<up, sessions>> /\ ~Waiting' /\ pc = "call" /\ k' = 1
        /\ pc' = IF me.ops = << >> THEN "call" ELSE "replay"
    BY <1>8 DEF Attach, Waiting, serverVars, ReplayFrom
  <2>6. drawn \notin DOMAIN sessions[p.addr]
    BY <1>0, <2>2, <2>5 DEF Accounts, HeldAt, SidInv
  <2>7. Before' = << >>
    <3>1. SubSeq(me.ops, 1, 1 - 1) = << >>
      BY SubSeqEmpty
    <3> QED
      BY <2>4, <2>5, <3>1 DEF Before
  <2>8. At(p.addr, drawn, << >>)
    BY <2>6 DEF At
  <2>9. \A s \in Both : Settled(s)' => Keeps(s)
    BY <2>4, <2>5 DEF Settled, InCall, Dropped
  <2> QED
    BY <1>3, <2>4, <2>5, <2>7, <2>8, <2>9
<1>9. CASE LookupFails \/ \E r \in rpcs : CallFails(r)
  <2>1. /\ \A t \in Both : t # who => sess'[t] = sess[t]
        /\ \/ /\ sess'[who].attached <=> me.attached
              /\ pc' = IF dreaming THEN "close" ELSE "idle"
              /\ me.attached /\ ~dreaming => raised'
           \/ ~sess'[who].attached /\ pc' = "call"
        /\ who' = who /\ dreaming' = dreaming /\ InCall
    BY <1>0, <1>9, FailedSession DEF policyVars
  <2>2. UNCHANGED <<up, sessions>> /\ pc # "close"
    BY <1>9 DEF LookupFails, CallFails, serverVars
  <2>3. ~Waiting' /\ me' = sess'[who] /\ who = IF dreaming THEN "dream" ELSE "acting"
    BY <1>0, <2>1 DEF Waiting, me, PolicyInv
  <2>4. \A s \in Both : Settled(s)' => Keeps(s)
    BY <2>1, <2>2, <2>3 DEF Settled, InCall, Dropped
  <2> QED
    BY <1>3, <2>1, <2>2, <2>3, <2>4 DEF InCall
<1>10. CASE EndClose
  <2> DEFINE it == IF dreaming THEN "dream" ELSE "acting"
  <2>1. /\ \A t \in Both : t # it => sess'[t] = sess[t]
        /\ ~sess'[it].attached
    BY <1>0, <1>10, DetachEffect DEF EndClose
  <2>2. /\ UNCHANGED up /\ pc = "close" /\ pc' \in {"idle", "closed"} /\ ~Waiting'
        /\ \/ /\ sess[it].attached
              /\ sessions' = [sessions EXCEPT ![sess[it].peer.addr] =
                                Drop(sessions[sess[it].peer.addr], {sess[it].sid})]
           \/ sessions' = sessions
    BY <1>10 DEF EndClose, Close, Waiting
  <2>3. it \in Both /\ (it = "acting" => ~sess["dream"].attached)
    BY <1>0 DEF PolicyInv
  <2> HIDE DEF it
  <2>4. ASSUME NEW s \in Both, Settled(s)', up'[sess'[s].peer.addr]
        PROVE  Has(sess[s].peer.addr, sess[s].sid, sess[s].ops)' /\ sess'[s] = sess[s]
    <3>1. s = "acting" /\ it = "dream" /\ sess'[s] = sess[s] /\ sess[s].attached
      BY <2>1, <2>3, <2>4 DEF Settled, Both
    <3>2. Has(sess[s].peer.addr, sess[s].sid, sess[s].ops)
      BY <1>0, <2>2, <2>4, <3>1 DEF SettledInv, Settled, InCall, Dropped
    <3>3. sess[it].attached => sess[it].sid # sess[s].sid
      BY <1>0, <3>1 DEF SidInv
    <3>4. PICK a, sid, b : /\ a = sess[s].peer.addr /\ sid = sess[s].sid /\ b = sess[s].ops
                           /\ a \in Addrs /\ Has(a, sid, b)
      BY <1>0, <3>1, <3>2
    <3>5. \/ sessions'[a] = sessions[a]
          \/ sess[it].attached /\ sessions'[a] = Drop(sessions[a], {sess[it].sid})
      BY <1>0, <2>2, <3>4
    <3>6. Has(a, sid, b)'
      BY <3>3, <3>4, <3>5 DEF Has, Drop
    <3> QED
      BY <3>1, <3>4, <3>6 DEF Has
  <2>5. SettledInv'
    BY <2>4 DEF SettledInv, Has
  <2>6. CalledInv'
    BY <2>2 DEF CalledInv, InCall
  <2> QED
    BY <2>5, <2>6
<1>11. CASE Sends
  <2>1. PICK r : Asking(r) /\ rpcs' = rpcs \cup {r}
    BY <1>0, <1>11, SendEffect
  <2>2. /\ ~Waiting /\ Waiting' /\ me.attached
        /\ \/ pc = "fork" /\ pc' = "awaitFork"
           \/ pc = "call" /\ pc' = "await"
           \/ pc = "replay" /\ pc' = "awaitReplay"
        /\ UNCHANGED <<up, sessions, who, sess, todo, k, drawn>>
    BY <1>0, <1>11, SendEffect DEF sessionVars
  <2>3. me' = me /\ Before' = Before /\ (InCall' <=> InCall)
    BY <2>2 DEF me, Before, InCall
  <2>4. SettledInv'
    <3>1. \A s \in Both : Settled(s)' => Settled(s)
      BY <2>2, <2>3 DEF Settled, Dropped
    <3> QED
      BY <1>0, <2>2, <3>1 DEF SettledInv, Has
  <2>5. \A q \in rpcs' : q.live => q = r
    BY <1>0, <2>1, <2>2 DEF CallInv
  <2>6. r.st \in {"sent", "lost"} /\ r.addr = me.peer.addr /\ r.sid = me.sid
    BY <2>1 DEF Asking
  <2>7. InCall => Called(r, Before, Asked)'
    <3>1. InCall => At(r.addr, r.sid, Before)
      BY <1>0, <2>2, <2>6 DEF CalledInv
    <3> QED
      BY <2>2, <2>3, <2>6, <3>1 DEF Called, At, Has
  <2>8. CalledInv'
    BY <2>2, <2>3, <2>5, <2>6, <2>7 DEF CalledInv
  <2> QED
    BY <2>4, <2>8
<1>12. ASSUME NEW r \in rpcs, ForkDone(r) \/ ForkFails(r) PROVE SettledInv' /\ CalledInv'
  <2>1. /\ pc = "awaitFork" /\ pc' = "idle" /\ ~Waiting' /\ UNCHANGED <<up, sessions>>
        /\ r.live
    BY <1>0, <1>12, ReturnEffect DEF ForkDone, ForkFails, Returns, Waiting
  <2>2. r.addr = sess["acting"].peer.addr
    BY <1>0, <2>1, LiveTarget DEF me
  <2>3. CASE ForkFails(r)
    <3>1. \A s \in Both : Settled(s)' => Keeps(s)
      BY <2>1, <2>3 DEF ForkFails, Settled, InCall, Dropped
    <3> QED
      BY <1>3, <2>1, <3>1 DEF InCall
  <2>4. CASE ForkDone(r)
    <3>1. /\ sess["acting"].attached /\ sess["dream"].ops = sess["acting"].ops
          /\ sess' = [sess EXCEPT !["dream"] =
                                    AttachedTo(sess["dream"], sess["acting"].peer, drawn)]
      BY <1>0, <2>4 DEF ForkDone, Adopt, AttachedTo, PolicyInv
    <3>2. sess["dream"] \in Sessions /\ sess' = [t \in Both |->
            IF t = "dream" THEN AttachedTo(sess["dream"], sess["acting"].peer, drawn) ELSE sess[t]]
      BY <1>0, <3>1, TheSession
    <3>3. /\ sess'["acting"] = sess["acting"]
          /\ sess'["dream"].peer = sess["acting"].peer /\ sess'["dream"].sid = drawn
          /\ sess'["dream"].ops = sess["dream"].ops
      BY <1>0, <3>2, AttachedFields
    <3>4. Has(r.addr, drawn, sess["acting"].ops)
      BY <1>0, <2>1, <2>4 DEF ForkDone, CalledInv
    <3>5. Holds("dream")
      BY <2>2, <3>1, <3>3, <3>4
    <3>6. Settled("acting")' => Keeps("acting")
      BY <2>1, <3>3 DEF Settled, InCall, Dropped
    <3> QED
      BY <1>3, <2>1, <3>5, <3>6 DEF InCall, Both
  <2> QED
    BY <1>12, <2>3, <2>4
<1>13. ASSUME NEW r \in rpcs, ReplayDone(r) PROVE SettledInv' /\ CalledInv'
  <2>1. /\ pc = "awaitReplay" /\ pc' = (IF k < Len(me.ops) THEN "replay" ELSE "call")
        /\ UNCHANGED <<up, sessions, sess, who>> /\ k' = k + 1 /\ r.st = "done"
        /\ r.live /\ me' = me /\ ~Waiting'
    BY <1>0, <1>13, ReturnEffect DEF ReplayDone, ReplayGoesOn, Returns, me
  <2>2. /\ me.ops \in States /\ k \in 1 .. Len(me.ops) /\ Len(me.ops) \in Nat
    BY <1>0, <2>1, TheSession, LenProperties DEF ClientTypeOK, States
  <2>3. Has(me.peer.addr, me.sid, SubSeq(me.ops, 1, k))
    <3>1. Called(r, SubSeq(me.ops, 1, k - 1), me.ops[k])
      BY <1>0, <2>1 DEF CalledInv, InCall, Before, Asked
    <3>2. r.addr = me.peer.addr /\ r.sid = me.sid
      BY <1>0, <2>1, LiveTarget
    <3> QED
      BY <2>1, <2>2, <3>1, <3>2, ReplayPrefix DEF Called
  <2>4. Before' = SubSeq(me.ops, 1, k)
    <3>1. CASE k < Len(me.ops)
      <4>1. k' - 1 = k
        BY <2>1, <2>2
      <4>2. Before' = SubSeq(me.ops, 1, k' - 1)
        BY <2>1, <3>1 DEF Before
      <4> QED
        BY <4>1, <4>2
    <3>2. CASE ~(k < Len(me.ops))
      <4>1. k = Len(me.ops)
        BY <2>2, <3>2
      <4>2. SubSeq(me.ops, 1, Len(me.ops)) = me.ops
        BY <2>2, SubSeqFull DEF States
      <4> QED
        BY <2>1, <3>2, <4>1, <4>2 DEF Before
    <3> QED
      BY <3>1, <3>2
  <2>5. \A s \in Both : Settled(s)' => Keeps(s)
    BY <2>1 DEF Settled, InCall, Dropped
  <2>6. At(me.peer.addr, me.sid, SubSeq(me.ops, 1, k))
    BY <2>3 DEF At
  <2> QED
    BY <1>3, <2>1, <2>4, <2>5, <2>6
<1>14. ASSUME NEW r \in rpcs, OpDone(r) PROVE SettledInv' /\ CalledInv'
  <2>1. /\ pc = "await" /\ pc' = "idle" /\ UNCHANGED <<up, sessions>> /\ r.st = "done"
        /\ r.live /\ ~Waiting' /\ who' = who
    BY <1>0, <1>14, ReturnEffect DEF OpDone, Returns
  <2>2. /\ \A t \in Both : t # who => sess'[t] = sess[t]
        /\ sess'[who].ops = Append(me.ops, todo)
        /\ sess'[who].peer = me.peer /\ sess'[who].sid = me.sid
    BY <1>0, <1>14, LogEffect DEF OpDone, ClientTypeOK
  <2>3. Has(me.peer.addr, me.sid, Append(me.ops, todo))
    <3>1. Called(r, me.ops, todo)
      BY <1>0, <2>1 DEF CalledInv, InCall, Before, Asked
    <3>2. r.addr = me.peer.addr /\ r.sid = me.sid
      BY <1>0, <2>1, LiveTarget
    <3> QED
      BY <2>1, <3>1, <3>2 DEF Called
  <2>4. Holds(who)
    BY <2>2, <2>3
  <2>5. \A s \in Both : s # who /\ Settled(s)' => Keeps(s)
    BY <2>1, <2>2 DEF Settled, InCall, Dropped
  <2> QED
    BY <1>3, <2>1, <2>4, <2>5 DEF InCall
<1> QED
  BY <1>5, <1>6, <1>7, <1>8, <1>9, <1>10, <1>11, <1>12, <1>13, <1>14 DEF ClientStep, Sends

LEMMA RaisedStays == ASSUME ServersTypeOK, ClientTypeOK, PolicyInv, [Next]_vars, raised PROVE raised'
<1>1. CASE LookupFails \/ \E r \in rpcs : CallFails(r)
  BY <1>1, FailedSession
<1>2. CASE ~(LookupFails \/ \E r \in rpcs : CallFails(r))
  BY <1>2
  DEF Next, ClientStep, Act, Imagine, Dream, SendFork, SendOp, Attach, SendReplay, NoServer,
      BeginClose, EndClose, ForkDone, ReplayDone, OpDone, ForkFails, resultVars,
      RegistryStep, Announce, Expire, clientVars, vars
<1> QED
  BY <1>1, <1>2

LEMMA ContentsStep ==
  ASSUME SessionsKept, Plumbing, Contents, [Next]_vars PROVE Contents'
<1>0. ServersTypeOK /\ ClientTypeOK /\ PolicyInv /\ PeersInv
  BY DEF Plumbing, TypeOK, Contents
<1>1. PeersInv'
  BY <1>0, PeersStep
<1>2. ASSUME ~raised' PROVE SettledInv' /\ CalledInv'
  <2>0. ~raised
    BY <1>0, <1>2, RaisedStays
  <2>1. CASE ClientStep
    BY <1>2, <2>0, <2>1, ContentsClient
  <2>2. CASE ServerStep /\ UNCHANGED <<listed, clientVars>>
    BY <2>0, <2>2, ContentsServer
  <2>3. CASE RegistryStep \/ UNCHANGED vars
    <3>1. UNCHANGED <<serverVars, clientVars>>
      BY <2>3 DEF RegistryStep, Announce, Expire, vars
    <3>2. SettledInv /\ CalledInv
      BY <2>0 DEF Contents
    <3> QED
      BY <3>1, <3>2
      DEF SettledInv, CalledInv, Settled, Dropped, InCall, Waiting, Called, At, Has, Before,
          Asked, me, serverVars, clientVars, policyVars, sessionVars
  <2> QED
    BY <2>1, <2>2, <2>3 DEF Next
<1> QED
  BY <1>1, <1>2 DEF Contents

LEMMA ContentsInit == ASSUME Init PROVE Contents
<1>1. \A s \in Both : ~sess[s].attached
  BY DEF Init, Both, NewSession
<1>2. \A p \in listed : inc[p.addr] > 0
  BY SessionBoundsAreValid DEF Init, ServersInit, CurrentPeer, SessionBounds
<1> QED
  BY <1>1, <1>2 DEF Contents, PeersInv, SettledInv, Settled, CalledInv, InCall, Init

(***************************************************************************)
(* Where no worker is restarted at its address and no session in use is    *)
(* taken for idle, what the workers hold is what the policy takes them to  *)
(* hold: the state of every session between calls, and how far a call has  *)
(* come while it waits for one.  The premise is what the code relies on.   *)
(***************************************************************************)
THEOREM ContentsCorrect == ASSUME SessionsKept PROVE Spec => []Contents
<1>1. Init => Contents
  BY ContentsInit
<1>2. Plumbing /\ Contents /\ [Next]_vars => Contents'
  BY ContentsStep
<1> QED
  BY <1>1, <1>2, PlumbingCorrect, PTL DEF Spec

(***************************************************************************)
(* Between two calls, the running worker a session is attached to holds    *)
(* exactly the state that the session's log leads to, as long as the       *)
(* caller has not seen "too many failures" (guard of StateMatchesLog).     *)
(***************************************************************************)
THEOREM StateAlwaysMatchesLog == ASSUME SessionsKept PROVE Spec => []StateMatchesLog
<1>1. Plumbing /\ Contents => StateMatchesLog
  <2> SUFFICES ASSUME Plumbing, Contents, ~raised PROVE
        /\ pc \in {"idle", "fork", "awaitFork"} => CaughtUp("acting") /\ CaughtUp("dream")
        /\ dreaming => CaughtUp("acting")
    BY DEF StateMatchesLog
  <2>1. SettledInv /\ PolicyInv /\ "acting" \in Both /\ "dream" \in Both
    BY DEF Plumbing, Contents, Both
  <2>2. \A s \in Both : Settled(s) => CaughtUp(s)
    BY <2>1 DEF SettledInv, Has, CaughtUp
  <2>3. \A s \in Both : ~sess[s].attached => CaughtUp(s)
    BY DEF CaughtUp
  <2> HIDE DEF CaughtUp
  <2>4. pc \in {"idle", "fork", "awaitFork"} => CaughtUp("acting") /\ CaughtUp("dream")
    BY <2>1, <2>2, <2>3 DEF Settled, InCall, Dropped
  <2>5. dreaming => CaughtUp("acting")
    BY <2>1, <2>2, <2>3 DEF Settled, Dropped, PolicyInv
  <2> QED
    BY <2>4, <2>5
<1> QED
  BY <1>1, PlumbingCorrect, ContentsCorrect, PTL

(***************************************************************************)
(* The features the policy is about to receive are those the one-process   *)
(* backend returns: computed from the whole log, once and in order.  A     *)
(* caller that goes on after "too many failures" may get others.           *)
(***************************************************************************)
THEOREM AnswersAlwaysExact ==
  ASSUME SessionsKept, ~Persistent PROVE Spec => []AnswersExact
<1>1. Plumbing /\ Contents => AnswersExact
  <2> SUFFICES ASSUME Plumbing, Contents, NEW r \in rpcs, r.live, r.st = "done"
               PROVE  /\ pc = "await" => r.out = Append(me.ops, todo)
                      /\ pc = "awaitReplay" => r.out = SubSeq(me.ops, 1, k)
    BY DEF AnswersExact
  <2>1. ClientTypeOK /\ PolicyInv
    BY DEF Plumbing, TypeOK
  <2>2. ASSUME InCall PROVE r.out = Append(Before, Asked)
    <3>1. ~raised
      BY <2>1, <2>2 DEF PolicyInv, InCall
    <3> QED
      BY <2>2, <3>1 DEF Contents, CalledInv, Called
  <2>3. CASE pc = "await"
    BY <2>2, <2>3 DEF InCall, Before, Asked
  <2>4. CASE pc = "awaitReplay"
    <3>1. me.ops \in States /\ k \in 1 .. Len(me.ops)
      BY <2>1, <2>4, TheSession DEF ClientTypeOK
    <3>2. r.out = Append(SubSeq(me.ops, 1, k - 1), me.ops[k])
      BY <2>2, <2>4 DEF InCall, Before, Asked
    <3> QED
      BY <2>4, <3>1, <3>2, ReplayPrefix
  <2> QED
    BY <2>3, <2>4
<1> QED
  BY <1>1, PlumbingCorrect, ContentsCorrect, PTL

-----------------------------------------------------------------------------
(***************************************************************************)
(* The one-process backend.                                                *)
(***************************************************************************)
LEMMA LocalStep ==
  ASSUME ~Persistent, Plumbing, Contents, [Next]_vars PROVE [Local!Next]_(Local!vars)
<1>0. /\ ServersTypeOK /\ ClientTypeOK /\ PolicyInv /\ CallInv /\ who \in Both
      /\ dreaming \in BOOLEAN /\ "acting" \in Both /\ "dream" \in Both
  BY TheSession DEF Plumbing, TypeOK, ClientTypeOK, Both
<1>1. ASSUME sess'["acting"].ops = sess["acting"].ops, dreaming' = dreaming, feat' = feat,
             dreaming => sess'["dream"].ops = sess["dream"].ops
      PROVE  UNCHANGED Local!vars
  BY <1>0, <1>1 DEF Local!vars
<1>2. CASE Act \/ Dream \/ NoServer \/ BeginClose
  BY <1>1, <1>2
  DEF Act, Dream, NoServer, BeginClose, policyVars, sessionVars, resultVars
<1>3. CASE Sends
  BY <1>0, <1>1, <1>3, SendEffect DEF policyVars, sessionVars, resultVars
<1>4. CASE Imagine
  <2>1. /\ sess'["acting"].ops = sess["acting"].ops
        /\ sess'["dream"].ops = sess["acting"].ops
        /\ ~dreaming /\ dreaming' /\ feat' = feat
    BY <1>0, <1>4, InheritEffect DEF Imagine, resultVars
  <2> QED
    BY <2>1 DEF Local!Next, Local!Fork
<1>5. CASE Attach
  <2>1. PICK p \in listed : sess' = [sess EXCEPT ![who] = AttachedTo(sess[who], p, drawn)]
    BY <1>5 DEF Attach, AttachedTo
  <2>2. sess' = [t \in Both |-> IF t = who THEN AttachedTo(sess[who], p, drawn) ELSE sess[t]]
    BY <1>0, <2>1, TheSession
  <2>3. \A s \in Both : sess'[s].ops = sess[s].ops
    BY <1>0, <2>2, TheSession, AttachedFields
  <2> QED
    BY <1>0, <1>1, <1>5, <2>3 DEF Attach, policyVars, resultVars
<1>6. CASE LookupFails \/ \E r \in rpcs : CallFails(r)
  <2>1. /\ \A t \in Both : t # who => sess'[t] = sess[t]
        /\ sess'[who].ops = me.ops /\ UNCHANGED <<policyVars, feat>>
    BY <1>0, <1>6, FailedSession
  <2> QED
    BY <1>0, <1>1, <2>1 DEF policyVars, me
<1>7. CASE EndClose
  <2> DEFINE it == IF dreaming THEN "dream" ELSE "acting"
  <2>1. it \in Both /\ sess' = [sess EXCEPT ![it].attached = FALSE]
    BY <1>7 DEF EndClose, Both
  <2>2. (\A t \in Both : t # it => sess'[t] = sess[t]) /\ sess'[it].ops = sess[it].ops
    <3> HIDE DEF it
    <3> QED
      BY <1>0, <2>1, DetachEffect
  <2>3. sess'["acting"].ops = sess["acting"].ops /\ ~dreaming' /\ feat' = feat
    BY <1>0, <1>7, <2>2 DEF EndClose
  <2> QED
    BY <2>3 DEF Local!Next, Local!Close
<1>8. ASSUME NEW r \in rpcs, ForkDone(r) PROVE UNCHANGED Local!vars
  <2>1. sess' = [sess EXCEPT !["dream"] =
                   AttachedTo(sess["dream"], sess["acting"].peer, drawn)]
    BY <1>8 DEF ForkDone, Adopt, AttachedTo
  <2>2. sess' = [t \in Both |->
          IF t = "dream" THEN AttachedTo(sess["dream"], sess["acting"].peer, drawn) ELSE sess[t]]
    BY <1>0, <2>1, TheSession
  <2>3. \A s \in Both : sess'[s].ops = sess[s].ops
    BY <1>0, <2>2, TheSession, AttachedFields
  <2> QED
    BY <1>0, <1>1, <1>8, <2>3 DEF ForkDone, policyVars, resultVars
<1>9. ASSUME NEW r \in rpcs, ReplayDone(r) \/ ForkFails(r) PROVE UNCHANGED Local!vars
  BY <1>1, <1>9 DEF ReplayDone, ForkFails, policyVars, resultVars
<1>10. ASSUME NEW r \in rpcs, OpDone(r) PROVE Local!Next
  <2>1. /\ pc = "await" /\ r.live /\ r.st = "done" /\ feat' = r.out /\ dreaming' = dreaming
        /\ Log(todo) /\ todo \in Ops
    BY <1>0, <1>10 DEF OpDone, Awaited, ClientTypeOK
  <2>2. ~raised /\ InCall
    BY <1>0, <2>1 DEF PolicyInv, InCall
  <2>3. r.out = Append(me.ops, todo)
    BY <2>1, <2>2 DEF Contents, CalledInv, Called, Before, Asked
  <2>4. (\A t \in Both : t # who => sess'[t] = sess[t]) /\ sess'[who].ops = Append(me.ops, todo)
    BY <1>0, <2>1, LogEffect
  <2>5. /\ who = IF dreaming THEN "dream" ELSE "acting"
        /\ todo = [method |-> IF dreaming THEN "imagine" ELSE "observe", n |-> todo.n]
        /\ todo.n \in 0 .. MaxActs + Horizon
    BY <1>0, <2>1, <2>2, SessionBoundsAreValid DEF PolicyInv, Ops, SessionBounds
  <2>6. CASE dreaming
    <3>1. /\ sess'["acting"].ops = sess["acting"].ops
          /\ sess'["dream"].ops = Append(sess["dream"].ops, [method |-> "imagine", n |-> todo.n])
          /\ feat' = sess'["dream"].ops
      BY <1>0, <2>1, <2>3, <2>4, <2>5, <2>6 DEF me
    <3>2. Local!Imagine(todo.n)
      BY <2>1, <2>6, <3>1 DEF Local!Imagine
    <3> QED
      BY <2>5, <3>2 DEF Local!Next
  <2>7. CASE ~dreaming
    <3>1. /\ sess'["acting"].ops = Append(sess["acting"].ops, [method |-> "observe", n |-> todo.n])
          /\ feat' = sess'["acting"].ops
      BY <1>0, <2>1, <2>3, <2>4, <2>5, <2>7 DEF me
    <3>2. Local!Observe(todo.n)
      BY <2>1, <2>7, <3>1 DEF Local!Observe
    <3> QED
      BY <2>5, <3>2 DEF Local!Next
  <2> QED
    BY <2>6, <2>7
<1>11. CASE UNCHANGED clientVars
  BY <1>1, <1>11 DEF clientVars, policyVars, sessionVars, resultVars
<1>12. CASE RegistryStep
  BY <1>11, <1>12 DEF RegistryStep, Announce, Expire
<1> QED
  BY <1>2, <1>3, <1>4, <1>5, <1>6, <1>7, <1>8, <1>9, <1>10, <1>11, <1>12
  DEF Next, ClientStep, Sends, vars

(***************************************************************************)
(* The policy over the swarm implements the policy over the one-process    *)
(* backend: failures, replays, retries and late calls are steps that the   *)
(* policy does not see ("identical actions and imagined trajectories",     *)
(* dreamer/client.py), under the premises of AnswersAlwaysExact.           *)
(***************************************************************************)
THEOREM LocalBackendImplemented ==
  ASSUME SessionsKept, ~Persistent PROVE Spec => ImplementsLocalBackend
<1>1. Init => Local!Init
  BY DEF Init, NewSession, Local!Init
<1>2. Plumbing /\ Contents /\ [Next]_vars => [Local!Next]_(Local!vars)
  BY LocalStep
<1> QED
  BY <1>1, <1>2, PlumbingCorrect, ContentsCorrect, PTL
  DEF Spec, ImplementsLocalBackend, Local!Spec

=============================================================================
