------------------------------ MODULE RpcProofs ------------------------------
(***************************************************************************)
(* The calls over the pool are independent of each other: what a caller is *)
(* answered is the result of its own call, executed once; what the proof   *)
(* rests on is that a connection never gives a number twice, while an      *)
(* entry or a frame that carries it may still be around.                   *)
(***************************************************************************)
EXTENDS Rpc, SequenceTheorems, TLAPS

Live == {"queued", "draining", "waiting"}   \* inside RpcClient.call

\* The types that the proof needs; what the lines hold does not matter.
ConnType ==
  \E L : conn \in [Conns -> [state : {"new", "open", "closed", "silent"}, served : BOOLEAN,
                             next : Nat, line : L]]

CallType ==
  [pc : Ends \cup Inside \cup {"idle"}, n : Nat, conn : 0 .. MaxConns, id : Nat,
   fut : {Unresolved, Lost} \cup Tags]

Kinds ==
  /\ opened \in 0 .. MaxConns /\ pooled \in 0 .. opened
  /\ ConnType
  /\ pending \subseteq [conn : Conns, id : Nat, tag : Tags]
  /\ frames \subseteq [conn : Conns, id : Nat, tag : Tags, at : {"sent", "handling", "reply"}]
  /\ call \in [Callers -> CallType]
  /\ ran \subseteq Tags
  /\ \A t \in Callers : call[t].n <= Limit[t] /\ (call[t].pc # "idle" => call[t].n > 0)

\* A call that has begun.
Begun(tag) == tag[2] <= call[tag[1]].n

\* A number that the connection has given.
Given(x) == x.conn <= opened /\ x.id < conn[x.conn].next

\* Entries and frames with one number on one connection are of one call.
Numbered ==
  /\ \A x \in pending \cup frames : Given(x) /\ Begun(x.tag)
  /\ \A p \in pending, f \in frames : p.conn = f.conn /\ p.id = f.id => p.tag = f.tag

\* A call has one request, which is there until it is executed, once.
Once ==
  /\ \A r \in ran : Begun(r)
  /\ \A f \in frames : f.at = "sent" <=> f.tag \notin ran
  /\ \A f, g \in frames : f.tag = g.tag => f = g
  /\ \A t \in Callers : call[t].pc \in {"connecting", "queued"} =>
       Tag(t) \notin ran /\ \A f \in frames : f.tag # Tag(t)

\* A future holds the result of its own call.
Answers ==
  \A t \in Callers :
    /\ call[t].fut \in {Unresolved, Lost, Tag(t)}
    /\ call[t].fut = Tag(t) => Tag(t) \in ran
    /\ call[t].pc = "answered" => call[t].fut = Tag(t)

\* An entry belongs to a call that goes on, or was left by one cancelled.
Entries ==
  /\ \A t \in Callers, p \in pending : p.tag = Tag(t) =>
       call[t].pc = "cancelled" \/ (call[t].pc \in Live /\ p = Entry(t))
  /\ \A t \in Callers : call[t].pc \in Live =>
       /\ call[t].conn \in 1 .. opened /\ Given(call[t])
       /\ \A p \in pending : p.conn = call[t].conn /\ p.id = call[t].id => p.tag = Tag(t)

Inv == Kinds /\ Numbered /\ Once /\ Answers /\ Entries /\ NobodyForgotten

-----------------------------------------------------------------------------
(***************************************************************************)
(* Ways to change a connection that leave its numbers alone.               *)
(***************************************************************************)
SameNumbers ==
  /\ ConnType'
  /\ \A c \in Conns : conn'[c].next = conn[c].next

SameStates == \A c \in Conns : conn'[c].state = conn[c].state

LEMMA ReleaseKeeps ==
  ASSUME ConnType, NEW t \in Callers, call[t].conn \in Conns, Release(t)
  PROVE  SameNumbers /\ SameStates
<1>1. PICK L : conn \in [Conns -> [state : {"new", "open", "closed", "silent"}, served : BOOLEAN,
                                 next : Nat, line : L]]
  BY DEF ConnType
<1> DEFINE c == call[t].conn
           l == RemoveFirst(conn[c].line, t)
<1>2. conn' = [conn EXCEPT ![c] = [conn[c] EXCEPT !.line = l]]
  BY DEF Release
<1> HIDE DEF c, l
<1>3. c \in Conns
  BY DEF c
<1>4. conn' \in [Conns -> [state : {"new", "open", "closed", "silent"}, served : BOOLEAN,
                         next : Nat, line : L \cup {l}]]
  BY <1>1, <1>2, <1>3
<1>5. \A d \in Conns : conn'[d].next = conn[d].next /\ conn'[d].state = conn[d].state
  BY <1>1, <1>2, <1>3
<1> QED
  BY <1>4, <1>5 DEF SameNumbers, SameStates, ConnType

LEMMA LostIsNoTag == Lost \notin Tags /\ Unresolved \notin Tags /\ Lost # Unresolved
<1>1. ASSUME NEW x \in Tags PROVE Lost # x /\ Unresolved # x
  <2>1. PICK t \in Callers, n \in Nat : x = <<t, n>>
    BY <1>1 DEF Tags
  <2>2. Len(<<t, n>>) = 2 /\ Len(<<"lost">>) = 1 /\ Len(<< >>) = 0
    OBVIOUS
  <2> QED
    BY <2>1, <2>2 DEF Lost, Unresolved
<1>2. Len(<<"lost">>) = 1 /\ Len(<< >>) = 0
  OBVIOUS
<1> QED
  BY <1>1, <1>2 DEF Lost, Unresolved

LEMMA CallFields ==
  ASSUME Inv, NEW t \in Callers
  PROVE  /\ call[t] = [pc |-> call[t].pc, n |-> call[t].n, conn |-> call[t].conn,
                       id |-> call[t].id, fut |-> call[t].fut]
         /\ call[t] \in CallType /\ call[t].n \in Nat /\ call[t].n <= Limit[t]
         /\ call[t].id \in Nat
         /\ call[t].pc # "idle" => Tag(t) \in Tags
<1>1. call[t] \in CallType /\ call[t].n <= Limit[t] /\ (call[t].pc # "idle" => call[t].n > 0)
  BY DEF Inv, Kinds
<1>2. call[t].n \in Nat /\ call[t].id \in Nat
  BY <1>1 DEF CallType
<1>3. call[t].pc # "idle" => Tag(t) \in Tags
  BY <1>1, <1>2 DEF Tag, Tags
<1> QED
  BY <1>1, <1>2, <1>3 DEF CallType

LEMMA ConnRange ==
  ASSUME Inv
  PROVE  /\ MaxConns \in Nat /\ opened \in Nat /\ pooled \in Nat
         /\ opened <= MaxConns /\ pooled <= opened
         /\ pooled # None => pooled \in Conns
         /\ \A t \in Callers : call[t].pc \in Live => call[t].conn \in Conns
<1>1. MaxConns \in Nat
  BY RpcParametersAreValid DEF RpcParameters
<1>2. opened \in 0 .. MaxConns /\ pooled \in 0 .. opened
  BY DEF Inv, Kinds
<1>3. \A t \in Callers : call[t].pc \in Live => call[t].conn \in 1 .. opened
  BY DEF Inv, Entries
<1> QED
  BY <1>1, <1>2, <1>3 DEF Conns, None

-----------------------------------------------------------------------------
(***************************************************************************)
(* The end of a call, however it comes.                                    *)
(***************************************************************************)
LEMMA EndRecord ==
  ASSUME NEW how, NEW n, NEW value
  PROVE  [Idle EXCEPT !.pc = how, !.n = n, !.fut = value]
           = [pc |-> how, n |-> n, conn |-> None, id |-> 0, fut |-> value]
<1> DEFINE e == [Idle EXCEPT !.pc = how, !.n = n, !.fut = value]
<1>1. DOMAIN e = {"pc", "n", "conn", "id", "fut"} /\ e = [f \in DOMAIN e |-> e[f]]
  BY DEF Idle
<1>2. e.pc = how /\ e.n = n /\ e.conn = None /\ e.id = 0 /\ e.fut = value
  BY DEF Idle
<1> HIDE DEF e
<1>3. e = [pc |-> how, n |-> n, conn |-> None, id |-> 0, fut |-> value]
  BY <1>1, <1>2
<1> QED
  BY <1>3 DEF e

LEMMA ConnectingRecord ==
  ASSUME NEW n
  PROVE  [Idle EXCEPT !.pc = "connecting", !.n = n]
           = [pc |-> "connecting", n |-> n, conn |-> None, id |-> 0, fut |-> Unresolved]
<1> DEFINE e == [Idle EXCEPT !.pc = "connecting", !.n = n]
<1>1. DOMAIN e = {"pc", "n", "conn", "id", "fut"} /\ e = [f \in DOMAIN e |-> e[f]]
  BY DEF Idle
<1>2. e.pc = "connecting" /\ e.n = n /\ e.conn = None /\ e.id = 0 /\ e.fut = Unresolved
  BY DEF Idle
<1> HIDE DEF e
<1>3. e = [pc |-> "connecting", n |-> n, conn |-> None, id |-> 0, fut |-> Unresolved]
  BY <1>1, <1>2
<1> QED
  BY <1>3 DEF e

LEMMA EndKeeps ==
  ASSUME Inv, NEW t \in Callers, NEW how \in Ends, NEW value \in {Lost, Tag(t)},
         call[t].pc \in Inside, End(t, how, value),
         value = Tag(t) => Tag(t) \in ran,
         how = "answered" => value = Tag(t),
         pending' \in {pending, pending \ {Entry(t)}},
         how # "cancelled" => \/ pending' = pending \ {Entry(t)}
                             \/ call[t].pc = "connecting",
         SameNumbers, SameStates, UNCHANGED <<opened, pooled, frames, ran>>
  PROVE  Inv'
<1>0. Kinds /\ Numbered /\ Once /\ Answers /\ Entries /\ NobodyForgotten
  BY DEF Inv
<1>1. Tag(t) \in Tags /\ call[t].n > 0 /\ call[t].n \in Nat /\ call[t].n <= Limit[t]
  BY <1>0, CallFields DEF Kinds, Inside
<1> DEFINE new == [pc |-> how, n |-> call[t].n, conn |-> None, id |-> 0, fut |-> value]
<1>2. call' = [call EXCEPT ![t] = new] /\ new \in CallType
  <2>1. new = [Idle EXCEPT !.pc = how, !.n = call[t].n, !.fut = value]
    BY EndRecord
  <2>2. MaxConns \in Nat
    BY ConnRange
  <2>3. new \in CallType
    BY <1>1, <2>2 DEF CallType, None
  <2> QED
    BY <2>1, <2>3 DEF End
<1>3. call' \in [Callers -> CallType] /\ call'[t] = new /\ \A u \in Callers : u # t => call'[u] = call[u]
  BY <1>0, <1>2 DEF Kinds
<1>30. /\ call'[t].pc = how /\ call'[t].n = call[t].n /\ call'[t].fut = value
  BY <1>3
<1> HIDE DEF new
<1>4. \A u \in Callers : Tag(u)' = Tag(u) /\ call'[u].n = call[u].n
  BY <1>3, <1>30 DEF Tag
<1>5. \A u \in Callers : u # t => Entry(u)' = Entry(u)
  BY <1>3, <1>4 DEF Entry
<1>6. pending' \subseteq pending
  OBVIOUS
<1>7. Kinds'
  BY <1>0, <1>1, <1>3, <1>30, <1>4, <1>6 DEF Kinds, SameNumbers
<1>8. \A x \in pending \cup frames : x.conn \in Conns /\ x.tag[1] \in Callers
  <2>1. \A x \in pending \cup frames : x.conn \in Conns /\ x.tag \in Tags
    BY <1>0 DEF Kinds
  <2> QED
    BY <2>1 DEF Tags
<1>9. Numbered'
  <2>1. \A x \in pending \cup frames : Given(x)' /\ Begun(x.tag)'
    BY <1>0, <1>4, <1>8 DEF Numbered, Given, Begun, SameNumbers
  <2> QED
    BY <1>0, <1>6, <2>1 DEF Numbered
<1>10. Once'
  <2>1. \A r \in ran : Begun(r)'
    <3>1. \A r \in ran : r[1] \in Callers
      BY <1>0 DEF Kinds, Tags
    <3> QED
      BY <1>0, <1>4, <3>1 DEF Once, Begun
  <2>2. \A u \in Callers : call'[u].pc \in {"connecting", "queued"} => u # t
    BY <1>30 DEF Ends
  <2> QED
    BY <1>0, <1>3, <1>4, <2>1, <2>2 DEF Once
<1>11. Answers'
  BY <1>0, <1>3, <1>30, <1>4 DEF Answers
<1>12. \A u \in Callers : call'[u].pc \in Live => u # t
  BY <1>30 DEF Ends, Live
<1>13. Entries'
  <2>1. ASSUME NEW u \in Callers, NEW p \in pending', p.tag = Tag(u)'
        PROVE  call'[u].pc = "cancelled" \/ (call'[u].pc \in Live /\ p = Entry(u)')
    <3>0. p \in pending /\ p.tag = Tag(u)
      BY <1>4, <1>6, <2>1
    <3>1. CASE u # t
      BY <1>0, <1>3, <1>5, <3>0, <3>1 DEF Entries
    <3>2. CASE u = t /\ how # "cancelled"
      <4>1. call[t].pc = "cancelled" \/ (call[t].pc \in Live /\ p = Entry(t))
        BY <1>0, <3>0, <3>2 DEF Entries
      <4> QED
        BY <2>1, <3>2, <4>1 DEF Inside, Live
    <3>3. CASE u = t /\ how = "cancelled"
      BY <1>30, <3>3
    <3> QED
      BY <3>1, <3>2, <3>3
  <2>2. ASSUME NEW u \in Callers, call'[u].pc \in Live
        PROVE  /\ call'[u].conn \in 1 .. opened' /\ Given(call[u])'
               /\ \A p \in pending' : p.conn = call'[u].conn /\ p.id = call'[u].id => p.tag = Tag(u)'
    <3>1. u # t /\ call'[u] = call[u]
      BY <1>3, <1>12, <2>2
    <3>2. /\ call[u].conn \in 1 .. opened /\ Given(call[u])
          /\ \A p \in pending : p.conn = call[u].conn /\ p.id = call[u].id => p.tag = Tag(u)
      BY <1>0, <2>2, <3>1 DEF Entries
    <3>3. call[u].conn \in Conns
      BY <2>2, <3>1, ConnRange
    <3> QED
      BY <1>4, <1>6, <3>1, <3>2, <3>3 DEF Given, SameNumbers
  <2> QED
    BY <2>1, <2>2 DEF Entries
<1>14. NobodyForgotten'
  <2> SUFFICES ASSUME NEW u \in Callers, call'[u].pc \in {"queued", "draining", "waiting"},
                      call'[u].fut = Unresolved
               PROVE  Entry(u)' \in pending' /\ conn'[call'[u].conn].state \in {"open", "silent"}
    BY DEF NobodyForgotten
  <2>1. u # t /\ call'[u] = call[u]
    BY <1>3, <1>12 DEF Live
  <2>2. Entry(u) \in pending /\ conn[call[u].conn].state \in {"open", "silent"}
    BY <1>0, <2>1 DEF NobodyForgotten
  <2>3. Entry(u) # Entry(t)
    BY <2>1 DEF Entry, Tag
  <2>4. call[u].conn \in Conns
    BY <2>1, ConnRange DEF Live
  <2> QED
    BY <1>5, <2>1, <2>2, <2>3, <2>4 DEF SameStates
<1> QED
  BY <1>7, <1>9, <1>10, <1>11, <1>13, <1>14 DEF Inv

-----------------------------------------------------------------------------
(***************************************************************************)
(* A call gets its number: on the pooled connection or on one just opened. *)
(***************************************************************************)
States == {"new", "open", "closed", "silent"}

ConnRecord(k) == \E L : k \in [state : States, served : BOOLEAN, next : Nat, line : L]

\* Nothing that carries the next number of c, whose state is k.
Unused(c, k) ==
  /\ \A x \in pending \cup frames : x.conn = c => x.id < k.next
  /\ \A u \in Callers : call[u].pc \in Live /\ call[u].conn = c => call[u].id < k.next

LEMMA EnterKeeps ==
  ASSUME Inv, NEW t \in Callers, NEW n \in Nat, NEW c \in Conns, NEW k,
         Enter(t, n, c, k), ConnRecord(k), k.state = "open", Unused(c, k),
         UNCHANGED ran, opened' \in Nat, opened <= opened', opened' <= MaxConns, c <= opened',
         pooled' \in 0 .. opened',
         n > 0, call[t].n <= n, n <= Limit[t], call[t].pc \notin Live,
         <<t, n>> \notin ran, \A x \in pending \cup frames : x.tag # <<t, n>>
  PROVE  Inv'
<1>0. Kinds /\ Numbered /\ Once /\ Answers /\ Entries /\ NobodyForgotten
  BY DEF Inv
<1> DEFINE id == k.next
           new == [conn |-> c, id |-> id, tag |-> <<t, n>>]
           msg == Frame(c, id, <<t, n>>)
           alone == k.line = << >>
           wait == alone /\ k.served /\ Unread(c) >= HighWater
           pc1 == IF wait THEN "draining" ELSE IF alone THEN "waiting" ELSE "queued"
           line1 == IF alone /\ ~wait THEN << >> ELSE Append(k.line, t)
           mine == [pc |-> pc1, n |-> n, conn |-> c, id |-> id, fut |-> Unresolved]
           k1 == [k EXCEPT !.next = k.next + 1, !.line = line1]
<1>1. /\ pending' = pending \cup {new}
      /\ frames' = IF alone /\ k.served THEN frames \cup {msg} ELSE frames
      /\ conn' = [conn EXCEPT ![c] = k1]
      /\ call' = [call EXCEPT ![t] = mine]
  BY DEF Enter, NextId
<1>2. id \in Nat /\ <<t, n>> \in Tags
  BY DEF ConnRecord, Tags
<1>3. pc1 \in Live /\ (pc1 = "queued" => frames' = frames)
  BY <1>1 DEF Live
<1>4. k1.next = id + 1 /\ k1.state = "open" /\ ConnRecord(k1)
  <2>1. PICK L : k \in [state : States, served : BOOLEAN, next : Nat, line : L]
    BY DEF ConnRecord
  <2> HIDE DEF line1
  <2>2. DOMAIN k1 = {"state", "served", "next", "line"} /\ k1 = [f \in DOMAIN k1 |-> k1[f]]
    BY <2>1
  <2>3. k1.next = id + 1 /\ k1.line = line1 /\ k1.state = "open" /\ k1.served = k.served
    BY <2>1
  <2> HIDE DEF k1
  <2>4. k1 = [state |-> "open", served |-> k.served, next |-> id + 1, line |-> line1]
    BY <2>2, <2>3
  <2>5. [state |-> "open", served |-> k.served, next |-> id + 1, line |-> line1]
          \in [state : States, served : BOOLEAN, next : Nat, line : {line1}]
    BY <1>2, <2>1 DEF States
  <2> QED
    BY <2>3, <2>4, <2>5 DEF ConnRecord
<1> HIDE DEF k1, pc1, wait, alone
<1>5. mine \in CallType
  <2>1. MaxConns \in Nat
    BY ConnRange
  <2> QED
    BY <1>2, <1>3, <2>1 DEF CallType, Live, Inside, Conns
<1>6. /\ mine.pc = pc1 /\ mine.n = n /\ mine.conn = c /\ mine.id = id /\ mine.fut = Unresolved
      /\ new.conn = c /\ new.id = id /\ new.tag = <<t, n>>
  OBVIOUS
<1>7. msg.conn = c /\ msg.id = id /\ msg.tag = <<t, n>> /\ msg.at = "sent"
  BY DEF Frame
<1>8. /\ new \in [conn : Conns, id : Nat, tag : Tags]
      /\ msg \in [conn : Conns, id : Nat, tag : Tags, at : {"sent", "handling", "reply"}]
  BY <1>2 DEF Frame
<1>80. \A u : Entry(u) = [conn |-> call[u].conn, id |-> call[u].id, tag |-> Tag(u)]
  BY DEF Entry
<1> HIDE DEF mine, msg, id
<1>9. /\ call' \in [Callers -> CallType] /\ call'[t] = mine
      /\ \A u \in Callers : u # t => call'[u] = call[u]
  BY <1>0, <1>1, <1>5 DEF Kinds
<1>10. /\ Tag(t)' = <<t, n>> /\ Entry(t)' = new
       /\ \A u \in Callers : u # t => Tag(u)' = Tag(u) /\ Entry(u)' = Entry(u)
       /\ \A u \in Callers : call[u].n \in Nat /\ call'[u].n \in Nat /\ call[u].n <= call'[u].n
  <2>1. \A u \in Callers : call[u].n \in Nat
    BY CallFields
  <2> QED
    BY <1>6, <1>9, <2>1 DEF Tag, Entry
<1> HIDE DEF new
<1>11. ConnType' /\ conn'[c] = k1 /\ \A d \in Conns : d # c => conn'[d] = conn[d]
  <2>1. PICK L : conn \in [Conns -> [state : States, served : BOOLEAN, next : Nat, line : L]]
    BY <1>0 DEF Kinds, ConnType, States
  <2>2. PICK M : k1 \in [state : States, served : BOOLEAN, next : Nat, line : M]
    BY <1>4 DEF ConnRecord
  <2>3. conn' \in [Conns -> [state : States, served : BOOLEAN, next : Nat, line : L \cup M]]
    BY <1>1, <2>1, <2>2
  <2>4. conn'[c] = k1 /\ \A d \in Conns : d # c => conn'[d] = conn[d]
    BY <1>1, <2>1
  <2> QED
    BY <2>3, <2>4 DEF ConnType, States
<1>12. pending' = pending \cup {new} /\ frames \subseteq frames' /\ frames' \subseteq frames \cup {msg}
  BY <1>1
<1>13. Kinds'
  <2>1. \A u \in Callers : call'[u].n <= Limit[u] /\ (call'[u].pc # "idle" => call'[u].n > 0)
    BY <1>0, <1>6, <1>9 DEF Kinds
  <2> QED
    BY <1>0, <1>8, <1>9, <1>11, <1>12, <2>1 DEF Kinds
<1>14. \A x \in pending \cup frames : x.conn \in Conns /\ x.tag[1] \in Callers /\ x.tag[2] \in Nat /\ x.id \in Nat
  <2>1. \A x \in pending \cup frames : x.conn \in Conns /\ x.tag \in Tags /\ x.id \in Nat
    BY <1>0 DEF Kinds
  <2> QED
    BY <2>1 DEF Tags
<1>15. Numbered'
  <2>1. ASSUME NEW x \in pending \cup frames PROVE Given(x)' /\ Begun(x.tag)'
    <3>1. x.conn \in Nat /\ x.conn <= opened' /\ Begun(x.tag) /\ x.id < conn[x.conn].next
      BY <1>0, <1>14, ConnRange DEF Numbered, Given, Conns
    <3>2. Begun(x.tag)'
      BY <1>10, <1>14, <3>1 DEF Begun
    <3>3. x.id < conn'[x.conn].next
      BY <1>2, <1>4, <1>11, <1>14, <3>1 DEF Unused, id
    <3> QED
      BY <3>1, <3>2, <3>3 DEF Given
  <2>2. Given(new)' /\ Given(msg)' /\ Begun(<<t, n>>)'
    <3>1. id < conn'[c].next
      BY <1>2, <1>4, <1>11
    <3> QED
      BY <1>6, <1>7, <1>9, <3>1 DEF Given, Begun
  <2>3. \A x \in pending \cup frames : ~(x.conn = c /\ x.id = id)
    BY <1>2, <1>14 DEF Unused, id
  <2>4. \A x \in pending' \cup frames' : Given(x)' /\ Begun(x.tag)'
    BY <1>6, <1>7, <1>12, <2>1, <2>2
  <2>5. \A p \in pending', f \in frames' : p.conn = f.conn /\ p.id = f.id => p.tag = f.tag
    BY <1>0, <1>6, <1>7, <1>12, <2>3 DEF Numbered
  <2> QED
    BY <2>4, <2>5 DEF Numbered
<1>16. Once'
  <2>1. \A r \in ran : Begun(r)'
    <3>1. \A r \in ran : r[1] \in Callers /\ r[2] \in Nat
      BY <1>0 DEF Kinds, Tags
    <3> QED
      BY <1>0, <1>10, <3>1 DEF Once, Begun
  <2>2. \A f \in frames' : f.at = "sent" <=> f.tag \notin ran
    BY <1>0, <1>7, <1>12 DEF Once
  <2>3. \A f, g \in frames' : f.tag = g.tag => f = g
    BY <1>0, <1>7, <1>12 DEF Once
  <2>4. ASSUME NEW u \in Callers, call'[u].pc \in {"connecting", "queued"}
        PROVE  Tag(u)' \notin ran /\ \A f \in frames' : f.tag # Tag(u)'
    <3>1. CASE u = t
      <4>1. frames' = frames
        BY <1>3, <1>6, <1>9, <2>4, <3>1 DEF Live
      <4> QED
        BY <1>10, <3>1, <4>1
    <3>2. CASE u # t
      <4>1. Tag(u) # <<t, n>>
        BY <3>2 DEF Tag
      <4> QED
        BY <1>0, <1>7, <1>9, <1>10, <1>12, <2>4, <3>2, <4>1 DEF Once
    <3> QED
      BY <3>1, <3>2
  <2> QED
    BY <2>1, <2>2, <2>3, <2>4 DEF Once
<1>17. Answers'
  <2>1. Unresolved # <<t, n>>
    BY <1>2, LostIsNoTag
  <2> QED
    BY <1>0, <1>3, <1>6, <1>9, <1>10, <2>1 DEF Answers, Live
<1>18. Entries'
  <2>1. ASSUME NEW u \in Callers, NEW p \in pending', p.tag = Tag(u)'
        PROVE  call'[u].pc = "cancelled" \/ (call'[u].pc \in Live /\ p = Entry(u)')
    <3>1. CASE u = t
      <4>1. p = new
        BY <1>10, <1>12, <2>1, <3>1
      <4> QED
        BY <1>3, <1>6, <1>9, <1>10, <3>1, <4>1
    <3>2. CASE u # t
      <4>1. p # new
        BY <1>6, <1>10, <2>1, <3>2 DEF Tag
      <4>2. p \in pending /\ p.tag = Tag(u)
        BY <1>10, <1>12, <2>1, <3>2, <4>1
      <4> QED
        BY <1>0, <1>9, <1>10, <3>2, <4>2 DEF Entries
    <3> QED
      BY <3>1, <3>2
  <2>2. ASSUME NEW u \in Callers, call'[u].pc \in Live
        PROVE  /\ call'[u].conn \in 1 .. opened' /\ Given(call[u])'
               /\ \A p \in pending' : p.conn = call'[u].conn /\ p.id = call'[u].id => p.tag = Tag(u)'
    <3>1. CASE u = t
      <4>1. id < conn'[c].next
        BY <1>2, <1>4, <1>11
      <4>2. c \in 1 .. opened'
        BY DEF Conns
      <4>3. \A x \in pending : ~(x.conn = c /\ x.id = id)
        BY <1>2, <1>14 DEF Unused, id
      <4> QED
        BY <1>6, <1>9, <1>10, <1>12, <3>1, <4>1, <4>2, <4>3 DEF Given
    <3>2. CASE u # t
      <4>1. call'[u] = call[u] /\ call[u].pc \in Live
        BY <1>9, <2>2, <3>2
      <4>2. /\ call[u].conn \in 1 .. opened /\ Given(call[u])
            /\ \A p \in pending : p.conn = call[u].conn /\ p.id = call[u].id => p.tag = Tag(u)
        BY <1>0, <4>1 DEF Entries
      <4>3. call[u].conn \in Conns /\ call[u].id \in Nat
        BY <4>1, ConnRange, CallFields
      <4>4. call[u].conn = c => call[u].id < id
        BY <4>1 DEF Unused, id
      <4>5. call[u].id < conn'[call[u].conn].next
        BY <1>2, <1>4, <1>11, <4>2, <4>3, <4>4 DEF Given
      <4>6. call[u].conn \in 1 .. opened'
        BY <4>2, ConnRange
      <4>7. ~(new.conn = call[u].conn /\ new.id = call[u].id)
        BY <1>2, <1>6, <4>3, <4>4
      <4> QED
        BY <1>10, <1>12, <3>2, <4>1, <4>2, <4>5, <4>6, <4>7 DEF Given
    <3> QED
      BY <3>1, <3>2
  <2> QED
    BY <2>1, <2>2 DEF Entries
<1>19. NobodyForgotten'
  <2> SUFFICES ASSUME NEW u \in Callers, call'[u].pc \in {"queued", "draining", "waiting"},
                      call'[u].fut = Unresolved
               PROVE  Entry(u)' \in pending' /\ conn'[call'[u].conn].state \in {"open", "silent"}
    BY DEF NobodyForgotten
  <2>1. CASE u = t
    BY <1>4, <1>6, <1>9, <1>10, <1>11, <1>12, <2>1
  <2>2. CASE u # t
    <3>1. call'[u] = call[u] /\ call[u].pc \in Live
      BY <1>9, <2>2 DEF Live
    <3>2. Entry(u) \in pending /\ conn[call[u].conn].state \in {"open", "silent"}
      BY <1>0, <3>1 DEF NobodyForgotten
    <3>3. call[u].conn \in Conns
      BY <3>1, ConnRange
    <3> QED
      BY <1>4, <1>10, <1>11, <1>12, <2>2, <3>1, <3>2, <3>3
  <2> QED
    BY <2>1, <2>2
<1> QED
  BY <1>13, <1>15, <1>16, <1>17, <1>18, <1>19 DEF Inv

-----------------------------------------------------------------------------
(***************************************************************************)
(* The receive loop tells calls their outcome, each at most once.          *)
(***************************************************************************)
LEMMA Fields ==
  ASSUME Inv
  PROVE  \A x \in pending \cup frames :
           x.conn \in Conns /\ x.tag \in Tags /\ x.id \in Nat
           /\ x.tag[1] \in Callers /\ x.tag[2] \in Nat
<1>1. \A x \in pending \cup frames : x.conn \in Conns /\ x.tag \in Tags /\ x.id \in Nat
  BY DEF Inv, Kinds
<1> QED
  BY <1>1 DEF Tags

LEMMA TellKeeps ==
  ASSUME Inv, UNCHANGED <<opened, ran>>, pooled' \in 0 .. opened,
         SameNumbers, pending' \subseteq pending, frames' \subseteq frames,
         call' \in [Callers -> CallType],
         \A u \in Callers :
           /\ call'[u].pc = call[u].pc /\ call'[u].n = call[u].n
           /\ call'[u].conn = call[u].conn /\ call'[u].id = call[u].id
           /\ \/ call'[u].fut = call[u].fut
              \/ /\ call[u].fut = Unresolved
                 /\ call'[u].fut = Lost \/ (call'[u].fut = Tag(u) /\ Tag(u) \in ran),
         \A u \in Callers : call[u].pc \in Live /\ call'[u].fut = Unresolved =>
           Entry(u) \in pending' /\ conn'[call[u].conn].state \in {"open", "silent"}
  PROVE  Inv'
<1>0. Kinds /\ Numbered /\ Once /\ Answers /\ Entries /\ NobodyForgotten
  BY DEF Inv
<1>1. \A u \in Callers : Tag(u)' = Tag(u) /\ Entry(u)' = Entry(u)
  BY DEF Tag, Entry
<1>2. Kinds'
  BY <1>0 DEF Kinds, SameNumbers
<1>3. Numbered'
  <2>1. \A x \in pending \cup frames : Given(x)' /\ Begun(x.tag)'
    BY <1>0, Fields DEF Numbered, Given, Begun, SameNumbers
  <2> QED
    BY <1>0, <2>1 DEF Numbered
<1>4. Once'
  <2>1. \A r \in ran : Begun(r)'
    <3>1. \A r \in ran : r[1] \in Callers
      BY <1>0 DEF Kinds, Tags
    <3> QED
      BY <1>0, <3>1 DEF Once, Begun
  <2> QED
    BY <1>0, <1>1, <2>1 DEF Once
<1>5. Answers'
  <2>1. ASSUME NEW u \in Callers, call'[u].pc = "answered" PROVE call'[u].fut = Tag(u)'
    <3>1. call[u].fut = Tag(u) /\ Tag(u) \in Tags
      BY <1>0, <2>1, CallFields DEF Answers
    <3>2. call[u].fut # Unresolved
      BY <3>1, LostIsNoTag
    <3> QED
      BY <1>1, <3>1, <3>2
  <2>2. ASSUME NEW u \in Callers
        PROVE  /\ call'[u].fut \in {Unresolved, Lost, Tag(u)'}
               /\ call'[u].fut = Tag(u)' => Tag(u)' \in ran'
    <3>1. Lost = Tag(u) => Tag(u) \in ran
      <4>1. CASE call[u].pc = "idle"
        <5>1. Lost # Tag(u)
          <6>1. Len(<<u, call[u].n>>) = 2 /\ Len(<<"lost">>) = 1
            OBVIOUS
          <6> QED
            BY <6>1 DEF Tag, Lost
        <5> QED
          BY <5>1
      <4>2. CASE call[u].pc # "idle"
        BY <4>2, CallFields, LostIsNoTag
      <4> QED
        BY <4>1, <4>2
    <3> QED
      BY <1>0, <1>1, <3>1 DEF Answers
  <2> QED
    BY <2>1, <2>2 DEF Answers
<1>6. Entries'
  <2>1. ASSUME NEW u \in Callers, call'[u].pc \in Live
        PROVE  call'[u].conn \in 1 .. opened' /\ Given(call[u])'
    <3>1. call[u].conn \in 1 .. opened /\ Given(call[u]) /\ call[u].conn \in Conns
      BY <1>0, <2>1, ConnRange DEF Entries
    <3> QED
      BY <3>1 DEF Given, SameNumbers
  <2> QED
    BY <1>0, <1>1, <2>1 DEF Entries
<1>7. NobodyForgotten'
  BY <1>1 DEF NobodyForgotten, Live
<1> QED
  BY <1>2, <1>3, <1>4, <1>5, <1>6, <1>7 DEF Inv

-----------------------------------------------------------------------------
(***************************************************************************)
(* The frames of the calls are served, answered and dropped.               *)
(***************************************************************************)
LEMMA FramesKeep ==
  ASSUME Inv, UNCHANGED <<opened, pooled, pending, call>>, SameNumbers,
         \A c \in Conns : conn[c].state \in {"open", "silent"} =>
           conn'[c].state \in {"open", "silent"},
         frames' \subseteq [conn : Conns, id : Nat, tag : Tags, at : {"sent", "handling", "reply"}],
         \A f \in frames' : \E g \in frames : f.conn = g.conn /\ f.id = g.id /\ f.tag = g.tag,
         ran \subseteq ran', \A r \in ran' : r \in ran \/ \E g \in frames : r = g.tag,
         \A f \in frames' : f.at = "sent" <=> f.tag \notin ran',
         \A f, g \in frames' : f.tag = g.tag => f = g
  PROVE  Inv'
<1>0. Kinds /\ Numbered /\ Once /\ Answers /\ Entries /\ NobodyForgotten
  BY DEF Inv
<1>1. \A u : Tag(u)' = Tag(u) /\ Entry(u)' = Entry(u)
  BY DEF Tag, Entry
<1>2. Kinds'
  <2>1. ran' \subseteq Tags
    BY <1>0, Fields DEF Kinds
  <2> QED
    BY <1>0, <2>1 DEF Kinds, SameNumbers
<1>3. Numbered'
  <2>1. \A x \in pending \cup frames : Given(x)' /\ Begun(x.tag)'
    BY <1>0, Fields DEF Numbered, Given, Begun, SameNumbers
  <2>2. \A x \in pending' \cup frames' : Given(x)' /\ Begun(x.tag)'
    BY <2>1 DEF Given, Begun
  <2>3. \A p \in pending', f \in frames' : p.conn = f.conn /\ p.id = f.id => p.tag = f.tag
    BY <1>0 DEF Numbered
  <2> QED
    BY <2>2, <2>3 DEF Numbered
<1>4. Once'
  <2>1. \A r \in ran' : Begun(r)'
    BY <1>0 DEF Once, Numbered, Begun
  <2>2. ASSUME NEW u \in Callers, call'[u].pc \in {"connecting", "queued"}
        PROVE  Tag(u)' \notin ran' /\ \A f \in frames' : f.tag # Tag(u)'
    BY <1>0, <1>1, <2>2 DEF Once
  <2> QED
    BY <2>1, <2>2 DEF Once
<1>5. Answers'
  BY <1>0, <1>1 DEF Answers
<1>6. Entries'
  <2>1. ASSUME NEW u \in Callers, call'[u].pc \in Live
        PROVE  call'[u].conn \in 1 .. opened' /\ Given(call[u])'
    <3>1. call[u].conn \in 1 .. opened /\ Given(call[u]) /\ call[u].conn \in Conns
      BY <1>0, <2>1, ConnRange DEF Entries
    <3> QED
      BY <3>1 DEF Given, SameNumbers
  <2> QED
    BY <1>0, <1>1, <2>1 DEF Entries
<1>7. NobodyForgotten'
  <2>1. \A u \in Callers : call[u].pc \in Live => call[u].conn \in Conns
    BY ConnRange
  <2> QED
    BY <1>0, <1>1, <2>1 DEF NobodyForgotten, Live
<1> QED
  BY <1>2, <1>3, <1>4, <1>5, <1>6, <1>7 DEF Inv

-----------------------------------------------------------------------------
(***************************************************************************)
(* The steps of a caller.                                                  *)
(***************************************************************************)
LEMMA Fresh ==
  ASSUME Inv, NEW t \in Callers
  PROVE  LET n == call[t].n + 1 IN
         <<t, n>> \notin ran /\ \A x \in pending \cup frames : x.tag # <<t, n>>
<1>1. \A x \in pending \cup frames : Begun(x.tag)
  BY DEF Inv, Numbered
<1>2. \A r \in ran : Begun(r)
  BY DEF Inv, Once
<1>3. ~Begun(<<t, call[t].n + 1>>)
  <2>1. call[t].n \in Nat
    BY CallFields
  <2> QED
    BY <2>1 DEF Begun
<1> QED
  BY <1>1, <1>2, <1>3

LEMMA MoveKeeps ==
  ASSUME Inv, NEW t \in Callers, NEW q \in {"draining", "waiting"},
         call[t].pc \in {"queued", "draining"}, call' = [call EXCEPT ![t].pc = q],
         UNCHANGED <<opened, pooled, pending, ran>>, SameNumbers, SameStates,
         \/ UNCHANGED frames
         \/ /\ call[t].pc = "queued"
            /\ frames' = frames \cup {Frame(call[t].conn, call[t].id, Tag(t))}
  PROVE  Inv'
<1>0. Kinds /\ Numbered /\ Once /\ Answers /\ Entries /\ NobodyForgotten
  BY DEF Inv
<1>1. /\ call' \in [Callers -> CallType] /\ call'[t].pc = q
      /\ \A u \in Callers : /\ call'[u].n = call[u].n /\ call'[u].conn = call[u].conn
                            /\ call'[u].id = call[u].id /\ call'[u].fut = call[u].fut
                            /\ u # t => call'[u].pc = call[u].pc
  <2>1. call \in [Callers -> CallType] /\ call[t] \in CallType
    BY <1>0 DEF Kinds
  <2>2. q \in Ends \cup Inside \cup {"idle"}
    BY DEF Inside
  <2>3. [call[t] EXCEPT !.pc = q] \in CallType
    BY <2>1, <2>2 DEF CallType
  <2>4. call' \in [Callers -> CallType] /\ call'[t] = [call[t] EXCEPT !.pc = q]
    BY <2>1, <2>3
  <2> QED
    BY <2>1, <2>4 DEF CallType
<1>2. \A u \in Callers : Tag(u)' = Tag(u) /\ Entry(u)' = Entry(u)
  BY <1>1 DEF Tag, Entry
<1>3. \A u \in Callers : call'[u].pc \in Live <=> call[u].pc \in Live
  BY <1>1 DEF Live
<1> DEFINE msg == Frame(call[t].conn, call[t].id, Tag(t))
<1>4. /\ msg.conn = call[t].conn /\ msg.id = call[t].id /\ msg.tag = Tag(t) /\ msg.at = "sent"
      /\ msg \in [conn : Conns, id : Nat, tag : Tags, at : {"sent", "handling", "reply"}]
  <2>1. call[t].conn \in Conns /\ call[t].id \in Nat /\ Tag(t) \in Tags
    BY ConnRange, CallFields DEF Live
  <2> QED
    BY <2>1 DEF Frame
<1> HIDE DEF msg
<1>5. UNCHANGED frames \/ (call[t].pc = "queued" /\ frames' = frames \cup {msg})
  BY DEF msg
<1>6. Kinds'
  <2>1. \A u \in Callers : call'[u].n <= Limit[u] /\ (call'[u].pc # "idle" => call'[u].n > 0)
    BY <1>0, <1>1 DEF Kinds
  <2> QED
    BY <1>0, <1>1, <1>4, <1>5, <2>1 DEF Kinds, SameNumbers
<1>7. Numbered'
  <2>1. \A x \in pending \cup frames : Given(x)' /\ Begun(x.tag)'
    BY <1>0, <1>1, Fields DEF Numbered, Given, Begun, SameNumbers
  <2>2. /\ msg.conn <= opened' /\ msg.id < conn'[msg.conn].next
        /\ msg.tag[2] <= call'[msg.tag[1]].n
    <3>1. call[t].conn \in 1 .. opened /\ Given(call[t]) /\ call[t].conn \in Conns
      BY <1>0, ConnRange DEF Entries, Live
    <3>2. call[t].n \in Nat /\ call'[t].n = call[t].n
      BY <1>1, CallFields
    <3>3. msg.tag[1] = t /\ msg.tag[2] = call[t].n
      BY <1>4 DEF Tag
    <3> QED
      BY <1>4, <3>1, <3>2, <3>3 DEF Given, SameNumbers
  <2>3. \A p \in pending : p.conn = call[t].conn /\ p.id = call[t].id => p.tag = Tag(t)
    BY <1>0 DEF Entries, Live
  <2>4. \A x \in pending' \cup frames' : Given(x)' /\ Begun(x.tag)'
    BY <1>5, <2>1, <2>2 DEF Given, Begun
  <2>5. \A p \in pending', f \in frames' : p.conn = f.conn /\ p.id = f.id => p.tag = f.tag
    BY <1>0, <1>4, <1>5, <2>3 DEF Numbered
  <2> QED
    BY <2>4, <2>5 DEF Numbered
<1>8. Once'
  <2>1. \A r \in ran : Begun(r)'
    <3>1. \A r \in ran : r[1] \in Callers
      BY <1>0 DEF Kinds, Tags
    <3> QED
      BY <1>0, <1>1, <3>1 DEF Once, Begun
  <2>2. call[t].pc = "queued" => Tag(t) \notin ran /\ \A f \in frames : f.tag # Tag(t)
    BY <1>0 DEF Once
  <2>3. /\ \A f \in frames' : f.at = "sent" <=> f.tag \notin ran
        /\ \A f, g \in frames' : f.tag = g.tag => f = g
    BY <1>0, <1>4, <1>5, <2>2 DEF Once
  <2>4. ASSUME NEW u \in Callers, call'[u].pc \in {"connecting", "queued"}
        PROVE  Tag(u)' \notin ran /\ \A f \in frames' : f.tag # Tag(u)'
    <3>1. u # t /\ call[u].pc \in {"connecting", "queued"}
      BY <1>1, <2>4
    <3>2. Tag(u) # Tag(t)
      BY <3>1 DEF Tag
    <3> QED
      BY <1>0, <1>2, <1>4, <1>5, <3>1, <3>2 DEF Once
  <2> QED
    BY <2>1, <2>3, <2>4 DEF Once
<1>9. Answers'
  <2>1. \A u \in Callers : call'[u].pc = "answered" => call[u].pc = "answered"
    BY <1>1
  <2> QED
    BY <1>0, <1>1, <1>2, <2>1 DEF Answers
<1>10. Entries'
  <2>1. ASSUME NEW u \in Callers, call'[u].pc \in Live
        PROVE  /\ call'[u].conn \in 1 .. opened' /\ Given(call[u])'
               /\ \A p \in pending' : p.conn = call'[u].conn /\ p.id = call'[u].id => p.tag = Tag(u)'
    <3>1. /\ call[u].conn \in 1 .. opened /\ Given(call[u]) /\ call[u].conn \in Conns
          /\ \A p \in pending : p.conn = call[u].conn /\ p.id = call[u].id => p.tag = Tag(u)
      BY <1>0, <1>3, <2>1, ConnRange DEF Entries
    <3> QED
      BY <1>1, <1>2, <3>1 DEF Given, SameNumbers
  <2>2. ASSUME NEW u \in Callers, NEW p \in pending', p.tag = Tag(u)'
        PROVE  call'[u].pc = "cancelled" \/ (call'[u].pc \in Live /\ p = Entry(u)')
    <3>1. call[u].pc = "cancelled" \/ (call[u].pc \in Live /\ p = Entry(u))
      BY <1>0, <1>2, <2>2 DEF Entries
    <3>2. call[u].pc = "cancelled" => u # t
      OBVIOUS
    <3> QED
      BY <1>1, <1>2, <1>3, <3>1, <3>2
  <2> QED
    BY <2>1, <2>2 DEF Entries
<1>11. NobodyForgotten'
  <2>1. \A u \in Callers : call[u].pc \in Live => call[u].conn \in Conns
    BY ConnRange
  <2> QED
    BY <1>0, <1>1, <1>2, <1>3, <2>1 DEF NobodyForgotten, Live, SameStates
<1> QED
  BY <1>6, <1>7, <1>8, <1>9, <1>10, <1>11 DEF Inv

LEMMA NewState ==
  ASSUME ConnType, NEW c \in Conns, NEW s \in States, conn' = [conn EXCEPT ![c].state = s]
  PROVE  SameNumbers /\ \A d \in Conns : conn'[d].state = IF d = c THEN s ELSE conn[d].state
<1>1. PICK L : conn \in [Conns -> [state : States, served : BOOLEAN, next : Nat, line : L]]
  BY DEF ConnType, States
<1>2. conn' \in [Conns -> [state : States, served : BOOLEAN, next : Nat, line : L]]
  BY <1>1
<1>3. \A d \in Conns : /\ conn'[d].state = IF d = c THEN s ELSE conn[d].state
                       /\ conn'[d].next = conn[d].next
  BY <1>1
<1> QED
  BY <1>2, <1>3 DEF SameNumbers, ConnType, States

LEMMA SameConn ==
  ASSUME ConnType, UNCHANGED conn PROVE SameNumbers /\ SameStates
BY DEF ConnType, SameNumbers, SameStates

LEMMA CloseKeeps ==
  ASSUME Inv, NEW c \in Conns, FailAll(c), conn' = [conn EXCEPT ![c].state = "closed"],
         frames' \subseteq frames, UNCHANGED <<opened, ran>>, pooled' \in 0 .. opened
  PROVE  Inv'
<1>0. Kinds /\ Entries /\ NobodyForgotten
  BY DEF Inv
<1>1. SameNumbers /\ \A d \in Conns : conn'[d].state = IF d = c THEN "closed" ELSE conn[d].state
  BY <1>0, NewState DEF Kinds, States
<1> DEFINE Told(t) == \E p \in pending : p.conn = c /\ p.tag = Tag(t) /\ call[t].fut = Unresolved
<1>2. /\ call' = [t \in Callers |-> IF Told(t) THEN [call[t] EXCEPT !.fut = Lost] ELSE call[t]]
      /\ pending' = {p \in pending : p.conn # c}
  BY DEF FailAll
<1>3. \A t \in Callers : Told(t) => call[t].fut = Unresolved
  OBVIOUS
<1>4. \A t \in Callers : call[t].pc \in Live /\ call[t].fut = Unresolved /\ ~Told(t) =>
        Entry(t) \in pending /\ call[t].conn # c
  <2>1. \A t \in Callers : call[t].pc \in Live /\ call[t].fut = Unresolved => Entry(t) \in pending
    BY <1>0 DEF NobodyForgotten, Live
  <2>2. \A t : Entry(t).conn = call[t].conn /\ Entry(t).tag = Tag(t)
    BY DEF Entry
  <2> QED
    BY <2>1, <2>2
<1> HIDE DEF Told
<1>5. \A t \in Callers : call[t] \in CallType
  BY CallFields
<1>6. \A t \in Callers : [call[t] EXCEPT !.fut = Lost] \in CallType
  BY <1>5 DEF CallType
<1>7. call' \in [Callers -> CallType]
  BY <1>2, <1>5, <1>6
<1>8. \A u \in Callers :
        /\ call'[u].pc = call[u].pc /\ call'[u].n = call[u].n
        /\ call'[u].conn = call[u].conn /\ call'[u].id = call[u].id
        /\ call'[u].fut = IF Told(u) THEN Lost ELSE call[u].fut
  BY <1>2, <1>5 DEF CallType
<1>9. ASSUME NEW u \in Callers, call[u].pc \in Live, call'[u].fut = Unresolved
      PROVE  Entry(u) \in pending' /\ conn'[call[u].conn].state \in {"open", "silent"}
  <2>1. ~Told(u) /\ call[u].fut = Unresolved
    BY <1>3, <1>8, <1>9, LostIsNoTag
  <2>2. Entry(u) \in pending /\ call[u].conn # c /\ Entry(u).conn = call[u].conn
    BY <1>4, <1>9, <2>1 DEF Entry
  <2>3. conn[call[u].conn].state \in {"open", "silent"} /\ call[u].conn \in Conns
    BY <1>0, <1>9, <2>1, ConnRange DEF NobodyForgotten, Live
  <2> QED
    BY <1>1, <1>2, <2>2, <2>3
<1>10. \A u \in Callers :
         /\ call'[u].pc = call[u].pc /\ call'[u].n = call[u].n
         /\ call'[u].conn = call[u].conn /\ call'[u].id = call[u].id
         /\ \/ call'[u].fut = call[u].fut
            \/ /\ call[u].fut = Unresolved
               /\ call'[u].fut = Lost \/ (call'[u].fut = Tag(u) /\ Tag(u) \in ran)
  BY <1>3, <1>8
<1>11. pending' \subseteq pending
  BY <1>2
<1> QED
  BY <1>1, <1>7, <1>9, <1>10, <1>11, TellKeeps

LEMMA ReceiveKeeps == ASSUME Inv, NEW f \in frames, Receive(f) PROVE Inv'
<1> DEFINE found == {p \in pending : p.conn = f.conn /\ p.id = f.id}
           Told(t) == \E p \in found : p.tag = Tag(t) /\ call[t].fut = Unresolved
<1>0. Kinds /\ Numbered /\ Once /\ Entries /\ NobodyForgotten
  BY DEF Inv
<1>1. /\ frames' = frames \ {f} /\ pending' = pending \ found /\ f.at = "reply"
      /\ call' = [t \in Callers |-> IF Told(t) THEN [call[t] EXCEPT !.fut = f.tag] ELSE call[t]]
      /\ UNCHANGED <<opened, pooled, conn, ran>>
  BY DEF Receive
<1>2. SameNumbers /\ SameStates
  BY <1>0, <1>1, SameConn DEF Kinds
<1>3. \A t \in Callers : Told(t) => call[t].fut = Unresolved /\ f.tag = Tag(t)
  BY <1>0 DEF Numbered
<1>4. f.tag \in ran /\ f.tag \in Tags
  BY <1>0, <1>1, Fields DEF Once
<1>5. \A t \in Callers : call[t].pc \in Live /\ call[t].fut = Unresolved /\ ~Told(t) =>
        Entry(t) \in pending /\ Entry(t) \notin found
  <2>1. \A t \in Callers : call[t].pc \in Live /\ call[t].fut = Unresolved => Entry(t) \in pending
    BY <1>0 DEF NobodyForgotten, Live
  <2>2. \A t : Entry(t).tag = Tag(t)
    BY DEF Entry
  <2> QED
    BY <2>1, <2>2
<1>6. pending' \subseteq pending
  BY <1>1
<1>60. \A p \in pending : p \notin found => p \in pending'
  BY <1>1
<1> HIDE DEF Told, found
<1>7. \A t \in Callers : call[t] \in CallType /\ [call[t] EXCEPT !.fut = f.tag] \in CallType
  <2>1. \A t \in Callers : call[t] \in CallType
    BY CallFields
  <2> QED
    BY <1>4, <2>1 DEF CallType
<1>8. call' \in [Callers -> CallType]
  BY <1>1, <1>7
<1>9. \A u \in Callers :
        /\ call'[u].pc = call[u].pc /\ call'[u].n = call[u].n
        /\ call'[u].conn = call[u].conn /\ call'[u].id = call[u].id
        /\ call'[u].fut = IF Told(u) THEN f.tag ELSE call[u].fut
  BY <1>1, <1>7 DEF CallType
<1>10. ASSUME NEW u \in Callers, call[u].pc \in Live, call'[u].fut = Unresolved
       PROVE  Entry(u) \in pending' /\ conn'[call[u].conn].state \in {"open", "silent"}
  <2>1. ~Told(u) /\ call[u].fut = Unresolved
    BY <1>4, <1>9, <1>10, LostIsNoTag
  <2>2. Entry(u) \in pending'
    BY <1>5, <1>10, <1>60, <2>1
  <2>3. conn[call[u].conn].state \in {"open", "silent"} /\ call[u].conn \in Conns
    BY <1>0, <1>10, <2>1, ConnRange DEF NobodyForgotten, Live
  <2> QED
    BY <1>2, <2>2, <2>3 DEF SameStates
<1>11. \A u \in Callers :
         /\ call'[u].pc = call[u].pc /\ call'[u].n = call[u].n
         /\ call'[u].conn = call[u].conn /\ call'[u].id = call[u].id
         /\ \/ call'[u].fut = call[u].fut
            \/ /\ call[u].fut = Unresolved
               /\ call'[u].fut = Lost \/ (call'[u].fut = Tag(u) /\ Tag(u) \in ran)
  BY <1>3, <1>4, <1>9
<1>12. pooled' \in 0 .. opened /\ frames' \subseteq frames
  BY <1>0, <1>1 DEF Kinds
<1> QED
  BY <1>1, <1>2, <1>6, <1>8, <1>10, <1>11, <1>12, TellKeeps

LEMMA BeginKeeps == ASSUME Inv, NEW t \in Callers, Begin(t) PROVE Inv'
<1> DEFINE n == call[t].n + 1
<1>0. Kinds /\ Numbered /\ Once /\ Answers /\ Entries /\ NobodyForgotten
  BY DEF Inv
<1>1. /\ call[t].pc \in Ends \cup {"idle"} /\ n <= Limit[t]
      /\ UNCHANGED <<opened, pooled, ran>>
  BY DEF Begin
<1>2. call[t].n \in Nat /\ n \in Nat /\ n > 0 /\ call[t].n <= n
  <2>1. call[t].n \in Nat
    BY CallFields
  <2> QED
    BY <2>1
<1>4. <<t, n>> \notin ran /\ \A x \in pending \cup frames : x.tag # <<t, n>>
  BY Fresh
<1>5. /\ MaxConns \in Nat /\ opened \in Nat /\ pooled \in Nat
      /\ opened <= MaxConns /\ pooled <= opened
  BY ConnRange
<1>6. CASE pooled # None /\ conn[pooled].state = "open" /\ Enter(t, n, pooled, conn[pooled])
  <2>1. pooled \in Conns
    BY <1>5, <1>6 DEF Conns, None
  <2>2. ConnRecord(conn[pooled])
    BY <1>0, <2>1 DEF Kinds, ConnType, ConnRecord, States
  <2>3. Unused(pooled, conn[pooled])
    <3>1. \A x \in pending \cup frames : Given(x)
      BY <1>0 DEF Numbered
    <3>2. \A u \in Callers : call[u].pc \in Live => Given(call[u])
      BY <1>0 DEF Entries
    <3> QED
      BY <3>1, <3>2 DEF Unused, Given
  <2>4. call[t].pc \notin Live
    BY <1>1 DEF Ends, Live
  <2>5. opened' \in Nat /\ opened <= opened' /\ opened' <= MaxConns /\ pooled <= opened'
        /\ pooled' \in 0 .. opened'
    BY <1>1, <1>5
  <2> DEFINE k == conn[pooled]
             c == pooled
  <2>6. Enter(t, n, c, k) /\ ConnRecord(k) /\ k.state = "open" /\ Unused(c, k) /\ c \in Conns
    BY <1>6, <2>1, <2>2, <2>3
  <2> HIDE DEF k, c, n
  <2> QED
    BY <1>1, <1>2, <1>4, <2>4, <2>5, <2>6, EnterKeeps DEF c
<1>7. CASE /\ call' = [call EXCEPT ![t] = [Idle EXCEPT !.pc = "connecting", !.n = n]]
           /\ UNCHANGED <<conn, pending, frames>>
  <2> DEFINE new == [pc |-> "connecting", n |-> n, conn |-> None, id |-> 0, fut |-> Unresolved]
  <2>1. [Idle EXCEPT !.pc = "connecting", !.n = n] = new
    BY ConnectingRecord
  <2>2. new \in CallType
    BY <1>2, <1>5 DEF CallType, Inside, None
  <2>3. /\ call' \in [Callers -> CallType] /\ call'[t] = new
        /\ \A u \in Callers : u # t => call'[u] = call[u]
    BY <1>0, <1>7, <2>1, <2>2 DEF Kinds
  <2>4. new.pc = "connecting" /\ new.n = n /\ new.fut = Unresolved
    OBVIOUS
  <2> HIDE DEF new
  <2>5. /\ Tag(t)' = <<t, n>>
        /\ \A u \in Callers : u # t => Tag(u)' = Tag(u) /\ Entry(u)' = Entry(u)
        /\ \A u \in Callers : call[u].n \in Nat /\ call'[u].n \in Nat /\ call[u].n <= call'[u].n
    <3>1. \A u \in Callers : call[u].n \in Nat
      BY CallFields
    <3> QED
      BY <1>2, <2>3, <2>4, <3>1 DEF Tag, Entry
  <2>6. SameNumbers /\ SameStates
    BY <1>0, <1>7, SameConn DEF Kinds
  <2>7. Kinds'
    BY <1>0, <1>1, <1>2, <1>7, <2>3, <2>4, <2>6 DEF Kinds, SameNumbers
  <2>8. \A x \in pending \cup frames : x.tag[1] \in Callers /\ x.tag[2] \in Nat
    BY Fields
  <2>9. Numbered'
    <3>1. \A x \in pending \cup frames : Given(x)' /\ Begun(x.tag)'
      BY <1>0, <1>1, <1>7, <2>5, <2>8 DEF Numbered, Given, Begun
    <3> QED
      BY <1>0, <1>7, <3>1 DEF Numbered
  <2>10. Once'
    <3>1. \A r \in ran : Begun(r)'
      <4>1. \A r \in ran : r[1] \in Callers /\ r[2] \in Nat
        BY <1>0 DEF Kinds, Tags
      <4> QED
        BY <1>0, <2>5, <4>1 DEF Once, Begun
    <3>2. ASSUME NEW u \in Callers, call'[u].pc \in {"connecting", "queued"}
          PROVE  Tag(u)' \notin ran /\ \A f \in frames : f.tag # Tag(u)'
      BY <1>0, <1>4, <2>3, <2>5, <3>2 DEF Once
    <3> QED
      BY <1>0, <1>1, <1>7, <3>1, <3>2 DEF Once
  <2>11. Answers'
    <3>1. Unresolved # <<t, n>>
      <4>1. Len(<<t, n>>) = 2 /\ Len(<< >>) = 0
        OBVIOUS
      <4> QED
        BY <4>1 DEF Unresolved
    <3> QED
      BY <1>0, <1>1, <2>3, <2>4, <2>5, <3>1 DEF Answers
  <2>12. Entries'
    <3>1. ASSUME NEW u \in Callers, NEW p \in pending', p.tag = Tag(u)'
          PROVE  u # t
      BY <1>4, <1>7, <2>5, <3>1
    <3>2. \A u \in Callers : call'[u].pc \in Live => u # t
      BY <2>3, <2>4 DEF Live
    <3> QED
      BY <1>0, <1>1, <1>7, <2>3, <2>5, <3>1, <3>2 DEF Entries, Given
  <2>13. NobodyForgotten'
    <3>1. \A u \in Callers : call'[u].pc \in {"queued", "draining", "waiting"} => u # t
      BY <2>3, <2>4
    <3> QED
      BY <1>0, <1>7, <2>3, <2>5, <3>1 DEF NobodyForgotten
  <2> QED
    BY <2>7, <2>9, <2>10, <2>11, <2>12, <2>13 DEF Inv
<1> QED
  BY <1>6, <1>7 DEF Begin

LEMMA ConnectedKeeps == ASSUME Inv, NEW t \in Callers, Connected(t) PROVE Inv'
<1> DEFINE c == opened + 1
           k == [state |-> "open", served |-> TRUE, next |-> 0, line |-> << >>]
           n == call[t].n
<1>0. Kinds /\ Numbered /\ Once /\ Entries
  BY DEF Inv
<1>1. /\ call[t].pc = "connecting" /\ opened < MaxConns /\ opened' = c /\ pooled' = c
      /\ Enter(t, n, c, k) /\ UNCHANGED ran
  BY DEF Connected
<1>2. MaxConns \in Nat /\ opened \in Nat
  BY ConnRange
<1>3. c \in Conns /\ c \in Nat /\ opened <= c /\ c <= MaxConns /\ c \in 0 .. c
  BY <1>1, <1>2 DEF Conns
<1>4. n \in Nat /\ n > 0 /\ n <= Limit[t] /\ n <= n
  BY <1>0, <1>1, CallFields DEF Kinds
<1>5. <<t, n>> \notin ran /\ \A x \in pending \cup frames : x.tag # <<t, n>>
  BY <1>0, <1>1 DEF Once, Entries, Tag, Live
<1>6. ConnRecord(k) /\ k.state = "open" /\ k.next = 0
  <2>1. k \in [state : States, served : BOOLEAN, next : Nat, line : {<< >>}]
    BY DEF States
  <2> QED
    BY <2>1 DEF ConnRecord
<1>7. Unused(c, k)
  <2>1. \A x \in pending \cup frames : x.conn # c
    BY <1>0, <1>2, Fields DEF Numbered, Given, Conns
  <2>2. \A u \in Callers : call[u].pc \in Live => call[u].conn # c
    BY <1>0, <1>2 DEF Entries
  <2> QED
    BY <2>1, <2>2 DEF Unused
<1>8. call[t].pc \notin Live
  BY <1>1 DEF Live
<1>9. /\ opened' \in Nat /\ opened <= opened' /\ opened' <= MaxConns /\ c <= opened'
      /\ pooled' \in 0 .. opened' /\ call[t].n <= n
  BY <1>1, <1>3, <1>4
<1>10. Enter(t, n, c, k) /\ UNCHANGED ran
  BY <1>1
<1> HIDE DEF k, c, n
<1> QED
  BY <1>3, <1>4, <1>5, <1>6, <1>7, <1>8, <1>9, <1>10, EnterKeeps

LEMMA CallerKeeps == ASSUME Inv, NEW t \in Callers, CallerStep(t) \/ Cancel(t) PROVE Inv'
<1>0. Kinds /\ Answers /\ Entries /\ ConnType
  BY DEF Inv, Kinds
<1>1. CASE Connected(t)
  BY <1>1, ConnectedKeeps
<1>2. CASE ConnectFails(t)
  <2>1. /\ call[t].pc = "connecting" /\ End(t, "lost", Lost) /\ pending' = pending
        /\ UNCHANGED <<conn, opened, pooled, frames, ran>>
    BY <1>2 DEF ConnectFails
  <2>2. SameNumbers /\ SameStates
    BY <1>0, <2>1, SameConn
  <2>3. Lost # Tag(t)
    BY <2>1, CallFields, LostIsNoTag
  <2> QED
    BY <2>1, <2>2, <2>3, EndKeeps DEF Inside, Ends
<1>3. CASE Write(t)
  <2>1. /\ call[t].pc = "queued" /\ UNCHANGED <<opened, pooled, pending, ran>>
        /\ \/ frames' = Written(call[t].conn, Frame(call[t].conn, call[t].id, Tag(t)))
           \/ UNCHANGED frames
        /\ \/ call' = [call EXCEPT ![t].pc = "draining"] /\ UNCHANGED conn
           \/ call' = [call EXCEPT ![t].pc = "waiting"] /\ Release(t)
    BY <1>3 DEF Write
  <2>2. call[t].conn \in Conns
    BY <2>1, ConnRange DEF Live
  <2>3. SameNumbers /\ SameStates
    BY <1>0, <2>1, <2>2, SameConn, ReleaseKeeps
  <2>4. \/ UNCHANGED frames
        \/ frames' = frames \cup {Frame(call[t].conn, call[t].id, Tag(t))}
    BY <2>1 DEF Written
  <2>5. CASE call' = [call EXCEPT ![t].pc = "draining"]
    BY <2>1, <2>3, <2>4, <2>5, MoveKeeps
  <2>6. CASE call' = [call EXCEPT ![t].pc = "waiting"]
    BY <2>1, <2>3, <2>4, <2>6, MoveKeeps
  <2> QED
    BY <2>1, <2>5, <2>6
<1>4. CASE Drained(t)
  <2>1. /\ call[t].pc = "draining" /\ UNCHANGED <<opened, pooled, pending, frames, ran>>
        /\ call' = [call EXCEPT ![t].pc = "waiting"] /\ Release(t)
    BY <1>4 DEF Drained
  <2>2. call[t].conn \in Conns
    BY <2>1, ConnRange DEF Live
  <2>3. SameNumbers /\ SameStates
    BY <1>0, <2>1, <2>2, ReleaseKeeps
  <2> QED
    BY <2>1, <2>3, MoveKeeps
<1>5. CASE WriteFails(t)
  <2>1. /\ call[t].pc \in {"queued", "draining"} /\ End(t, "lost", Lost)
        /\ pending' = pending \ {Entry(t)} /\ Release(t)
        /\ UNCHANGED <<opened, pooled, frames, ran>>
    BY <1>5 DEF WriteFails
  <2>2. call[t].conn \in Conns
    BY <2>1, ConnRange DEF Live
  <2>3. SameNumbers /\ SameStates
    BY <1>0, <2>1, <2>2, ReleaseKeeps
  <2>4. Lost # Tag(t)
    BY <2>1, CallFields, LostIsNoTag
  <2> QED
    BY <2>1, <2>3, <2>4, EndKeeps DEF Inside, Ends
<1>6. CASE Return(t)
  <2>1. /\ call[t].pc = "waiting" /\ call[t].fut # Unresolved
        /\ End(t, IF call[t].fut = Lost THEN "lost" ELSE "answered", call[t].fut)
        /\ pending' = pending \ {Entry(t)} /\ UNCHANGED <<conn, opened, pooled, frames, ran>>
    BY <1>6 DEF Return
  <2>2. SameNumbers /\ SameStates
    BY <1>0, <2>1, SameConn
  <2>3. Lost # Tag(t)
    BY <2>1, CallFields, LostIsNoTag
  <2>4. CASE call[t].fut = Lost
    <3>1. End(t, "lost", Lost)
      BY <2>1, <2>4
    <3> QED
      BY <2>1, <2>2, <2>3, <3>1, EndKeeps DEF Inside, Ends
  <2>5. CASE call[t].fut # Lost
    <3>1. call[t].fut = Tag(t) /\ Tag(t) \in ran
      BY <1>0, <2>1, <2>5 DEF Answers
    <3>2. End(t, "answered", Tag(t))
      BY <2>1, <2>5, <3>1
    <3> QED
      BY <2>1, <2>2, <3>1, <3>2, EndKeeps DEF Inside, Ends
  <2> QED
    BY <2>4, <2>5
<1>7. CASE Timeout(t)
  <2>1. /\ call[t].pc = "waiting" /\ End(t, "timed out", Lost) /\ pending' = pending \ {Entry(t)}
        /\ UNCHANGED <<conn, opened, pooled, frames, ran>>
    BY <1>7 DEF Timeout
  <2>2. SameNumbers /\ SameStates
    BY <1>0, <2>1, SameConn
  <2>3. Lost # Tag(t)
    BY <2>1, CallFields, LostIsNoTag
  <2> QED
    BY <2>1, <2>2, <2>3, EndKeeps DEF Inside, Ends
<1>8. CASE Cancel(t)
  <2>1. /\ call[t].pc \in Inside /\ End(t, "cancelled", Lost)
        /\ pending' \in {pending, pending \ {Entry(t)}}
        /\ (call[t].pc \in {"queued", "draining"} /\ Release(t)) \/ UNCHANGED conn
        /\ UNCHANGED <<opened, pooled, frames, ran>>
    BY <1>8 DEF Cancel
  <2>2. SameNumbers /\ SameStates
    <3>1. call[t].pc \in {"queued", "draining"} => call[t].conn \in Conns
      BY ConnRange DEF Live
    <3> QED
      BY <1>0, <2>1, <3>1, SameConn, ReleaseKeeps
  <2>3. Lost # Tag(t)
    BY <2>1, CallFields, LostIsNoTag DEF Inside
  <2> QED
    BY <2>1, <2>2, <2>3, EndKeeps DEF Ends
<1> QED
  BY <1>1, <1>2, <1>3, <1>4, <1>5, <1>6, <1>7, <1>8 DEF CallerStep

-----------------------------------------------------------------------------
(***************************************************************************)
(* The steps of the connections and of the peer.                           *)
(***************************************************************************)
LEMMA ServedChange ==
  ASSUME Inv, NEW C \in SUBSET Conns,
         conn' = [c \in Conns |-> IF c \in C THEN [conn[c] EXCEPT !.served = FALSE] ELSE conn[c]],
         frames' \subseteq frames, UNCHANGED <<opened, pooled, pending, call, ran>>
  PROVE  Inv'
<1>0. Kinds /\ Once /\ ConnType
  BY DEF Inv, Kinds
<1>1. PICK L : conn \in [Conns -> [state : States, served : BOOLEAN, next : Nat, line : L]]
  BY <1>0 DEF ConnType, States
<1>2. conn' \in [Conns -> [state : States, served : BOOLEAN, next : Nat, line : L]]
  BY <1>1
<1>3. \A c \in Conns : conn'[c].next = conn[c].next /\ conn'[c].state = conn[c].state
  BY <1>1
<1>4. SameNumbers
  BY <1>2, <1>3 DEF SameNumbers, ConnType, States
<1>5. frames' \subseteq [conn : Conns, id : Nat, tag : Tags, at : {"sent", "handling", "reply"}]
  BY <1>0 DEF Kinds
<1> QED
  BY <1>0, <1>3, <1>4, <1>5, FramesKeep DEF Once

LEMMA ServeKeeps == ASSUME Inv, NEW f \in frames, Serve(f) \/ Dispatch(f) PROVE Inv'
<1>0. Kinds /\ Once /\ ConnType
  BY DEF Inv, Kinds
<1>1. UNCHANGED <<opened, pooled, conn, pending, call>>
  BY DEF Serve, Dispatch
<1>2. SameNumbers /\ SameStates
  BY <1>0, <1>1, SameConn
<1>3. f \in [conn : Conns, id : Nat, tag : Tags, at : {"sent", "handling", "reply"}]
  BY <1>0 DEF Kinds
<1>4. PICK q \in {"handling", "reply"} :
        /\ frames' \subseteq (frames \ {f}) \cup {[f EXCEPT !.at = q]}
        /\ \/ f.at = "sent" /\ ran' = ran \cup {f.tag}
           \/ f.at = "handling" /\ ran' = ran
  <2>1. CASE Serve(f)
    <3>1. /\ frames' = (frames \ {f}) \cup {[f EXCEPT !.at = "handling"]}
          /\ f.at = "sent" /\ ran' = ran \cup {f.tag}
      BY <2>1 DEF Serve
    <3> QED
      BY <3>1
  <2>2. CASE Dispatch(f)
    <3>1. /\ frames' \subseteq (frames \ {f}) \cup {[f EXCEPT !.at = "reply"]}
          /\ f.at = "handling" /\ ran' = ran
      BY <2>2 DEF Dispatch
    <3> QED
      BY <3>1
  <2> QED
    BY <2>1, <2>2
<1> DEFINE g == [f EXCEPT !.at = q]
<1>5. /\ g \in [conn : Conns, id : Nat, tag : Tags, at : {"sent", "handling", "reply"}]
      /\ g.conn = f.conn /\ g.id = f.id /\ g.tag = f.tag /\ g.at = q
  BY <1>3
<1> HIDE DEF g
<1>6. frames' \subseteq (frames \ {f}) \cup {g}
  BY <1>4 DEF g
<1>7. frames' \subseteq [conn : Conns, id : Nat, tag : Tags, at : {"sent", "handling", "reply"}]
  BY <1>0, <1>5, <1>6 DEF Kinds
<1>8. \A h \in frames' : \E e \in frames : h.conn = e.conn /\ h.id = e.id /\ h.tag = e.tag
  BY <1>5, <1>6
<1>9. ran \subseteq ran' /\ \A r \in ran' : r \in ran \/ \E e \in frames : r = e.tag
  BY <1>4
<1>10. \A h, e \in frames' : h.tag = e.tag => h = e
  BY <1>0, <1>5, <1>6 DEF Once
<1>11. \A h \in frames' : h.at = "sent" <=> h.tag \notin ran'
  <2>1. \A h \in frames : h # f => h.tag # f.tag
    BY <1>0 DEF Once
  <2>2. f.tag \in ran'
    BY <1>0, <1>4 DEF Once
  <2> QED
    BY <1>0, <1>4, <1>5, <1>6, <2>1, <2>2 DEF Once
<1>12. \A c \in Conns : conn[c].state \in {"open", "silent"} => conn'[c].state \in {"open", "silent"}
  BY <1>1
<1> QED
  BY <1>1, <1>2, <1>7, <1>8, <1>9, <1>10, <1>11, <1>12, FramesKeep

LEMMA ReceiveBadKeeps == ASSUME Inv, NEW f \in frames, ReceiveBad(f) PROVE Inv'
<1>0. Kinds /\ Once /\ ConnType
  BY DEF Inv, Kinds
<1>1. /\ frames' = frames \ {f} /\ UNCHANGED <<opened, pooled, pending, call, ran>>
      /\ conn' = [conn EXCEPT ![f.conn].state = "silent"]
  BY DEF ReceiveBad
<1>2. f.conn \in Conns
  BY Fields
<1>3. SameNumbers /\ \A d \in Conns : conn'[d].state = IF d = f.conn THEN "silent" ELSE conn[d].state
  BY <1>0, <1>1, <1>2, NewState DEF States
<1>4. frames' \subseteq [conn : Conns, id : Nat, tag : Tags, at : {"sent", "handling", "reply"}]
  BY <1>0, <1>1 DEF Kinds
<1> QED
  BY <1>0, <1>1, <1>3, <1>4, FramesKeep DEF Once

-----------------------------------------------------------------------------
(***************************************************************************)
(* The invariant.                                                          *)
(***************************************************************************)
LEMMA CallsInit == Init => Inv
<1> SUFFICES ASSUME Init PROVE Inv
  OBVIOUS
<1>1. /\ opened = 0 /\ pooled = None /\ pending = {} /\ frames = {} /\ ran = {}
      /\ conn = [c \in Conns |-> [state |-> "new", served |-> FALSE, next |-> 0, line |-> << >>]]
      /\ call = [t \in Callers |-> Idle]
  BY DEF Init
<1>2. MaxConns \in Nat /\ Limit \in [Callers -> Nat]
  BY RpcParametersAreValid DEF RpcParameters
<1>3. ConnType
  <2>1. conn \in [Conns -> [state : {"new", "open", "closed", "silent"}, served : BOOLEAN,
                          next : Nat, line : {<< >>}]]
    BY <1>1
  <2> QED
    BY <2>1 DEF ConnType
<1>4. Idle \in CallType /\ Idle.pc = "idle" /\ Idle.n = 0 /\ Idle.fut = Unresolved
  BY <1>2 DEF Idle, CallType, None
<1>5. \A t \in Callers : call[t].pc = "idle" /\ call[t].n = 0 /\ call[t].fut = Unresolved
  BY <1>1, <1>4
<1>6. Kinds
  BY <1>1, <1>2, <1>3, <1>4, <1>5 DEF Kinds, None
<1>7. Numbered /\ Once
  BY <1>1, <1>5 DEF Numbered, Once
<1>8. Answers
  <2>1. \A t \in Callers : Tag(t) # Unresolved
    <3>1. \A t \in Callers : Len(<<t, call[t].n>>) = 2 /\ Len(<< >>) = 0
      OBVIOUS
    <3> QED
      BY <3>1 DEF Tag, Unresolved
  <2> QED
    BY <1>5, <2>1 DEF Answers
<1>9. Entries /\ NobodyForgotten
  BY <1>1, <1>5 DEF Entries, NobodyForgotten, Live
<1> QED
  BY <1>6, <1>7, <1>8, <1>9 DEF Inv

LEMMA CallsStep == Inv /\ [Next]_vars => Inv'
<1> SUFFICES ASSUME Inv, [Next]_vars PROVE Inv'
  OBVIOUS
<1>0. Kinds /\ Once /\ ConnType
  BY DEF Inv, Kinds
<1>00. /\ MaxConns \in Nat /\ opened \in Nat /\ pooled \in Nat
       /\ opened <= MaxConns /\ pooled <= opened
  BY ConnRange
<1>1. ASSUME NEW t \in Callers, Begin(t) \/ CallerStep(t) \/ Cancel(t) PROVE Inv'
  BY <1>1, BeginKeeps, CallerKeeps
<1>2. ASSUME NEW f \in frames, Receive(f) \/ ReceiveBad(f) \/ Serve(f) \/ Dispatch(f) PROVE Inv'
  BY <1>2, ReceiveKeeps, ReceiveBadKeeps, ServeKeeps
<1>3. ASSUME NEW c \in Conns, ReceiveEnd(c) PROVE Inv'
  <2>1. /\ FailAll(c) /\ conn' = [conn EXCEPT ![c].state = "closed"] /\ frames' \subseteq frames
        /\ UNCHANGED <<opened, ran>> /\ pooled' \in 0 .. opened
    BY <1>00, <1>3 DEF ReceiveEnd
  <2> QED
    BY <2>1, CloseKeeps
<1>4. CASE PoolClose
  <2> DEFINE c == pooled
  <2>1. c \in Conns
    BY <1>00, <1>4 DEF PoolClose, CloseClient, Conns, None
  <2>2. /\ FailAll(c) /\ conn' = [conn EXCEPT ![c].state = "closed"] /\ frames' \subseteq frames
        /\ UNCHANGED <<opened, ran>> /\ pooled' \in 0 .. opened
    BY <1>00, <1>4 DEF PoolClose, CloseClient, None
  <2> HIDE DEF c
  <2> QED
    BY <2>1, <2>2, CloseKeeps
<1>5. ASSUME NEW c \in Conns, ServeEnd(c) PROVE Inv'
  <2>1. conn = [d \in Conns |-> conn[d]]
    BY <1>0 DEF ConnType
  <2>2. conn' = [d \in Conns |-> IF d \in {c} THEN [conn[d] EXCEPT !.served = FALSE] ELSE conn[d]]
    BY <1>5, <2>1 DEF ServeEnd
  <2>3. frames' \subseteq frames /\ UNCHANGED <<opened, pooled, pending, call, ran>>
    BY <1>5 DEF ServeEnd, Dropped
  <2> QED
    BY <2>2, <2>3, ServedChange
<1>6. CASE PeerStops
  <2>1. conn' = [d \in Conns |-> IF d \in Conns THEN [conn[d] EXCEPT !.served = FALSE] ELSE conn[d]]
    BY <1>6 DEF PeerStops
  <2>2. frames' \subseteq frames /\ UNCHANGED <<opened, pooled, pending, call, ran>>
    BY <1>6 DEF PeerStops, Dropped
  <2> QED
    BY <2>1, <2>2, ServedChange
<1>7. CASE PeerStarts \/ PeerStalls \/ UNCHANGED vars
  <2>1. UNCHANGED <<opened, pooled, conn, pending, frames, call, ran>>
    BY <1>7 DEF PeerStarts, PeerStalls, vars
  <2>2. SameNumbers /\ SameStates
    BY <1>0, <2>1, SameConn
  <2>3. frames' \subseteq [conn : Conns, id : Nat, tag : Tags, at : {"sent", "handling", "reply"}]
    BY <1>0, <2>1 DEF Kinds
  <2> QED
    BY <1>0, <2>1, <2>2, <2>3, FramesKeep DEF Once
<1> QED
  BY <1>1, <1>2, <1>3, <1>4, <1>5, <1>6, <1>7 DEF Next

LEMMA CallsInvariant == Spec => []Inv
  BY CallsInit, CallsStep, PTL DEF Spec

(***************************************************************************)
(* A call that has not been told its outcome has its entry in _pending and *)
(* a connection whose receive loop has not ended, but for an undecodable   *)
(* frame: no reply and no lost connection is missed.                       *)
(***************************************************************************)
THEOREM NobodyIsForgotten == Spec => []NobodyForgotten
<1>1. Inv => NobodyForgotten
  BY DEF Inv
<1> QED
  BY CallsInvariant, <1>1, PTL

(***************************************************************************)
(* A call that has ended leaves no entry in _pending, unless it was        *)
(* cancelled: there is one entry of a call, and it is the one it removes.  *)
(***************************************************************************)
THEOREM NothingIsLeft == Spec => []NothingLeftBehind
<1>1. Inv => NothingLeftBehind
  <2>1. Inv => Entries
    BY DEF Inv
  <2>2. Ends \cap Live = {}
    BY DEF Ends, Live
  <2> QED
    BY <2>1, <2>2 DEF Entries, NothingLeftBehind
<1> QED
  BY CallsInvariant, <1>1, PTL

-----------------------------------------------------------------------------
(***************************************************************************)
(* What a step does to the calls.                                          *)
(***************************************************************************)
\* The steps of a caller change its own call only.
LEMMA OwnCall ==
  ASSUME Inv, NEW t \in Callers, Begin(t) \/ CallerStep(t) \/ Cancel(t)
  PROVE  /\ \A u \in Callers : u # t => call'[u] = call[u]
         /\ call' \in [Callers -> CallType]
<1>1. call' = [call EXCEPT ![t] = call'[t]]
  <2>0. call \in [Callers -> CallType]
    BY DEF Inv, Kinds
  <2>1. \E r : call' = [call EXCEPT ![t] = r]
    BY DEF Begin, CallerStep, Cancel, Connected, ConnectFails, Write, Drained, WriteFails,
           Return, Timeout, End, Enter
  <2> QED
    BY <2>0, <2>1
<1>2. Inv'
  BY BeginKeeps, CallerKeeps
<1> QED
  BY <1>1, <1>2 DEF Inv, Kinds

(***************************************************************************)
(* A call is failed only with its own connection: the entries that are     *)
(* failed are those of the connection, and an entry is of one call.        *)
(***************************************************************************)
THEOREM CallsUndisturbed == Spec => Undisturbed
<1> DEFINE Calm ==
      \A t \in Callers :
        /\ call[t].pc \in {"queued", "draining", "waiting"}
        /\ call[t].fut = Unresolved
        /\ call'[t].fut = Lost /\ call'[t].pc \notin {"timed out", "cancelled"}
        => \/ Broken(call[t].conn)
           \/ pooled = call[t].conn /\ pooled' = None
<1>1. Inv /\ [Next]_vars => Calm \/ UNCHANGED vars
  <2> SUFFICES ASSUME Inv, Next, NEW t \in Callers,
                      call[t].pc \in {"queued", "draining", "waiting"}, call[t].fut = Unresolved,
                      call'[t].fut = Lost, call'[t].pc \notin {"timed out", "cancelled"}
               PROVE  Broken(call[t].conn) \/ (pooled = call[t].conn /\ pooled' = None)
    OBVIOUS
  <2>0. call \in [Callers -> CallType] /\ Entries /\ Lost # Unresolved /\ Tag(t) \in Tags
    BY CallFields, LostIsNoTag DEF Inv, Kinds
  <2>1. call'[t] # call[t]
    BY <2>0
  <2>2. ASSUME NEW u \in Callers, Begin(u) \/ CallerStep(u) \/ Cancel(u)
        PROVE  Broken(call[t].conn)
    <3>1. u = t
      BY <2>1, <2>2, OwnCall
    <3>2. ~Begin(t) /\ ~Connected(t) /\ ~ConnectFails(t) /\ ~Return(t)
      BY DEF Begin, Connected, ConnectFails, Return, Ends
    <3>3. ~Write(t) /\ ~Drained(t)
      <4>1. \A q : [call[t] EXCEPT !.pc = q].fut = Unresolved
        BY <2>0 DEF CallType
      <4>2. \A q : call' = [call EXCEPT ![t] = [call[t] EXCEPT !.pc = q]] => call'[t].fut = Unresolved
        BY <2>0, <4>1
      <4>3. \A q : call' # [call EXCEPT ![t] = [call[t] EXCEPT !.pc = q]]
        BY <2>0, <4>2
      <4>4. ~Write(t)
        BY <4>3 DEF Write
      <4>5. ~Drained(t)
        BY <4>3 DEF Drained
      <4> QED
        BY <4>4, <4>5
    <3>4. ~Timeout(t) /\ ~Cancel(t)
      <4>1. \A how : [Idle EXCEPT !.pc = how, !.n = call[t].n, !.fut = Lost].pc = how
        BY DEF Idle
      <4> QED
        BY <2>0, <4>1 DEF Timeout, Cancel, End
    <3>5. WriteFails(t)
      BY <2>2, <3>1, <3>2, <3>3, <3>4 DEF CallerStep
    <3> QED
      BY <3>5 DEF WriteFails
  <2>3. ASSUME NEW c \in Conns, FailAll(c) PROVE call[t].conn = c
    <3>1. PICK p \in pending : p.conn = c /\ p.tag = Tag(t)
      BY <2>1, <2>3 DEF FailAll
    <3>2. p = Entry(t)
      BY <2>0, <3>1 DEF Entries
    <3> QED
      BY <3>1, <3>2 DEF Entry
  <2>4. ASSUME NEW c \in Conns, ReceiveEnd(c) PROVE Broken(call[t].conn)
    BY <2>3, <2>4 DEF ReceiveEnd, Broken
  <2>5. CASE PoolClose
    <3>1. pooled \in Conns /\ pooled' = None /\ FailAll(pooled)
      <4>1. pooled # None /\ pooled' = None /\ FailAll(pooled)
        BY <2>5 DEF PoolClose, CloseClient
      <4>2. pooled \in Conns
        BY <4>1, ConnRange
      <4> QED
        BY <4>1, <4>2
    <3> QED
      BY <2>3, <3>1
  <2>6. ASSUME NEW f \in frames, Receive(f) PROVE FALSE
    <3>1. f.tag \in Tags
      BY Fields
    <3>2. call'[t] = call[t] \/ call'[t] = [call[t] EXCEPT !.fut = f.tag]
      BY <2>6 DEF Receive
    <3>3. call'[t].fut = f.tag
      BY <2>0, <2>1, <3>2 DEF CallType
    <3> QED
      BY <3>1, <3>3, LostIsNoTag
  <2>7. ~(\E f \in frames : ReceiveBad(f) \/ Serve(f) \/ Dispatch(f))
    BY <2>1 DEF ReceiveBad, Serve, Dispatch
  <2>8. ~(\E c \in Conns : ServeEnd(c)) /\ ~PeerStops /\ ~PeerStarts /\ ~PeerStalls
    BY <2>1 DEF ServeEnd, PeerStops, PeerStarts, PeerStalls
  <2> QED
    BY <2>2, <2>4, <2>5, <2>6, <2>7, <2>8 DEF Next
<1> QED
  BY CallsInvariant, <1>1, PTL DEF Spec, Undisturbed

-----------------------------------------------------------------------------
(***************************************************************************)
(* The refinement: what the variables of Calls are here.                   *)
(***************************************************************************)
Made == [t \in Callers |-> call[t].n]

CallStatus == [t \in Callers |-> Status(t)]

Held(t) == IF call[t].pc = "answered" THEN call[t].fut ELSE << >>

Answer == [t \in Callers |-> Held(t)]

\* A call with the same number, outcome and answer is the same call to Calls.
LEMMA Unseen ==
  ASSUME UNCHANGED ran,
         \A t \in Callers : call'[t].n = call[t].n /\ Status(t)' = Status(t) /\ Held(t)' = Held(t)
  PROVE  UNCHANGED Independent!vars
<1>1. Made' = Made /\ CallStatus' = CallStatus /\ Answer' = Answer
  BY DEF Made, CallStatus, Answer
<1> QED
  BY <1>1 DEF Independent!vars, Made, CallStatus, Answer, Held

\* One call changes.
LEMMA Seen ==
  ASSUME NEW t \in Callers, \A u \in Callers : u # t => call'[u] = call[u]
  PROVE  /\ Made' = [Made EXCEPT ![t] = call'[t].n]
         /\ CallStatus' = [CallStatus EXCEPT ![t] = Status(t)']
         /\ Answer' = [Answer EXCEPT ![t] = Held(t)']
<1>1. \A u \in Callers : u # t =>
        call'[u].n = call[u].n /\ Status(u)' = Status(u) /\ Held(u)' = Held(u)
  BY DEF Status, Held
<1> QED
  BY <1>1 DEF Made, CallStatus, Answer

LEMMA SeenBegin ==
  ASSUME NEW t \in Callers,
         CallStatus[t] # "calling", Made[t] < Limit[t], Made' = [Made EXCEPT ![t] = @ + 1],
         CallStatus' = [CallStatus EXCEPT ![t] = "calling"],
         Answer' = [Answer EXCEPT ![t] = << >>], UNCHANGED ran
  PROVE  Independent!Begin(t)
BY DEF Independent!Begin, Independent!NoCall, Made, CallStatus, Answer, Held

LEMMA SeenAnswer ==
  ASSUME NEW t \in Callers,
         CallStatus[t] = "calling", <<t, Made[t]>> \in ran, UNCHANGED <<Made, ran>>,
         CallStatus' = [CallStatus EXCEPT ![t] = "answered"],
         Answer' = [Answer EXCEPT ![t] = <<t, Made[t]>>]
  PROVE  Independent!Answer(t)
BY DEF Independent!Answer, Made, CallStatus, Answer, Held

LEMMA SeenFail ==
  ASSUME NEW t \in Callers,
         CallStatus[t] = "calling", UNCHANGED <<Made, ran, Answer>>,
         CallStatus' = [CallStatus EXCEPT ![t] = "failed"]
  PROVE  Independent!Fail(t)
BY DEF Independent!Fail, Made, CallStatus, Answer, Held

LEMMA SeenExecute ==
  ASSUME NEW t \in Callers, NEW n \in 1 .. Made[t],
         <<t, n>> \notin ran, ran' = ran \cup {<<t, n>>}, UNCHANGED <<Made, CallStatus, Answer>>
  PROVE  Independent!Execute(t, n)
BY DEF Independent!Execute, Made, CallStatus, Answer, Held

(***************************************************************************)
(* The refinement, step by step.                                           *)
(***************************************************************************)
LEMMA MapBegin == ASSUME Inv, NEW t \in Callers, Begin(t) PROVE Independent!Begin(t)
<1> DEFINE n == call[t].n + 1
<1>1. call[t].pc \in Ends \cup {"idle"} /\ n <= Limit[t] /\ UNCHANGED ran
  BY DEF Begin
<1>2. call'[t].n = n /\ call'[t].pc \in Inside
  <2>0. call \in [Callers -> CallType] /\ call[t].n \in Nat /\ n \in Nat
    BY CallFields DEF Inv, Kinds
  <2> HIDE DEF n
  <2>1. CASE Enter(t, n, pooled, conn[pooled])
    BY <2>0, <2>1 DEF Enter, Inside
  <2>2. CASE call' = [call EXCEPT ![t] = [Idle EXCEPT !.pc = "connecting", !.n = n]]
    <3>1. call'[t] = [pc |-> "connecting", n |-> n, conn |-> None, id |-> 0, fut |-> Unresolved]
      BY <2>0, <2>2, ConnectingRecord
    <3> QED
      BY <3>1 DEF Inside
  <2> QED
    BY <2>1, <2>2 DEF Begin, n
<1>3. Status(t) # "calling" /\ Status(t)' = "calling" /\ Held(t)' = << >>
  <2>1. call[t].pc \notin Inside
    BY <1>1 DEF Ends, Inside
  <2>2. call'[t].pc # "answered"
    BY <1>2 DEF Inside
  <2> QED
    BY <1>2, <2>1, <2>2 DEF Status, Held
<1>4. /\ Made' = [Made EXCEPT ![t] = n] /\ CallStatus' = [CallStatus EXCEPT ![t] = "calling"]
      /\ Answer' = [Answer EXCEPT ![t] = << >>]
  <2>1. \A u \in Callers : u # t => call'[u] = call[u]
    BY OwnCall
  <2> QED
    BY <1>2, <1>3, <2>1, Seen
<1>5. Made[t] = call[t].n /\ CallStatus[t] # "calling" /\ Made[t] < Limit[t]
  <2>1. call[t].n \in Nat /\ Limit[t] \in Nat
    BY CallFields, RpcParametersAreValid DEF RpcParameters
  <2> QED
    BY <1>1, <1>3, <2>1 DEF Made, CallStatus
<1>6. Made' = [Made EXCEPT ![t] = @ + 1]
  BY <1>4, <1>5
<1> QED
  BY <1>1, <1>4, <1>5, <1>6, SeenBegin

\* How a call ends is the failure or the answer of Calls.
LEMMA MapEnd ==
  ASSUME Inv, NEW t \in Callers, NEW how \in Ends, NEW value,
         call[t].pc \in Inside, End(t, how, value), UNCHANGED ran,
         how = "answered" => value = Tag(t) /\ Tag(t) \in ran
  PROVE  Independent!Answer(t) \/ Independent!Fail(t)
<1>1. call \in [Callers -> CallType]
  BY DEF Inv, Kinds
<1>2. /\ call'[t].pc = how /\ call'[t].n = call[t].n /\ call'[t].fut = value
      /\ \A u \in Callers : u # t => call'[u] = call[u]
  <2>1. call' = [call EXCEPT ![t] =
           [pc |-> how, n |-> call[t].n, conn |-> None, id |-> 0, fut |-> value]]
    BY EndRecord DEF End
  <2> QED
    BY <1>1, <2>1
<1>3. /\ Made' = [Made EXCEPT ![t] = call[t].n] /\ CallStatus' = [CallStatus EXCEPT ![t] = Status(t)']
      /\ Answer' = [Answer EXCEPT ![t] = Held(t)']
  BY <1>2, Seen
<1>4. Made[t] = call[t].n /\ CallStatus[t] = "calling" /\ Answer[t] = << >>
  BY DEF Made, CallStatus, Answer, Status, Held, Inside
<1>5. Made' = Made
  BY <1>3, <1>4 DEF Made
<1>6. CASE how = "answered"
  <2>1. Status(t)' = "answered" /\ Held(t)' = <<t, Made[t]>> /\ <<t, Made[t]>> \in ran
    BY <1>2, <1>4, <1>6 DEF Status, Held, Inside, Tag
  <2> QED
    BY <1>3, <1>4, <1>5, <2>1, SeenAnswer
<1>7. CASE how # "answered"
  <2>1. Status(t)' = "failed" /\ Held(t)' = << >>
    BY <1>2, <1>7 DEF Status, Held, Inside, Ends
  <2>2. Answer' = Answer
    BY <1>3, <1>4, <2>1 DEF Answer
  <2> QED
    BY <1>3, <1>4, <1>5, <2>1, <2>2, SeenFail
<1> QED
  BY <1>6, <1>7

LEMMA MapCaller ==
  ASSUME Inv, NEW t \in Callers, CallerStep(t) \/ Cancel(t)
  PROVE  Independent!Answer(t) \/ Independent!Fail(t) \/ UNCHANGED Independent!vars
<1>0. call \in [Callers -> CallType] /\ Answers
  BY DEF Inv, Kinds
<1>1. CASE ConnectFails(t) \/ WriteFails(t)
  <2>1. call[t].pc \in Inside /\ End(t, "lost", Lost) /\ UNCHANGED ran
    BY <1>1 DEF ConnectFails, WriteFails, Inside
  <2> QED
    BY <2>1, MapEnd DEF Ends
<1>2. CASE Timeout(t)
  <2>1. call[t].pc \in Inside /\ End(t, "timed out", Lost) /\ UNCHANGED ran
    BY <1>2 DEF Timeout, Inside
  <2> QED
    BY <2>1, MapEnd DEF Ends
<1>3. CASE Cancel(t)
  <2>1. call[t].pc \in Inside /\ End(t, "cancelled", Lost) /\ UNCHANGED ran
    BY <1>3 DEF Cancel
  <2> QED
    BY <2>1, MapEnd DEF Ends
<1>4. CASE Return(t)
  <2>1. /\ call[t].pc \in Inside /\ call[t].fut # Unresolved /\ UNCHANGED ran
        /\ End(t, IF call[t].fut = Lost THEN "lost" ELSE "answered", call[t].fut)
    BY <1>4 DEF Return, Inside
  <2>2. CASE call[t].fut = Lost
    <3>1. End(t, "lost", Lost)
      BY <2>1, <2>2
    <3> QED
      BY <2>1, <3>1, MapEnd DEF Ends
  <2>3. CASE call[t].fut # Lost
    <3>1. call[t].fut = Tag(t) /\ Tag(t) \in ran
      BY <1>0, <2>1, <2>3 DEF Answers
    <3>2. End(t, "answered", call[t].fut)
      BY <2>1, <2>3
    <3> QED
      BY <2>1, <3>1, <3>2, MapEnd DEF Ends
  <2> QED
    BY <2>2, <2>3
<1>5. CASE Connected(t) \/ Write(t) \/ Drained(t)
  <2>1. /\ call[t].pc \in Inside /\ call'[t].pc \in Inside /\ call'[t].n = call[t].n
        /\ UNCHANGED ran
    <3>1. CASE Connected(t)
      BY <1>0, <3>1 DEF Connected, Enter, Inside
    <3>2. CASE Write(t)
      <4>1. PICK q \in {"draining", "waiting"} : call' = [call EXCEPT ![t].pc = q]
        BY <3>2 DEF Write
      <4>2. call[t] \in CallType /\ call'[t] = [call[t] EXCEPT !.pc = q]
        BY <1>0, <4>1
      <4>3. call'[t].pc = q /\ call'[t].n = call[t].n
        BY <4>2 DEF CallType
      <4> QED
        BY <3>2, <4>3 DEF Write, Inside
    <3>3. CASE Drained(t)
      <4>1. call' = [call EXCEPT ![t].pc = "waiting"]
        BY <3>3 DEF Drained
      <4>2. call[t] \in CallType /\ call'[t] = [call[t] EXCEPT !.pc = "waiting"]
        BY <1>0, <4>1
      <4>3. call'[t].pc = "waiting" /\ call'[t].n = call[t].n
        BY <4>2 DEF CallType
      <4> QED
        BY <3>3, <4>3 DEF Drained, Inside
    <3> QED
      BY <1>5, <3>1, <3>2, <3>3
  <2>2. \A u \in Callers : u # t => call'[u] = call[u]
    BY OwnCall
  <2>3. \A u \in Callers : /\ call'[u].n = call[u].n
                         /\ Status(u)' = Status(u) /\ Held(u)' = Held(u)
    <3>1. Status(t)' = Status(t) /\ Held(t)' = Held(t)
      BY <2>1 DEF Status, Held, Inside
    <3> QED
      BY <2>1, <2>2, <3>1 DEF Status, Held
  <2> QED
    BY <2>1, <2>3, Unseen
<1> QED
  BY <1>1, <1>2, <1>3, <1>4, <1>5 DEF CallerStep

LEMMA MapNext == Inv /\ [Next]_vars => [Independent!Next]_Independent!vars
<1> SUFFICES ASSUME Inv, [Next]_vars PROVE Independent!Next \/ UNCHANGED Independent!vars
  OBVIOUS
<1>0. /\ Once /\ Numbered /\ Answers /\ Entries /\ call \in [Callers -> CallType]
  BY DEF Inv, Kinds
<1>1. ASSUME NEW t \in Callers, Begin(t) PROVE Independent!Next
  BY <1>1, MapBegin DEF Independent!Next
<1>2. ASSUME NEW t \in Callers, CallerStep(t) \/ Cancel(t)
      PROVE  Independent!Next \/ UNCHANGED Independent!vars
  BY <1>2, MapCaller DEF Independent!Next
<1>3. ASSUME NEW f \in frames, Serve(f) PROVE Independent!Next
  <2>1. f.at = "sent" /\ ran' = ran \cup {f.tag} /\ UNCHANGED call
    BY <1>3 DEF Serve
  <2>2. f.tag \notin ran /\ Begun(f.tag) /\ f.tag \in Tags
    BY <1>0, <2>1, Fields DEF Once, Numbered
  <2>3. PICK t \in Callers, n \in Nat \ {0} : f.tag = <<t, n>>
    BY <2>2 DEF Tags
  <2>4. n <= call[t].n /\ call[t].n \in Nat /\ Made[t] = call[t].n
    <3>1. call[t].n \in Nat
      BY CallFields
    <3>2. f.tag[1] = t /\ f.tag[2] = n
      BY <2>3
    <3> QED
      BY <2>2, <3>1, <3>2 DEF Begun, Made
  <2>5. n \in 1 .. Made[t]
    BY <2>4
  <2>6. UNCHANGED <<Made, CallStatus, Answer>>
    BY <2>1 DEF Made, CallStatus, Answer, Status, Held
  <2>7. Independent!Execute(t, n)
    BY <2>1, <2>2, <2>3, <2>5, <2>6, SeenExecute
  <2>8. n \in 1 .. Limit[t]
    <3>1. call[t].n <= Limit[t] /\ Limit[t] \in Nat
      BY CallFields, RpcParametersAreValid DEF RpcParameters
    <3> QED
      BY <2>4, <3>1
  <2> QED
    BY <2>7, <2>8 DEF Independent!Next
<1>4. ASSUME UNCHANGED ran,
             \A t \in Callers :
               \/ call'[t] = call[t]
               \/ /\ Tag(t) \in Tags /\ call[t].fut = Unresolved
                  /\ \E v : call'[t] = [call[t] EXCEPT !.fut = v]
      PROVE  UNCHANGED Independent!vars
  <2>1. ASSUME NEW t \in Callers, Tag(t) \in Tags, call[t].fut = Unresolved,
               NEW v, call'[t] = [call[t] EXCEPT !.fut = v]
        PROVE  call'[t].n = call[t].n /\ Status(t)' = Status(t) /\ Held(t)' = Held(t)
    <3>1. call'[t].n = call[t].n /\ call'[t].pc = call[t].pc
      BY <1>0, <2>1 DEF CallType
    <3>2. call[t].pc # "answered"
      BY <1>0, <2>1, LostIsNoTag DEF Answers
    <3> QED
      BY <3>1, <3>2 DEF Status, Held
  <2>2. ASSUME NEW t \in Callers, call'[t] = call[t]
        PROVE  call'[t].n = call[t].n /\ Status(t)' = Status(t) /\ Held(t)' = Held(t)
    BY <2>2 DEF Status, Held
  <2> QED
    BY <1>4, <2>1, <2>2, Unseen
<1>5. ASSUME NEW f \in frames, Receive(f) PROVE UNCHANGED Independent!vars
  <2>1. /\ UNCHANGED ran
        /\ \A t \in Callers :
             \/ call'[t] = call[t]
             \/ /\ call[t].fut = Unresolved /\ \E p \in pending : p.tag = Tag(t)
                /\ call'[t] = [call[t] EXCEPT !.fut = f.tag]
    BY <1>5 DEF Receive
  <2> QED
    BY <1>4, <2>1, Fields
<1>6. ASSUME NEW c, FailAll(c), UNCHANGED ran PROVE UNCHANGED Independent!vars
  <2>1. \A t \in Callers :
             \/ call'[t] = call[t]
             \/ /\ call[t].fut = Unresolved /\ \E p \in pending : p.tag = Tag(t)
                /\ call'[t] = [call[t] EXCEPT !.fut = Lost]
    BY <1>6 DEF FailAll
  <2> QED
    BY <1>4, <1>6, <2>1, Fields
<1>7. ASSUME UNCHANGED <<call, ran>> PROVE UNCHANGED Independent!vars
  BY <1>4, <1>7
<1>8. (\E c \in Conns : ReceiveEnd(c)) \/ PoolClose => UNCHANGED Independent!vars
  BY <1>6 DEF ReceiveEnd, PoolClose, CloseClient
<1>9. (\E f \in frames : ReceiveBad(f) \/ Dispatch(f)) => UNCHANGED <<call, ran>>
  BY DEF ReceiveBad, Dispatch
<1>10. (\E c \in Conns : ServeEnd(c)) \/ PeerStops \/ PeerStarts \/ PeerStalls \/ UNCHANGED vars
         => UNCHANGED <<call, ran>>
  BY DEF ServeEnd, PeerStops, PeerStarts, PeerStalls, vars
<1> QED
  BY <1>1, <1>2, <1>3, <1>5, <1>7, <1>8, <1>9, <1>10 DEF Next

(***************************************************************************)
(* The pool, its connections, request numbers and frames implement Calls:  *)
(* every call is executed at most once, is answered by its own result or   *)
(* fails, whatever is lost, late, cancelled or closed meanwhile.           *)
(***************************************************************************)
THEOREM PoolImplementsCalls == Spec => ImplementsCalls
<1>1. Init => Independent!Init
  <2> SUFFICES ASSUME Init PROVE Independent!Init
    OBVIOUS
  <2>1. ran = {} /\ \A t \in Callers : call[t].n = 0 /\ call[t].pc = "idle"
    BY DEF Init, Idle
  <2> QED
    BY <2>1 DEF Independent!Init, Independent!NoCall, Status, Inside
<1> QED
  BY <1>1, CallsInvariant, MapNext, PTL DEF Spec, ImplementsCalls, Independent!Spec

-----------------------------------------------------------------------------
(***************************************************************************)
(* The lock of a connection.  Its line holds each caller in a send once,   *)
(* so who leaves it leaves it for good, and the others keep their order.   *)
(***************************************************************************)
InLine(u, l) == \E i \in DOMAIN l : l[i] = u

Distinct(l) == \A i, j \in DOMAIN l : l[i] = l[j] => i = j

Heads(u, l) == l # << >> /\ Head(l) = u

LEMMA RemoveLine ==
  ASSUME NEW l \in Seq(Callers), Distinct(l), NEW t
  PROVE  LET r == RemoveFirst(l, t) IN
         /\ r \in Seq(Callers) /\ Distinct(r)
         /\ \A u : InLine(u, r) <=> InLine(u, l) /\ u # t
         /\ \A u : Heads(u, l) /\ u # t => Heads(u, r)
<1>1. Len(l) \in Nat /\ DOMAIN l = 1 .. Len(l) /\ \A i \in 1 .. Len(l) : l[i] \in Callers
  BY LenProperties
<1>2. CASE ~InLine(t, l)
  <2>1. RemoveFirst(l, t) = l
    BY <1>1, <1>2 DEF RemoveFirst, InLine
  <2> QED
    BY <1>2, <2>1 DEF InLine
<1>3. CASE InLine(t, l)
  <2>1. PICK i \in 1 .. Len(l) : l[i] = t
    BY <1>1, <1>3 DEF InLine
  <2>2. \A j \in 1 .. Len(l) : l[j] = t <=> j = i
    BY <1>1, <2>1 DEF Distinct
  <2> DEFINE before == SubSeq(l, 1, i - 1)
             after == SubSeq(l, i + 1, Len(l))
             r == before \o after
             first == SelectInSeq(l, LAMBDA v : v = t)
  <2>3. first = i
    <3>1. {j \in 1 .. Len(l) : l[j] = t} = {i}
      BY <2>2
    <3>2. Min({i}) = i
      BY DEF Min
    <3> QED
      BY <3>1, <3>2 DEF SelectInSeq
  <2>4. RemoveFirst(l, t) = r
    <3> HIDE DEF first
    <3>1. RemoveFirst(l, t) = RemoveAt(l, first)
      BY <2>1 DEF RemoveFirst, first
    <3> QED
      BY <2>3, <3>1 DEF RemoveAt
  <2>5. /\ before \in Seq(Callers) /\ Len(before) = i - 1
        /\ \A j \in 1 .. i - 1 : before[j] = l[j]
    <3>1. \A j \in 1 .. i - 1 : l[j] \in Callers
      BY <1>1
    <3> QED
      BY <1>1, <3>1, SubSeqProperties
  <2>6. /\ after \in Seq(Callers) /\ Len(after) = Len(l) - i
        /\ \A j \in 1 .. Len(l) - i : after[j] = l[i + j]
    <3>1. \A j \in i + 1 .. Len(l) : l[j] \in Callers
      BY <1>1
    <3>2. i + 1 \in Int /\ Len(l) \in Int
      BY <1>1
    <3>3. /\ after \in Seq(Callers)
          /\ Len(after) = IF i + 1 <= Len(l) THEN Len(l) - (i + 1) + 1 ELSE 0
          /\ \A j \in 1 .. Len(l) - (i + 1) + 1 : after[j] = l[i + 1 + j - 1]
      BY <3>1, <3>2, SubSeqProperties
    <3> HIDE DEF after
    <3>4. Len(after) = Len(l) - i /\ Len(l) - (i + 1) + 1 = Len(l) - i
      <4>1. Len(after) = IF i + 1 <= Len(l) THEN Len(l) - (i + 1) + 1 ELSE 0
        BY <3>3
      <4>2. Len(l) \in Nat /\ i \in Nat /\ i <= Len(l)
        BY <1>1
      <4> QED
        BY <4>1, <4>2
    <3>5. \A j \in 1 .. Len(l) - i : i + 1 + j - 1 = i + j
      BY <1>1
    <3>6. \A j \in 1 .. Len(l) - i : after[j] = l[i + j]
      BY <3>3, <3>4, <3>5
    <3> QED
      BY <3>3, <3>4, <3>6
  <2> HIDE DEF before, after, first
  <2>7. /\ r \in Seq(Callers) /\ Len(r) = Len(l) - 1 /\ DOMAIN r = 1 .. Len(l) - 1
        /\ \A j \in 1 .. Len(l) - 1 : r[j] = IF j < i THEN l[j] ELSE l[j + 1]
    <3>1. /\ r \in Seq(Callers) /\ Len(r) = Len(before) + Len(after)
          /\ \A j \in 1 .. Len(before) + Len(after) :
               r[j] = IF j <= Len(before) THEN before[j] ELSE after[j - Len(before)]
      BY <2>5, <2>6, ConcatProperties
    <3>2. Len(r) = Len(l) - 1
      BY <1>1, <2>5, <2>6, <3>1
    <3>3. DOMAIN r = 1 .. Len(l) - 1
      BY <3>1, <3>2, LenProperties
    <3>4. ASSUME NEW j \in 1 .. Len(l) - 1
          PROVE  r[j] = IF j < i THEN l[j] ELSE l[j + 1]
      <4> HIDE DEF r
      <4>1. r[j] = IF j <= i - 1 THEN before[j] ELSE after[j - (i - 1)]
        BY <1>1, <2>5, <2>6, <3>1
      <4>2. CASE j < i
        BY <1>1, <2>5, <4>1, <4>2
      <4>3. CASE ~(j < i)
        <5>1. j - (i - 1) \in 1 .. Len(l) - i /\ i + (j - (i - 1)) = j + 1
          BY <1>1, <4>3
        <5>2. after[j - (i - 1)] = l[j + 1]
          BY <2>6, <5>1
        <5> QED
          BY <4>1, <4>3, <5>2
      <4> QED
        BY <4>2, <4>3
    <3> QED
      BY <3>1, <3>2, <3>3, <3>4
  <2> HIDE DEF r
  <2>8. Distinct(r)
    <3> SUFFICES ASSUME NEW j \in 1 .. Len(l) - 1, NEW k \in 1 .. Len(l) - 1, r[j] = r[k]
                 PROVE  j = k
      BY <2>7 DEF Distinct
    <3> DEFINE at(m) == IF m < i THEN m ELSE m + 1
    <3>1. at(j) \in 1 .. Len(l) /\ at(k) \in 1 .. Len(l) /\ r[j] = l[at(j)] /\ r[k] = l[at(k)]
      BY <1>1, <2>7
    <3>2. at(j) = at(k) => j = k
      BY <1>1
    <3> HIDE DEF at
    <3> QED
      BY <1>1, <3>1, <3>2 DEF Distinct
  <2>9. ASSUME NEW u PROVE InLine(u, r) <=> InLine(u, l) /\ u # t
    <3>1. ASSUME InLine(u, r) PROVE InLine(u, l) /\ u # t
      <4>1. PICK j \in 1 .. Len(l) - 1 : r[j] = u
        BY <2>7, <3>1 DEF InLine
      <4>2. PICK k \in 1 .. Len(l) : k # i /\ l[k] = u
        BY <1>1, <2>7, <4>1
      <4> QED
        BY <1>1, <2>2, <4>2 DEF InLine
    <3>2. ASSUME InLine(u, l), u # t PROVE InLine(u, r)
      <4>1. PICK k \in 1 .. Len(l) : l[k] = u /\ k # i
        BY <1>1, <2>1, <3>2 DEF InLine
      <4>2. PICK j \in 1 .. Len(l) - 1 : r[j] = u
        <5>1. CASE k < i
          <6>1. k \in 1 .. Len(l) - 1
            BY <1>1, <5>1
          <6> QED
            BY <2>7, <4>1, <5>1, <6>1
        <5>2. CASE k > i
          <6>1. k - 1 \in 1 .. Len(l) - 1 /\ ~(k - 1 < i) /\ (k - 1) + 1 = k
            BY <1>1, <5>2
          <6> QED
            BY <2>7, <4>1, <6>1
        <5> QED
          BY <4>1, <5>1, <5>2
      <4> QED
        BY <2>7, <4>2 DEF InLine
    <3> QED
      BY <3>1, <3>2
  <2>10. ASSUME NEW u, Heads(u, l), u # t PROVE Heads(u, r)
    <3>1. Len(l) > 0 /\ l[1] = u
      BY <1>1, <2>1, <2>10 DEF Heads
    <3>2. 1 < i /\ 1 \in 1 .. Len(l) - 1
      BY <1>1, <2>1, <2>10, <3>1
    <3>3. Len(r) > 0 /\ r[1] = u
      BY <1>1, <2>7, <3>1, <3>2
    <3> QED
      BY <2>7, <3>3 DEF Heads
  <2> QED
    BY <2>4, <2>7, <2>8, <2>9, <2>10
<1> QED
  BY <1>2, <1>3

LEMMA AppendLine ==
  ASSUME NEW l \in Seq(Callers), Distinct(l), NEW t \in Callers, ~InLine(t, l)
  PROVE  LET r == Append(l, t) IN
         /\ r \in Seq(Callers) /\ Distinct(r)
         /\ \A u : InLine(u, r) <=> InLine(u, l) \/ u = t
         /\ \A u : Heads(u, l) => Heads(u, r)
         /\ l = << >> => Heads(t, r)
<1> DEFINE r == Append(l, t)
<1>1. Len(l) \in Nat /\ DOMAIN l = 1 .. Len(l) /\ \A i \in 1 .. Len(l) : l[i] \in Callers
  BY LenProperties
<1>2. /\ r \in Seq(Callers) /\ r # << >> /\ Len(r) = Len(l) + 1
      /\ \A i \in 1 .. Len(l) : r[i] = l[i]
      /\ r[Len(l) + 1] = t
  BY AppendProperties
<1>3. DOMAIN r = 1 .. Len(l) + 1
  BY <1>2, LenProperties
<1>4. Head(r) = IF l = << >> THEN t ELSE Head(l)
  BY HeadTailAppend
<1> HIDE DEF r
<1>5. \A i \in 1 .. Len(l) + 1 : i \in 1 .. Len(l) \/ i = Len(l) + 1
  BY <1>1
<1>6. \A i \in 1 .. Len(l) : i \in 1 .. Len(l) + 1 /\ l[i] # t
  BY <1>1 DEF InLine
<1>7. Len(l) + 1 \in 1 .. Len(l) + 1
  BY <1>1
<1>8. Distinct(r)
  BY <1>1, <1>2, <1>3, <1>5, <1>6 DEF Distinct
<1>9. \A u : InLine(u, r) <=> InLine(u, l) \/ u = t
  BY <1>1, <1>2, <1>3, <1>5, <1>6, <1>7 DEF InLine
<1>10. (\A u : Heads(u, l) => Heads(u, r)) /\ (l = << >> => Heads(t, r))
  BY <1>2, <1>4 DEF Heads
<1> QED
  BY <1>2, <1>8, <1>9, <1>10 DEF r

-----------------------------------------------------------------------------
(***************************************************************************)
(* The line of each connection, step by step.                              *)
(***************************************************************************)
ConnRecords == [state : States, served : BOOLEAN, next : Nat, line : Seq(Callers)]

Sending == {"queued", "draining"}

LineRight(c) ==
  /\ Distinct(conn[c].line)
  /\ \A u \in Callers :
       /\ InLine(u, conn[c].line) <=> call[u].pc \in Sending /\ call[u].conn = c
       /\ call[u].pc = "draining" /\ call[u].conn = c => Heads(u, conn[c].line)

Lines == conn \in [Conns -> ConnRecords] /\ \A c \in Conns : LineRight(c)

\* A step that changes neither a line nor who sends.
LEMMA LinesStay ==
  ASSUME Lines, conn' \in [Conns -> ConnRecords],
         \A c \in Conns : conn'[c].line = conn[c].line,
         \A u \in Callers :
           \/ call'[u].pc = call[u].pc /\ call'[u].conn = call[u].conn
           \/ call'[u].pc \notin Sending /\ call[u].pc \notin Sending
  PROVE  Lines'
BY DEF Lines, LineRight, Sending

LEMMA LinesReleased ==
  ASSUME Inv, Lines, NEW t \in Callers, call[t].pc \in Sending, Release(t),
         call'[t].pc \notin Sending, \A u \in Callers : u # t => call'[u] = call[u]
  PROVE  Lines'
<1>1. PICK c \in Conns : c = call[t].conn
  BY ConnRange DEF Sending, Live
<1> DEFINE l == conn[c].line
           r == RemoveFirst(l, t)
<1>2. l \in Seq(Callers) /\ Distinct(l)
  BY <1>1 DEF Lines, LineRight, ConnRecords
<1>3. /\ r \in Seq(Callers) /\ Distinct(r)
      /\ \A u : InLine(u, r) <=> InLine(u, l) /\ u # t
      /\ \A u : Heads(u, l) /\ u # t => Heads(u, r)
  BY <1>2, RemoveLine
<1>4. conn' = [conn EXCEPT ![c] = [conn[c] EXCEPT !.line = r]]
  BY <1>1 DEF Release
<1> HIDE DEF l, r
<1>5. conn' \in [Conns -> ConnRecords] /\ conn'[c].line = r
      /\ \A d \in Conns : d # c => conn'[d].line = conn[d].line
  BY <1>1, <1>3, <1>4 DEF Lines, ConnRecords
<1>6. LineRight(c)'
  <2>1. \A u \in Callers : /\ InLine(u, l) <=> call[u].pc \in Sending /\ call[u].conn = c
                           /\ call[u].pc = "draining" /\ call[u].conn = c => Heads(u, l)
    BY <1>1 DEF Lines, LineRight, l
  <2>2. \A u \in Callers :
          /\ InLine(u, r) <=> call'[u].pc \in Sending /\ call'[u].conn = c
          /\ call'[u].pc = "draining" /\ call'[u].conn = c => Heads(u, r)
    BY <1>1, <1>3, <2>1 DEF Sending
  <2> QED
    BY <1>3, <1>5, <2>2 DEF LineRight
<1>7. ASSUME NEW d \in Conns, d # c PROVE LineRight(d)'
  <2>1. LineRight(d) /\ conn'[d].line = conn[d].line
    BY <1>5, <1>7 DEF Lines
  <2>2. \A u \in Callers :
          /\ InLine(u, conn[d].line) <=> call'[u].pc \in Sending /\ call'[u].conn = d
          /\ call'[u].pc = "draining" /\ call'[u].conn = d => Heads(u, conn[d].line)
    BY <1>1, <1>7, <2>1 DEF LineRight, Sending
  <2> QED
    BY <2>1, <2>2 DEF LineRight
<1> QED
  BY <1>5, <1>6, <1>7 DEF Lines

LEMMA LinesEntered ==
  ASSUME Inv, Lines, NEW t \in Callers, NEW n \in Nat, NEW c \in Conns, NEW k \in ConnRecords,
         Enter(t, n, c, k), call[t].pc \notin Sending, Distinct(k.line),
         \A u \in Callers :
           /\ InLine(u, k.line) <=> call[u].pc \in Sending /\ call[u].conn = c
           /\ call[u].pc = "draining" /\ call[u].conn = c => Heads(u, k.line)
  PROVE  Lines'
<1> DEFINE alone == k.line = << >>
           wait == alone /\ k.served /\ Unread(c) >= HighWater
           pc1 == IF wait THEN "draining" ELSE IF alone THEN "waiting" ELSE "queued"
           more == Append(k.line, t)
           line1 == IF alone /\ ~wait THEN << >> ELSE more
           mine == [pc |-> pc1, n |-> n, conn |-> c, id |-> k.next, fut |-> Unresolved]
           k1 == [k EXCEPT !.next = k.next + 1, !.line = line1]
<1>1. conn' = [conn EXCEPT ![c] = k1] /\ call' = [call EXCEPT ![t] = mine]
  BY DEF Enter, NextId
<1>2. mine.pc = pc1 /\ mine.conn = c
  OBVIOUS
<1>3. k.line \in Seq(Callers) /\ ~InLine(t, k.line)
  BY DEF ConnRecords
<1>4. /\ more \in Seq(Callers) /\ Distinct(more)
      /\ \A u : InLine(u, more) <=> InLine(u, k.line) \/ u = t
      /\ \A u : Heads(u, k.line) => Heads(u, more)
      /\ k.line = << >> => Heads(t, more)
  BY <1>3, AppendLine
<1>5. call \in [Callers -> CallType]
  BY DEF Inv, Kinds
<1> HIDE DEF mine, more
<1>6. call'[t].pc = pc1 /\ call'[t].conn = c /\ \A u \in Callers : u # t => call'[u] = call[u]
  BY <1>1, <1>2, <1>5
<1>7. /\ pc1 \in Sending <=> ~(alone /\ ~wait)
      /\ pc1 = "draining" => alone
      /\ line1 = IF alone /\ ~wait THEN k.line ELSE more
  BY DEF Sending
<1> HIDE DEF wait, pc1, line1
<1>8. k1 \in ConnRecords /\ k1.line = line1
  <2>1. line1 \in Seq(Callers)
    BY <1>3, <1>4, <1>7
  <2>2. k \in ConnRecords /\ k.next + 1 \in Nat
    BY DEF ConnRecords
  <2> DEFINE next1 == k.next + 1
  <2>3. k1 = [k EXCEPT !.next = next1, !.line = line1] /\ next1 \in Nat
    BY <2>2
  <2> HIDE DEF k1, next1
  <2> QED
    BY <2>1, <2>2, <2>3 DEF ConnRecords
<1> HIDE DEF k1
<1>9. conn' \in [Conns -> ConnRecords] /\ conn'[c].line = line1
      /\ \A d \in Conns : d # c => conn'[d].line = conn[d].line
  BY <1>1, <1>8 DEF Lines
<1>10. LineRight(c)'
  <2>1. Distinct(line1)
    BY <1>4, <1>7
  <2>2. \A u \in Callers :
          /\ InLine(u, line1) <=> call'[u].pc \in Sending /\ call'[u].conn = c
          /\ call'[u].pc = "draining" /\ call'[u].conn = c => Heads(u, line1)
    <3>1. CASE alone /\ ~wait
      BY <1>3, <1>6, <1>7, <3>1 DEF Sending
    <3>2. CASE ~(alone /\ ~wait)
      BY <1>4, <1>6, <1>7, <3>2
    <3> QED
      BY <3>1, <3>2
  <2> QED
    BY <1>9, <2>1, <2>2 DEF LineRight
<1>11. ASSUME NEW d \in Conns, d # c PROVE LineRight(d)'
  <2>1. LineRight(d) /\ conn'[d].line = conn[d].line
    BY <1>9, <1>11 DEF Lines
  <2>2. \A u \in Callers :
          /\ InLine(u, conn[d].line) <=> call'[u].pc \in Sending /\ call'[u].conn = d
          /\ call'[u].pc = "draining" /\ call'[u].conn = d => Heads(u, conn[d].line)
    BY <1>6, <1>11, <2>1 DEF LineRight, Sending
  <2> QED
    BY <2>1, <2>2 DEF LineRight
<1> QED
  BY <1>9, <1>10, <1>11 DEF Lines

LEMMA LinesBegin ==
  ASSUME Inv, Lines, NEW t \in Callers, Begin(t) \/ Connected(t)
  PROVE  Lines'
<1>1. call \in [Callers -> CallType] /\ call[t].n \in Nat
  BY CallFields DEF Inv, Kinds
<1>2. call[t].pc \notin Sending
  BY DEF Begin, Connected, Ends, Sending
<1>3. CASE Begin(t) /\ pooled # None /\ Enter(t, call[t].n + 1, pooled, conn[pooled])
  <2>1. pooled \in Conns
    BY <1>3, ConnRange
  <2>2. conn[pooled] \in ConnRecords /\ LineRight(pooled)
    BY <2>1 DEF Lines
  <2> DEFINE n == call[t].n + 1
             k == conn[pooled]
  <2>3. n \in Nat /\ Enter(t, n, pooled, k)
    BY <1>1, <1>3
  <2>4. k \in ConnRecords /\ Distinct(k.line)
        /\ \A u \in Callers :
             /\ InLine(u, k.line) <=> call[u].pc \in Sending /\ call[u].conn = pooled
             /\ call[u].pc = "draining" /\ call[u].conn = pooled => Heads(u, k.line)
    BY <2>2 DEF LineRight
  <2> HIDE DEF n, k
  <2> QED
    BY <1>2, <2>1, <2>3, <2>4, LinesEntered
<1>4. CASE Begin(t) /\ UNCHANGED conn
           /\ call' = [call EXCEPT ![t] = [Idle EXCEPT !.pc = "connecting", !.n = call[t].n + 1]]
  <2>1. call'[t].pc = "connecting" /\ \A u \in Callers : u # t => call'[u] = call[u]
    BY <1>1, <1>4, ConnectingRecord
  <2>2. conn' \in [Conns -> ConnRecords]
    BY <1>4 DEF Lines
  <2>3. \A u \in Callers :
           \/ call'[u].pc = call[u].pc /\ call'[u].conn = call[u].conn
           \/ call'[u].pc \notin Sending /\ call[u].pc \notin Sending
    BY <1>2, <2>1 DEF Sending
  <2> QED
    BY <1>4, <2>2, <2>3, LinesStay
<1>5. CASE Connected(t)
  <2> DEFINE c == opened + 1
             k == [state |-> "open", served |-> TRUE, next |-> 0, line |-> << >>]
             n == call[t].n
  <2>1. Enter(t, n, c, k) /\ opened < MaxConns
    BY <1>5 DEF Connected
  <2>2. c \in Conns
    BY <2>1, ConnRange DEF Conns
  <2>3. k \in ConnRecords /\ k.line = << >>
    BY DEF ConnRecords, States
  <2>4. Distinct(<< >>) /\ \A u : ~InLine(u, << >>)
    BY DEF Distinct, InLine
  <2>5. \A u \in Callers : call[u].pc \in Sending => call[u].conn # c
    <3>1. \A u \in Callers : call[u].pc \in Sending => call[u].conn \in 1 .. opened
      BY DEF Inv, Entries, Sending, Live
    <3> QED
      BY <3>1, ConnRange
  <2>6. n \in Nat
    BY <1>1
  <2>7. /\ Distinct(k.line)
        /\ \A u \in Callers :
             /\ InLine(u, k.line) <=> call[u].pc \in Sending /\ call[u].conn = c
             /\ call[u].pc = "draining" /\ call[u].conn = c => Heads(u, k.line)
    BY <2>3, <2>4, <2>5 DEF Sending
  <2> HIDE DEF c, k, n
  <2> QED
    BY <1>2, <2>1, <2>2, <2>3, <2>6, <2>7, LinesEntered
<1> QED
  BY <1>3, <1>4, <1>5 DEF Begin

LEMMA LinesCaller ==
  ASSUME Inv, Lines, NEW t \in Callers, CallerStep(t) \/ Cancel(t)
  PROVE  Lines'
<1>0. call \in [Callers -> CallType] /\ conn \in [Conns -> ConnRecords]
  BY DEF Inv, Kinds, Lines
<1>1. ASSUME NEW how \in Ends, NEW value, End(t, how, value)
      PROVE  call'[t].pc \notin Sending /\ \A u \in Callers : u # t => call'[u] = call[u]
  <2>1. call' = [call EXCEPT ![t] =
           [pc |-> how, n |-> call[t].n, conn |-> None, id |-> 0, fut |-> value]]
    BY <1>1, EndRecord DEF End
  <2>2. call'[t].pc = how
    BY <1>0, <2>1
  <2> QED
    BY <1>0, <2>1, <2>2 DEF Ends, Sending
<1>2. ASSUME call[t].pc \notin Sending, call'[t].pc \notin Sending, UNCHANGED conn,
             \A u \in Callers : u # t => call'[u] = call[u]
      PROVE  Lines'
  BY <1>0, <1>2, LinesStay
<1>3. CASE ConnectFails(t) \/ Timeout(t)
  <2>1. PICK how \in Ends : End(t, how, Lost)
    BY <1>3 DEF ConnectFails, Timeout, Ends
  <2>2. call[t].pc \notin Sending /\ UNCHANGED conn
    BY <1>3 DEF ConnectFails, Timeout, Sending
  <2> QED
    BY <1>1, <1>2, <2>1, <2>2
<1>4. CASE Return(t)
  <2>1. PICK how \in Ends : End(t, how, call[t].fut)
    BY <1>4 DEF Return, Ends
  <2>2. call[t].pc \notin Sending /\ UNCHANGED conn
    BY <1>4 DEF Return, Sending
  <2> QED
    BY <1>1, <1>2, <2>1, <2>2
<1>5. CASE WriteFails(t)
  <2>1. call[t].pc \in Sending /\ Release(t) /\ End(t, "lost", Lost) /\ "lost" \in Ends
    BY <1>5 DEF WriteFails, Sending, Ends
  <2> QED
    BY <1>1, <2>1, LinesReleased
<1>6. CASE Cancel(t)
  <2>1. End(t, "cancelled", Lost) /\ "cancelled" \in Ends
        /\ IF call[t].pc \in Sending THEN Release(t) ELSE UNCHANGED conn
    BY <1>6 DEF Cancel, Sending, Ends
  <2> QED
    BY <1>1, <1>2, <2>1, LinesReleased
<1>7. CASE Drained(t)
  <2>1. call[t].pc \in Sending /\ Release(t) /\ call' = [call EXCEPT ![t].pc = "waiting"]
    BY <1>7 DEF Drained, Sending
  <2>2. call'[t].pc \notin Sending /\ \A u \in Callers : u # t => call'[u] = call[u]
    <3>1. call'[t] = [call[t] EXCEPT !.pc = "waiting"] /\ call[t] \in CallType
      BY <1>0, <2>1
    <3>2. call'[t].pc = "waiting"
      BY <3>1 DEF CallType
    <3> QED
      BY <1>0, <2>1, <3>2 DEF Sending
  <2> QED
    BY <2>1, <2>2, LinesReleased
<1>8. CASE Write(t)
  <2>1. call[t].pc = "queued" /\ HoldsLock(t)
        /\ \/ call' = [call EXCEPT ![t].pc = "draining"] /\ UNCHANGED conn
           \/ call' = [call EXCEPT ![t].pc = "waiting"] /\ Release(t)
    BY <1>8 DEF Write
  <2>2. ASSUME NEW q \in {"draining", "waiting"}, call' = [call EXCEPT ![t].pc = q]
        PROVE  /\ call'[t].pc = q /\ call'[t].conn = call[t].conn
               /\ \A u \in Callers : u # t => call'[u] = call[u]
    <3>1. call'[t] = [call[t] EXCEPT !.pc = q] /\ call[t] \in CallType
      BY <1>0, <2>2
    <3>2. call'[t].pc = q /\ call'[t].conn = call[t].conn
      BY <3>1 DEF CallType
    <3> QED
      BY <1>0, <2>2, <3>2
  <2>3. CASE call' = [call EXCEPT ![t].pc = "waiting"] /\ Release(t)
    <3>1. call'[t].pc \notin Sending /\ \A u \in Callers : u # t => call'[u] = call[u]
      BY <2>2, <2>3 DEF Sending
    <3> QED
      BY <2>1, <2>3, <3>1, LinesReleased DEF Sending
  <2>4. CASE call' = [call EXCEPT ![t].pc = "draining"] /\ UNCHANGED conn
    <3>1. /\ call'[t].pc = "draining" /\ call'[t].conn = call[t].conn
          /\ \A u \in Callers : u # t => call'[u] = call[u]
      BY <2>2, <2>4
    <3>2. Heads(t, conn[call[t].conn].line)
      BY <2>1 DEF HoldsLock, Heads
    <3>3. ASSUME NEW c \in Conns PROVE LineRight(c)'
      <4>1. LineRight(c)
        BY DEF Lines
      <4>2. \A u \in Callers :
              /\ InLine(u, conn[c].line) <=> call'[u].pc \in Sending /\ call'[u].conn = c
              /\ call'[u].pc = "draining" /\ call'[u].conn = c => Heads(u, conn[c].line)
        BY <2>1, <3>1, <3>2, <4>1 DEF LineRight, Sending
      <4> QED
        BY <2>4, <4>1, <4>2 DEF LineRight
    <3> QED
      BY <1>0, <2>4, <3>3 DEF Lines
  <2> QED
    BY <2>1, <2>3, <2>4
<1>9. CASE Connected(t)
  BY <1>9, LinesBegin
<1> QED
  BY <1>3, <1>4, <1>5, <1>6, <1>7, <1>8, <1>9 DEF CallerStep

\* The receive loop, the pool and the peer leave the lines alone.
LEMMA LinesElsewhere ==
  ASSUME Inv, Lines,
         \/ \E f \in frames : Receive(f) \/ ReceiveBad(f) \/ Serve(f) \/ Dispatch(f)
         \/ \E c \in Conns : ReceiveEnd(c) \/ ServeEnd(c)
         \/ PoolClose \/ PeerStops \/ PeerStarts \/ PeerStalls \/ UNCHANGED vars
  PROVE  Lines'
<1>0. call \in [Callers -> CallType] /\ conn \in [Conns -> ConnRecords]
  BY DEF Inv, Kinds, Lines
<1>1. \A u \in Callers : call'[u].pc = call[u].pc /\ call'[u].conn = call[u].conn
  <2>1. ASSUME NEW c, FailAll(c)
        PROVE  \A u \in Callers : call'[u].pc = call[u].pc /\ call'[u].conn = call[u].conn
    <3>1. \A u \in Callers : call'[u] \in {call[u], [call[u] EXCEPT !.fut = Lost]}
      BY <2>1 DEF FailAll
    <3> QED
      BY <1>0, <3>1 DEF CallType
  <2>2. ASSUME NEW f \in frames, Receive(f)
        PROVE  \A u \in Callers : call'[u].pc = call[u].pc /\ call'[u].conn = call[u].conn
    <3>1. \A u \in Callers : call'[u] \in {call[u], [call[u] EXCEPT !.fut = f.tag]}
      BY <2>2 DEF Receive
    <3> QED
      BY <1>0, <3>1 DEF CallType
  <2>3. ASSUME UNCHANGED call
        PROVE  \A u \in Callers : call'[u].pc = call[u].pc /\ call'[u].conn = call[u].conn
    BY <2>3
  <2>4. \/ UNCHANGED call \/ (\E c : FailAll(c)) \/ \E f \in frames : Receive(f)
    BY DEF ReceiveBad, Serve, Dispatch, ReceiveEnd, ServeEnd, PoolClose, CloseClient,
           PeerStops, PeerStarts, PeerStalls, vars
  <2> QED
    BY <2>1, <2>2, <2>3, <2>4
<1>2. conn' \in [Conns -> ConnRecords] /\ \A c \in Conns : conn'[c].line = conn[c].line
  <2>1. ASSUME NEW c \in Conns, NEW s \in States, conn' = [conn EXCEPT ![c].state = s]
        PROVE  conn' \in [Conns -> ConnRecords] /\ \A d \in Conns : conn'[d].line = conn[d].line
    BY <1>0, <2>1 DEF ConnRecords
  <2>2. ASSUME NEW c \in Conns, conn' = [conn EXCEPT ![c].served = FALSE]
        PROVE  conn' \in [Conns -> ConnRecords] /\ \A d \in Conns : conn'[d].line = conn[d].line
    BY <1>0, <2>2 DEF ConnRecords
  <2>3. CASE PeerStops
    <3>1. \A c \in Conns : /\ [conn[c] EXCEPT !.served = FALSE] \in ConnRecords
                           /\ [conn[c] EXCEPT !.served = FALSE].line = conn[c].line
      BY <1>0 DEF ConnRecords
    <3>2. conn' = [c \in Conns |-> [conn[c] EXCEPT !.served = FALSE]]
      BY <2>3 DEF PeerStops
    <3> QED
      BY <3>1, <3>2
  <2>4. ASSUME NEW f \in frames, ReceiveBad(f)
        PROVE  f.conn \in Conns /\ conn' = [conn EXCEPT ![f.conn].state = "silent"]
               /\ "silent" \in States
    BY <2>4, Fields DEF ReceiveBad, States
  <2>5. ASSUME NEW c \in Conns, ReceiveEnd(c)
        PROVE  conn' = [conn EXCEPT ![c].state = "closed"] /\ "closed" \in States
    BY <2>5 DEF ReceiveEnd, States
  <2>6. CASE PoolClose
    <3>1. pooled \in Conns /\ conn' = [conn EXCEPT ![pooled].state = "closed"]
          /\ "closed" \in States
      BY <2>6, ConnRange DEF PoolClose, CloseClient, States
    <3> QED
      BY <2>1, <3>1
  <2>7. CASE \E c \in Conns : ServeEnd(c)
    BY <2>2, <2>7 DEF ServeEnd
  <2>8. CASE UNCHANGED conn
    BY <1>0, <2>8
  <2>9. (\E f \in frames : Receive(f) \/ Serve(f) \/ Dispatch(f)) \/ PeerStarts \/ PeerStalls
          \/ UNCHANGED vars => UNCHANGED conn
    BY DEF Receive, Serve, Dispatch, PeerStarts, PeerStalls, vars
  <2> QED
    BY <2>1, <2>3, <2>4, <2>5, <2>6, <2>7, <2>8, <2>9
<1> QED
  BY <1>1, <1>2, LinesStay

LEMMA LinesInductive == Inv /\ Lines /\ [Next]_vars => Lines'
<1> SUFFICES ASSUME Inv, Lines, [Next]_vars PROVE Lines'
  OBVIOUS
<1>1. ASSUME NEW t \in Callers, Begin(t) PROVE Lines'
  BY <1>1, LinesBegin
<1>2. ASSUME NEW t \in Callers, CallerStep(t) \/ Cancel(t) PROVE Lines'
  BY <1>2, LinesCaller
<1>3. CASE \/ \E f \in frames : Receive(f) \/ ReceiveBad(f) \/ Serve(f) \/ Dispatch(f)
           \/ \E c \in Conns : ReceiveEnd(c) \/ ServeEnd(c)
           \/ PoolClose \/ PeerStops \/ PeerStarts \/ PeerStalls \/ UNCHANGED vars
  BY <1>3, LinesElsewhere
<1> QED
  BY <1>1, <1>2, <1>3 DEF Next

PeerType == up \in BOOLEAN /\ stalled \in BOOLEAN

LEMMA PeerInductive == PeerType /\ [Next]_vars => PeerType'
<1> SUFFICES ASSUME up \in BOOLEAN, stalled \in BOOLEAN, [Next]_vars
             PROVE  up' \in BOOLEAN /\ stalled' \in BOOLEAN
  BY DEF PeerType
<1>1. ASSUME NEW t \in Callers, Begin(t) \/ CallerStep(t) \/ Cancel(t) PROVE UNCHANGED peerVars
  BY <1>1 DEF Begin, CallerStep, Cancel, Connected, ConnectFails, Write, Drained, WriteFails,
              Return, Timeout
<1>2. ASSUME NEW f \in frames, Receive(f) \/ ReceiveBad(f) \/ Serve(f) \/ Dispatch(f)
      PROVE  UNCHANGED peerVars
  BY <1>2 DEF Receive, ReceiveBad, Serve, Dispatch
<1>3. ASSUME NEW c \in Conns, ReceiveEnd(c) \/ ServeEnd(c) PROVE UNCHANGED peerVars
  BY <1>3 DEF ReceiveEnd, ServeEnd
<1>4. PoolClose \/ UNCHANGED vars => UNCHANGED peerVars
  BY DEF PoolClose, CloseClient, vars, peerVars
<1>5. UNCHANGED peerVars => up' \in BOOLEAN /\ stalled' \in BOOLEAN
  BY DEF peerVars
<1>6. PeerStops \/ PeerStarts => up' \in BOOLEAN /\ stalled' \in BOOLEAN
  BY DEF PeerStops, PeerStarts
<1>7. PeerStalls => up' \in BOOLEAN /\ stalled' \in BOOLEAN
  BY DEF PeerStalls
<1> QED
  BY <1>1, <1>2, <1>3, <1>4, <1>5, <1>6, <1>7 DEF Next

\* Every variable has its type, the line for the lock of a connection holds
\* exactly the callers in a send on it, and who waits for its drain heads it:
\* a call that fails or is cancelled in its send leaves the lock to the next.
THEOREM TypesCorrect == Spec => []TypeOK
<1>1. Init => Lines /\ PeerType
  <2> SUFFICES ASSUME Init PROVE Lines /\ up \in BOOLEAN /\ stalled \in BOOLEAN
    BY DEF PeerType
  <2> DEFINE k == [state |-> "new", served |-> FALSE, next |-> 0, line |-> << >>]
  <2>1. k \in ConnRecords /\ k.line = << >>
    BY DEF ConnRecords, States
  <2>2. Distinct(<< >>) /\ \A u : ~InLine(u, << >>)
    BY DEF Distinct, InLine
  <2>3. conn = [c \in Conns |-> k] /\ up \in BOOLEAN /\ stalled \in BOOLEAN
    BY DEF Init
  <2>4. \A u \in Callers : call[u].pc \notin Sending
    BY DEF Init, Idle, Sending
  <2> HIDE DEF k
  <2>5. \A c \in Conns : conn[c].line = << >>
    BY <2>1, <2>3
  <2>6. \A c \in Conns : LineRight(c)
    BY <2>2, <2>4, <2>5 DEF LineRight, Sending
  <2> QED
    BY <2>1, <2>3, <2>6 DEF Lines
<1>2. Inv /\ Lines /\ PeerType => TypeOK
  <2> SUFFICES ASSUME Inv, Lines, up \in BOOLEAN, stalled \in BOOLEAN PROVE TypeOK
    BY DEF PeerType
  <2>1. \A t \in Callers, c \in Conns :
          (\E i \in DOMAIN conn[c].line : conn[c].line[i] = t)
            <=> call[t].pc \in {"queued", "draining"} /\ call[t].conn = c
    BY DEF Lines, LineRight, InLine, Sending
  <2>2. ASSUME NEW t \in Callers, call[t].pc = "draining" PROVE HoldsLock(t)
    <3>1. call[t].conn \in Conns
      BY <2>2, ConnRange DEF Live
    <3> QED
      BY <2>2, <3>1 DEF Lines, LineRight, Heads, HoldsLock
  <2>3. /\ opened \in 0 .. MaxConns /\ pooled \in 0 .. opened
        /\ pending \subseteq [conn : Conns, id : Nat, tag : Tags]
        /\ frames \subseteq [conn : Conns, id : Nat, tag : Tags, at : {"sent", "handling", "reply"}]
        /\ call \in [Callers -> CallType] /\ ran \subseteq Tags
    BY DEF Inv, Kinds
  <2>4. conn \in [Conns -> ConnRecords]
    BY DEF Lines
  <2> QED
    BY <2>1, <2>2, <2>3, <2>4 DEF TypeOK, ConnRecords, States, CallType
<1> QED
  BY <1>1, <1>2, CallsInvariant, LinesInductive, PeerInductive, PTL DEF Spec

=============================================================================
