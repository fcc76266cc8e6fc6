-------------------------------- MODULE Rpc --------------------------------
(***************************************************************************)
(* dvlm/rpc.py: the tasks of one process call one address through its      *)
(* ConnectionPool.  Calls are multiplexed: an RpcClient numbers its        *)
(* requests, keeps a future per number, writes under a lock and has a task *)
(* that receives the replies; an RpcServer runs a task per request.  On    *)
(* either side one event loop runs everything: an action lasts from await  *)
(* to await.                                                               *)
(***************************************************************************)
EXTENDS Integers, SequencesExt

CONSTANTS
  Callers,    \* tasks of the client process
  Limit,      \* Limit[t] : how many calls t makes
  MaxConns,   \* connections that can be opened
  HighWater,  \* unread frames a connection takes before a write has to wait
  BadFrames,  \* connections on which a reply may be undecodable
  Stalls,     \* whether the peer may stop reading, for a while or for ever
  Cancels,    \* callers that may be cancelled
  Closes      \* whether the pool may be closed under its callers

RpcParameters ==
  /\ Limit \in [Callers -> Nat]
  /\ {MaxConns, HighWater} \subseteq Nat /\ BadFrames \subseteq 1 .. MaxConns
  /\ Cancels \subseteq Callers /\ {Stalls, Closes} \subseteq BOOLEAN

ASSUME RpcParametersAreValid == RpcParameters

VARIABLES
  up,       \* whether a process listens at the address
  stalled,  \* whether it is not reading now
  opened,   \* how many connections have been opened
  pooled,   \* the connection in the pool's dict, or None
  conn,     \* conn[c] : the RpcClient of c and the server's end of it
  pending,  \* the entries of the clients' _pending dicts
  frames,   \* requests and replies under way, and requests being handled
  call,     \* call[t] : the call t is making, or has made last
  ran       \* the calls whose handler has been started

peerVars == <<up, stalled>>
vars == <<up, stalled, opened, pooled, conn, pending, frames, call, ran>>

None == 0
Conns == 1 .. MaxConns
Tags == Callers \X (Nat \ {0})

Unresolved == << >>
Lost == <<"lost">>

\* How a call ends.  "cancelled" raises in the caller, the others return to it.
Ends == {"answered", "lost", "timed out", "cancelled"}
Inside == {"connecting", "queued", "draining", "waiting"}

Frame(c, id, tag) == [conn |-> c, id |-> id, tag |-> tag, at |-> "sent"]

Unread(c) == Cardinality({f \in frames : f.conn = c /\ f.at = "sent"})

Tag(t) == <<t, call[t].n>>

Entry(t) == [conn |-> call[t].conn, id |-> call[t].id, tag |-> Tag(t)]

-----------------------------------------------------------------------------
(***************************************************************************)
(* RpcClient.call.  The lock belongs to the head of conn[c].line; who      *)
(* finds the line empty writes at once.                                    *)
(***************************************************************************)
NumberPending(k, c) ==           \* mutant: an id is free again once its entry is
  Cardinality({p \in pending : p.conn = c})

NextId(k, c) == k.next

Written(c, f) == IF conn[c].served THEN frames \cup {f} ELSE frames

Full(c) == conn[c].served /\ Unread(c) >= HighWater

\* From `if self.closed' on; k is the state of the client object of c.
Enter(t, n, c, k) ==
  LET id == NextId(k, c)
      alone == k.line = << >>
      wait == alone /\ k.served /\ Unread(c) >= HighWater
  IN
  /\ pending' = pending \cup {[conn |-> c, id |-> id, tag |-> <<t, n>>]}
  /\ frames' = IF alone /\ k.served THEN frames \cup {Frame(c, id, <<t, n>>)} ELSE frames
  /\ conn' = [conn EXCEPT ![c] =
       [k EXCEPT !.next = k.next + 1,
                 !.line = IF alone /\ ~wait THEN << >> ELSE Append(k.line, t)]]
  /\ call' = [call EXCEPT ![t] =
       [pc |-> IF wait THEN "draining" ELSE IF alone THEN "waiting" ELSE "queued",
        n |-> n, conn |-> c, id |-> id, fut |-> Unresolved]]

\* call[t] goes on without the lock.
Release(t) ==
  conn' = [conn EXCEPT ![call[t].conn].line = RemoveFirst(@, t)]

Idle == [pc |-> "idle", n |-> 0, conn |-> None, id |-> 0, fut |-> Unresolved]

\* What is left of a call that has returned or raised.
End(t, how, value) ==
  call' = [call EXCEPT ![t] = [Idle EXCEPT !.pc = how, !.n = call[t].n, !.fut = value]]

HoldsLock(t) == conn[call[t].conn].line # << >> /\ Head(conn[call[t].conn].line) = t

\* The lock is free: the frame is written.  A closed transport may still take it.
Write(t) ==
  LET c == call[t].conn  f == Frame(c, call[t].id, Tag(t)) IN
  /\ call[t].pc = "queued" /\ HoldsLock(t)
  /\ \/ frames' = Written(c, f)
     \/ conn[c].state # "open" /\ UNCHANGED frames
  /\ IF Full(c)
     THEN call' = [call EXCEPT ![t].pc = "draining"] /\ UNCHANGED conn
     ELSE call' = [call EXCEPT ![t].pc = "waiting"] /\ Release(t)
  /\ UNCHANGED <<peerVars, opened, pooled, pending, ran>>

Drained(t) ==
  /\ call[t].pc = "draining"
  /\ Unread(call[t].conn) <= HighWater
  /\ call' = [call EXCEPT ![t].pc = "waiting"]
  /\ Release(t)
  /\ UNCHANGED <<peerVars, opened, pooled, pending, frames, ran>>

Broken(c) == conn[c].state # "open" \/ ~conn[c].served

KeepsLock(t) ==                  \* mutant: the lock is not released
  /\ call[t].pc \in {"queued", "draining"} /\ HoldsLock(t)
  /\ Broken(call[t].conn)
  /\ End(t, "lost", Lost)
  /\ pending' = pending \ {Entry(t)}
  /\ UNCHANGED <<peerVars, opened, pooled, conn, frames, ran>>

WriteFails(t) ==
  /\ call[t].pc \in {"queued", "draining"} /\ HoldsLock(t)
  /\ Broken(call[t].conn)
  /\ End(t, "lost", Lost)
  /\ pending' = pending \ {Entry(t)}
  /\ Release(t)
  /\ UNCHANGED <<peerVars, opened, pooled, frames, ran>>

\* wait_for returns what the receive loop has put into the future.
Return(t) ==
  /\ call[t].pc = "waiting" /\ call[t].fut # Unresolved
  /\ End(t, IF call[t].fut = Lost THEN "lost" ELSE "answered", call[t].fut)
  /\ pending' = pending \ {Entry(t)}
  /\ UNCHANGED <<peerVars, opened, pooled, conn, frames, ran>>

KeepsEntry(t) ==                 \* mutant: no finally
  /\ call[t].pc = "waiting" /\ call[t].fut = Unresolved
  /\ End(t, "timed out", Lost)
  /\ UNCHANGED <<peerVars, opened, pooled, conn, pending, frames, ran>>

Timeout(t) ==
  /\ call[t].pc = "waiting" /\ call[t].fut = Unresolved
  /\ End(t, "timed out", Lost)
  /\ pending' = pending \ {Entry(t)}
  /\ UNCHANGED <<peerVars, opened, pooled, conn, frames, ran>>

\* Only a wait for the reply is inside the try that pops the entry.
Cancel(t) ==
  /\ t \in Cancels /\ call[t].pc \in Inside
  /\ End(t, "cancelled", Lost)
  /\ IF call[t].pc = "waiting" THEN pending' = pending \ {Entry(t)} ELSE UNCHANGED pending
  /\ IF call[t].pc \in {"queued", "draining"} THEN Release(t) ELSE UNCHANGED conn
  /\ UNCHANGED <<peerVars, opened, pooled, frames, ran>>

-----------------------------------------------------------------------------
(***************************************************************************)
(* RpcClient._recv_loop and close().                                       *)
(***************************************************************************)
FailNobody(c) ==                 \* mutant: the loop ends and tells nobody
  UNCHANGED <<pending, call>>

FailEverybody(c) ==              \* mutant: one table of futures for all connections
  /\ call' = [t \in Callers |->
       IF call[t].pc \in Inside /\ call[t].fut = Unresolved
       THEN [call[t] EXCEPT !.fut = Lost]
       ELSE call[t]]
  /\ pending' = {}

FailAll(c) ==
  /\ call' = [t \in Callers |->
       IF \E p \in pending : p.conn = c /\ p.tag = Tag(t) /\ call[t].fut = Unresolved
       THEN [call[t] EXCEPT !.fut = Lost]
       ELSE call[t]]
  /\ pending' = {p \in pending : p.conn # c}

\* A reply to a call that has ended finds no entry and is dropped.
Receive(f) ==
  LET found == {p \in pending : p.conn = f.conn /\ p.id = f.id} IN
  /\ f.at = "reply" /\ conn[f.conn].state = "open"
  /\ frames' = frames \ {f}
  /\ pending' = pending \ found
  /\ call' = [t \in Callers |->
       IF \E p \in found : p.tag = Tag(t) /\ call[t].fut = Unresolved
       THEN [call[t] EXCEPT !.fut = f.tag]
       ELSE call[t]]
  /\ UNCHANGED <<peerVars, opened, pooled, conn, ran>>

\* read_frame raises something else than a connection error: the loop ends
\* and closes the writer, and the calls that wait are not told.
ReceiveBad(f) ==
  /\ f.conn \in BadFrames
  /\ f.at = "reply" /\ conn[f.conn].state = "open"
  /\ frames' = frames \ {f}
  /\ conn' = [conn EXCEPT ![f.conn].state = "silent"]
  /\ UNCHANGED <<peerVars, opened, pooled, pending, call, ran>>

ReceiveEnd(c) ==
  /\ conn[c].state = "open" /\ ~conn[c].served
  /\ FailAll(c)
  /\ conn' = [conn EXCEPT ![c].state = "closed"]
  /\ frames' = {f \in frames : f.conn # c}
  /\ UNCHANGED <<peerVars, opened, pooled, ran>>

-----------------------------------------------------------------------------
(***************************************************************************)
(* ConnectionPool.  get() awaits the connection between the look into the  *)
(* dict and the assignment to it.                                          *)
(***************************************************************************)
Begin(t) ==
  LET n == call[t].n + 1 IN
  /\ call[t].pc \in Ends \cup {"idle"}
  /\ n <= Limit[t]
  /\ \/ /\ pooled # None /\ conn[pooled].state = "open"
        /\ Enter(t, n, pooled, conn[pooled])
     \/ /\ pooled # None => Broken(pooled)
        /\ call' = [call EXCEPT ![t] =
             [Idle EXCEPT !.pc = "connecting", !.n = n]]
        /\ UNCHANGED <<conn, pending, frames>>
  /\ UNCHANGED <<peerVars, opened, pooled, ran>>

Connected(t) ==
  LET c == opened + 1 IN
  /\ call[t].pc = "connecting"
  /\ up /\ opened < MaxConns
  /\ opened' = c
  /\ pooled' = c
  /\ Enter(t, call[t].n, c, [state |-> "open", served |-> TRUE, next |-> 0, line |-> << >>])
  /\ UNCHANGED <<peerVars, ran>>

ConnectFails(t) ==
  /\ call[t].pc = "connecting"
  /\ End(t, "lost", Lost)
  /\ UNCHANGED <<peerVars, opened, pooled, conn, pending, frames, ran>>

CloseClient(c) ==
  /\ conn' = [conn EXCEPT ![c].state = "closed"]
  /\ FailAll(c)

PoolClose ==
  /\ Closes /\ pooled # None
  /\ CloseClient(pooled)
  /\ pooled' = None
  /\ UNCHANGED <<peerVars, opened, frames, ran>>

-----------------------------------------------------------------------------
(***************************************************************************)
(* RpcServer.  A request is read and its task created; the task replies    *)
(* with a result or with the handler's error.  When the connection ends,   *)
(* its tasks are cancelled.                                                *)
(***************************************************************************)
Serve(f) ==
  /\ f.at = "sent" /\ up /\ ~stalled
  /\ frames' = (frames \ {f}) \cup {[f EXCEPT !.at = "handling"]}
  /\ ran' = ran \cup {f.tag}
  /\ UNCHANGED <<peerVars, opened, pooled, conn, pending, call>>

Dispatch(f) ==
  /\ f.at = "handling" /\ up /\ ~stalled
  /\ frames' = (frames \ {f}) \cup
       (IF conn[f.conn].state = "open" THEN {[f EXCEPT !.at = "reply"]} ELSE {})
  /\ UNCHANGED <<peerVars, opened, pooled, conn, pending, call, ran>>

\* What is left of the frames of the connections C once the server is out of them.
Dropped(C) == {f \in frames : f.conn \in C => f.at = "reply" /\ conn[f.conn].state = "open"}

\* The client has closed, the network broke, or a request was undecodable.
ServeEnd(c) ==
  /\ c <= opened /\ conn[c].served
  /\ conn' = [conn EXCEPT ![c].served = FALSE]
  /\ frames' = Dropped({c})
  /\ UNCHANGED <<peerVars, opened, pooled, pending, call, ran>>

PeerStops ==
  /\ up
  /\ up' = FALSE
  /\ stalled' = FALSE
  /\ conn' = [c \in Conns |-> [conn[c] EXCEPT !.served = FALSE]]
  /\ frames' = Dropped(Conns)
  /\ UNCHANGED <<opened, pooled, pending, call, ran>>

PeerStarts ==
  /\ ~up
  /\ up' = TRUE
  /\ UNCHANGED <<stalled, opened, pooled, conn, pending, frames, call, ran>>

PeerStalls ==
  /\ Stalls /\ up
  /\ stalled' = ~stalled
  /\ UNCHANGED <<up, opened, pooled, conn, pending, frames, call, ran>>

-----------------------------------------------------------------------------
Init ==
  /\ up = TRUE /\ stalled = FALSE
  /\ opened = 0 /\ pooled = None
  /\ conn = [c \in Conns |->
       [state |-> "new", served |-> FALSE, next |-> 0, line |-> << >>]]
  /\ pending = {} /\ frames = {} /\ ran = {}
  /\ call = [t \in Callers |-> Idle]

CallerStep(t) ==
  \/ Connected(t) \/ ConnectFails(t)
  \/ Write(t) \/ Drained(t) \/ WriteFails(t) \/ Return(t) \/ Timeout(t)

Next ==
  \/ \E t \in Callers : Begin(t) \/ CallerStep(t) \/ Cancel(t)
  \/ \E f \in frames : Receive(f) \/ ReceiveBad(f) \/ Serve(f) \/ Dispatch(f)
  \/ \E c \in Conns : ReceiveEnd(c) \/ ServeEnd(c)
  \/ PoolClose \/ PeerStops \/ PeerStarts \/ PeerStalls

Spec == Init /\ [][Next]_vars

(***************************************************************************)
(* Both event loops run what is ready, and a timer fires.  Nothing is      *)
(* assumed of handlers, replies, or the network.                           *)
(***************************************************************************)
FairSpec ==
  /\ Spec
  /\ \A t \in Callers : WF_vars(CallerStep(t))
  /\ WF_vars(\E f \in frames : Serve(f))

-----------------------------------------------------------------------------
(***************************************************************************)
(* Types.  The line for a lock holds exactly the callers that are in a     *)
(* send on that connection, and who waits for its drain heads it.          *)
(***************************************************************************)
TypeOK ==
  /\ up \in BOOLEAN /\ stalled \in BOOLEAN
  /\ opened \in 0 .. MaxConns /\ pooled \in 0 .. opened
  /\ conn \in [Conns -> [state : {"new", "open", "closed", "silent"}, served : BOOLEAN,
                         next : Nat, line : Seq(Callers)]]
  /\ pending \subseteq [conn : Conns, id : Nat, tag : Tags]
  /\ frames \subseteq [conn : Conns, id : Nat, tag : Tags,
                       at : {"sent", "handling", "reply"}]
  /\ call \in [Callers -> [pc : Ends \cup Inside \cup {"idle"}, n : Nat,
                           conn : 0 .. MaxConns, id : Nat,
                           fut : {Unresolved, Lost} \cup Tags]]
  /\ ran \subseteq Tags
  /\ \A t \in Callers, c \in Conns :
       (\E i \in DOMAIN conn[c].line : conn[c].line[i] = t)
         <=> call[t].pc \in {"queued", "draining"} /\ call[t].conn = c
  /\ \A t \in Callers : call[t].pc = "draining" => HoldsLock(t)

(***************************************************************************)
(* A call that has not been told its outcome still has its entry, and a    *)
(* receive loop that will answer it or fail it; only an undecodable frame  *)
(* leaves calls to their timeouts (_recv_loop, _fail_all, close).          *)
(***************************************************************************)
NobodyForgotten ==
  \A t \in Callers :
    call[t].pc \in {"queued", "draining", "waiting"} /\ call[t].fut = Unresolved =>
      /\ Entry(t) \in pending
      /\ conn[call[t].conn].state \in {"open", "silent"}

(***************************************************************************)
(* A call that has ended leaves no entry behind, unless it was cancelled   *)
(* while it was sending.                                                   *)
(***************************************************************************)
NothingLeftBehind ==
  \A t \in Callers :
    call[t].pc \in Ends \ {"cancelled"} => \A p \in pending : p.tag # Tag(t)

(***************************************************************************)
(* A call is failed only by what happened to its own connection: not by    *)
(* another call's timeout, cancellation or lost connection.                *)
(***************************************************************************)
Undisturbed ==
  [][\A t \in Callers :
       /\ call[t].pc \in {"queued", "draining", "waiting"}
       /\ call[t].fut = Unresolved
       /\ call'[t].fut = Lost /\ call'[t].pc \notin {"timed out", "cancelled"}
       => \/ Broken(call[t].conn)
          \/ pooled = call[t].conn /\ pooled' = None]_vars

(***************************************************************************)
(* What a caller sees of all this is a call of its own: executed at most   *)
(* once, answered by its own result, whatever numbers, connections and     *)
(* late replies are in between.                                            *)
(***************************************************************************)
Status(t) ==
  IF call[t].pc \in Inside THEN "calling"
  ELSE IF call[t].pc \in {"idle", "answered"} THEN call[t].pc
  ELSE "failed"

Independent == INSTANCE Calls WITH
  made <- [t \in Callers |-> call[t].n],
  status <- [t \in Callers |-> Status(t)],
  answer <- [t \in Callers |-> IF call[t].pc = "answered" THEN call[t].fut ELSE << >>]

ImplementsCalls == Independent!Spec

(***************************************************************************)
(* Every call ends, by its timeout if by nothing else.  What the timeout   *)
(* does not cover is the send (call: wait_for is only around the future):  *)
(* a call hangs for ever if it never gets past the lock and the drain      *)
(* because the peer stops reading again and again, or for good, and for    *)
(* nothing else.                                                           *)
(***************************************************************************)
HeldUp(t) == call[t].pc \in {"queued", "draining"}

CallsEnd ==
  \A t \in Callers :
    \/ call[t].pc \in Inside ~> call[t].pc \in Ends
    \/ <>[]HeldUp(t) /\ []<>stalled

(***************************************************************************)
(* "One persistent connection per peer address" (ConnectionPool).          *)
(***************************************************************************)
OneConnection == Cardinality({c \in Conns : conn[c].state = "open"}) <= 1

=============================================================================
