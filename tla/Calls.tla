------------------------------- MODULE Calls -------------------------------
(***************************************************************************)
(* What a call over the pool promises its caller, with no connections,     *)
(* frames or request ids in it: the peer executes a call at most once, if  *)
(* need be after its caller has given up; a caller is answered with the    *)
(* result of its own call or fails, and a call that fails may nevertheless *)
(* have been executed.                                                     *)
(***************************************************************************)
EXTENDS Naturals

CONSTANTS
  Callers,   \* concurrent callers
  Limit      \* Limit[t] : how many calls t makes, one after the other

VARIABLES
  made,      \* made[t] : how many calls t has begun
  status,    \* status[t] : "idle", "calling", "answered" or "failed"
  ran,       \* the calls that the peer has executed
  answer     \* answer[t] : the call whose result t holds

vars == <<made, status, ran, answer>>

NoCall == << >>

Init ==
  /\ made = [t \in Callers |-> 0]
  /\ status = [t \in Callers |-> "idle"]
  /\ ran = {}
  /\ answer = [t \in Callers |-> NoCall]

Begin(t) ==
  /\ status[t] # "calling"
  /\ made[t] < Limit[t]
  /\ made' = [made EXCEPT ![t] = @ + 1]
  /\ status' = [status EXCEPT ![t] = "calling"]
  /\ answer' = [answer EXCEPT ![t] = NoCall]
  /\ UNCHANGED ran

Execute(t, n) ==
  /\ n \in 1 .. made[t]
  /\ <<t, n>> \notin ran
  /\ ran' = ran \cup {<<t, n>>}
  /\ UNCHANGED <<made, status, answer>>

Answer(t) ==
  /\ status[t] = "calling"
  /\ <<t, made[t]>> \in ran
  /\ status' = [status EXCEPT ![t] = "answered"]
  /\ answer' = [answer EXCEPT ![t] = <<t, made[t]>>]
  /\ UNCHANGED <<made, ran>>

Fail(t) ==
  /\ status[t] = "calling"
  /\ status' = [status EXCEPT ![t] = "failed"]
  /\ UNCHANGED <<made, ran, answer>>

Next ==
  \E t \in Callers :
    \/ Begin(t) \/ Answer(t) \/ Fail(t)
    \/ \E n \in 1 .. Limit[t] : Execute(t, n)

Spec == Init /\ [][Next]_vars

=============================================================================
