---------------------------- MODULE LocalBackend ----------------------------
(***************************************************************************)
(* What a backend promises a Policy: LocalBackend of                       *)
(* dvlm/dreamer/client.py, the reference, everything in one process and    *)
(* nothing fails.  One acting session, and imaginations that fork it, run  *)
(* ahead of it and are forgotten.  A latent state, and the features        *)
(* computed from it, are told by the operations that led to it.            *)
(***************************************************************************)
EXTENDS Naturals, Sequences

CONSTANT Params   \* the parameters of an operation, its seed included

VARIABLES
  acting,   \* states[sid] of the policy's session
  dreams,   \* the states of its forks: none, or the one being imagined
  feat      \* the features the last operation returned

vars == <<acting, dreams, feat>>

Init == acting = << >> /\ dreams = {} /\ feat = << >>

Observe(n) ==
  /\ dreams = {}
  /\ acting' = Append(acting, [method |-> "observe", n |-> n])
  /\ feat' = acting'
  /\ UNCHANGED dreams

Fork ==
  /\ dreams = {}
  /\ dreams' = {acting}
  /\ UNCHANGED <<acting, feat>>

Imagine(n) ==
  \E state \in dreams :
    /\ feat' = Append(state, [method |-> "imagine", n |-> n])
    /\ dreams' = {feat'}
    /\ UNCHANGED acting

Close ==
  /\ dreams' = {}
  /\ UNCHANGED <<acting, feat>>

Next == (\E n \in Params : Observe(n) \/ Imagine(n)) \/ Fork \/ Close

Spec == Init /\ [][Next]_vars

=============================================================================
