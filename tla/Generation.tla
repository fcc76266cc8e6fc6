----------------------------- MODULE Generation -----------------------------
(***************************************************************************)
(* What a generation over the swarm promises its caller, with no servers,  *)
(* no routes and no failures in it: the decoder of one process             *)
(* (docs/DESIGN.md, D11).  The caller submits the prompt, then one token   *)
(* at a time; each submission is answered by the unsharded model's output  *)
(* over exactly the positions submitted, or the generation fails; and a    *)
(* generation ends.                                                        *)
(***************************************************************************)
EXTENDS Activations

CONSTANTS
  PromptLen,   \* tokens of the prompt
  MaxSteps     \* max_new_tokens

VARIABLES
  phase,       \* "idle", "computing" or "ended"
  outcome,     \* "running", "ok" or "failed"
  submitted,   \* positions submitted so far
  answer       \* the last output returned

vars == <<phase, outcome, submitted, answer>>

Init ==
  /\ phase = "idle" /\ outcome = "running"
  /\ submitted = 0 /\ answer = Empty(NumLayers)

Submit ==
  LET n == IF submitted = 0 THEN PromptLen ELSE 1 IN
  /\ phase = "idle"
  /\ submitted + n < PromptLen + MaxSteps
  /\ phase' = "computing"
  /\ submitted' = submitted + n
  /\ UNCHANGED <<outcome, answer>>

Answer ==
  /\ phase = "computing"
  /\ phase' = "idle"
  /\ answer' = Block(NumLayers, answer.hi, submitted)
  /\ UNCHANGED <<outcome, submitted>>

End ==
  /\ \/ phase = "idle" /\ outcome' = "ok"
     \/ phase = "computing" /\ outcome' = "failed"
  /\ phase' = "ended"
  /\ UNCHANGED <<submitted, answer>>

Next == Submit \/ Answer \/ End

Spec == Init /\ [][Next]_vars

Fairness == WF_vars(Next)

=============================================================================
