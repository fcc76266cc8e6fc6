---------------------------- MODULE MCMembership ----------------------------
(***************************************************************************)
(* Small swarms of servers that come and go for TLC.                       *)
(***************************************************************************)
EXTENDS Membership, TLC

CONSTANTS p1, p2  \* servers

\* A fast server with a short span and a slow one with a longer span.
Lengths == (p1 :> 1) @@ (p2 :> 2)
Speeds == (p1 :> 2) @@ (p2 :> 1)

=============================================================================
