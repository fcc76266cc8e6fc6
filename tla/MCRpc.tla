-------------------------------- MODULE MCRpc --------------------------------
(***************************************************************************)
(* A few callers over a few connections for TLC.                           *)
(***************************************************************************)
EXTENDS Rpc, TLC

CONSTANTS t1, t2  \* callers

\* t1 calls again after its first call has ended.
TwiceAndOnce == (t1 :> 2) @@ (t2 :> 1)

=============================================================================
