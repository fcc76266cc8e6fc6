------------------------------ MODULE MCDreamer ------------------------------
(***************************************************************************)
(* Small swarms of rssm servers for TLC.                                   *)
(***************************************************************************)
EXTENDS DreamerInvariant

CONSTANTS h1, h2, h3   \* addresses

=============================================================================
