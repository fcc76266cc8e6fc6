------------------------------ MODULE MCSession ------------------------------
(***************************************************************************)
(* Small swarms for TLC.                                                   *)
(***************************************************************************)
EXTENDS SessionInvariant, TLC

CONSTANTS h1, h2, h3, h4   \* addresses

Span(start, end) == [start |-> start, end |-> end]

(***************************************************************************)
(* Three layers.  h1 and h4 serve them all, h2 and h3 overlap on the middle *)
(* one, so a chain of both enters h3 midway, and a recovery of h2's layers *)
(* or of h3's caps the span of h1 or h4.                                   *)
(***************************************************************************)
Overlapping ==
  (h1 :> Span(0, 3)) @@ (h2 :> Span(0, 2)) @@ (h3 :> Span(1, 3)) @@ (h4 :> Span(0, 3))

\* Two servers of the whole decoder, h2 of the first half, h3 of the second.
Halves ==
  (h1 :> Span(0, 2)) @@ (h2 :> Span(0, 1)) @@ (h3 :> Span(1, 2)) @@ (h4 :> Span(0, 2))

Unloaded == [addr \in Addrs |-> 0]

\* One server shared with other clients.
LoadedH1 == [addr \in Addrs |-> IF addr = h1 THEN 1 ELSE 0]

=============================================================================
