----------------------------- MODULE MCFindRoute -----------------------------
(***************************************************************************)
(* All small swarms of up to three listed servers for TLC.                 *)
(***************************************************************************)
EXTENDS FindRoute, TLC

CONSTANTS s1, s2, s3  \* servers

\* Any span of the decoder, on a near and slow or on a far and fast server.
AnyOffer ==
  {o \in [start : 0 .. NumLayers - 1, end : 1 .. NumLayers,
          throughput : {1, 2}, rtt : {2, 7}] :
     o.start < o.end /\ (o.throughput = 1 <=> o.rtt = 2)}

AnyOrder == Permutations(Servers)

=============================================================================
