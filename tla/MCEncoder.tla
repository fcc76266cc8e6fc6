------------------------------ MODULE MCEncoder ------------------------------
(***************************************************************************)
(* Small encoder pools and caches for TLC.                                 *)
(***************************************************************************)
EXTENDS EncoderCache

CONSTANTS i1, i2, i3,  \* images
          e1, e2, e3,  \* encoders
          r1, r2       \* concurrent requests

\* Three frames for two encoders: an uneven split.
ThreeFrames == {<<i1, i2, i3>>}

=============================================================================
