---------------------------- MODULE Activations ----------------------------
(***************************************************************************)
(* What the tensors of one generation carry, as far as correctness can     *)
(* tell them apart.  A tensor [1, n, H] that travels between the client    *)
(* and a span server is a block of n consecutive positions, entering       *)
(* decoder layer `layer': the positions lo .. hi-1 that its position_ids   *)
(* name, and whether every value in it is the one the unsharded model      *)
(* computes (ok).  A KV cache is the block of everything it absorbed.      *)
(***************************************************************************)
EXTENDS Naturals

CONSTANT NumLayers    \* adapter.num_layers, the length of the decoder

ASSUME LayersAssumption == NumLayers \in Nat \ {0}

Layers == 0 .. NumLayers - 1       \* a hop enters at one of these
Boundaries == 0 .. NumLayers       \* and leaves at one of these

Blocks ==
  {x \in [layer : Boundaries, lo : Nat, hi : Nat, ok : BOOLEAN] : x.lo <= x.hi}

Block(layer, lo, hi) == [layer |-> layer, lo |-> lo, hi |-> hi, ok |-> TRUE]

\* DecoderSpan.new_cache, or a history nobody appended to.
Empty(layer) == Block(layer, 0, 0)

Width(x) == x.hi - x.lo

(***************************************************************************)
(* Two blocks one after the other (torch.cat of a history, or a cache      *)
(* absorbing the keys and values of x).  The result is only the true       *)
(* prefix when x continues exactly where c stops, at the same layer.       *)
(***************************************************************************)
Cat(c, x) ==
  [layer |-> c.layer, lo |-> c.lo, hi |-> c.hi + Width(x),
   ok |-> c.ok /\ x.ok /\ x.layer = c.layer /\ x.lo = c.hi]

(***************************************************************************)
(* DecoderSpan.forward: run the layers up to `end' over x with cache c and *)
(* a causal mask of past + n columns.  Attention sees the right keys only  *)
(* if the cache holds exactly the positions before x and `past' says so.   *)
(***************************************************************************)
Forwarded(c, past, x, end) ==
  [layer |-> end, lo |-> x.lo, hi |-> x.hi, ok |-> Cat(c, x).ok /\ past = c.hi]

============================================================================
