---------------------------- MODULE MCMapLayers -----------------------------
(***************************************************************************)
(* A few layers in arrays that have to grow.                               *)
(***************************************************************************)
EXTENDS MapLayers, TLC

LayerSymmetry == Permutations(LayerObjs)
=============================================================================
