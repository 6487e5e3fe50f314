--------------------------- MODULE MCLayerCursor ----------------------------
(***************************************************************************)
(* Every query of up to MaxRows features, without repetition.              *)
(***************************************************************************)
EXTENDS LayerCursor

CONSTANT MaxRows

NoRepetition(s) == \A i, j \in DOMAIN s : i # j => s[i] # s[j]

MCQueries ==
    {s \in UNION {[1 .. n -> Features] : n \in 0 .. MaxRows} : NoRepetition(s)}
=============================================================================
