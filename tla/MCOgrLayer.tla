----------------------------- MODULE MCOgrLayer -----------------------------
(***************************************************************************)
(* Two threads: the first draws the layer a1, the second the layers b1 and *)
(* b2 over the same data source and the tiled layer c1.  The second makes  *)
(* one call more: it can share, change a tile and close.                   *)
(***************************************************************************)
EXTENDS OgrLayer, TLC

CONSTANTS t1, t2, a1, b1, b2, c1, ds

MCThreads == {t1, t2}
MCLayers == {a1, b1, b2, c1}
MCThreadOf == [l \in MCLayers |-> IF l = a1 THEN t1 ELSE t2]
MCConnectionOf == [l \in MCLayers |-> IF l = c1 THEN NoConnection ELSE ds]
MCModes == [l \in MCLayers |-> IF l = b2 THEN "DEFER" ELSE "NORMAL"]
MCMaxCalls == t1 :> 2 @@ t2 :> 3

(***************************************************************************)
(* Data sets are told apart only by which layer has which, so that of the  *)
(* steps that open a data set and differ in its handle one is enough: a    *)
(* run that takes another is the same with the handles exchanged.          *)
(***************************************************************************)
FirstFree ==
    \A h \in Handles :
        dataset[h] = "free" /\ dataset'[h] = "open"
            => h = CHOOSE g \in Handles : dataset[g] = "free"
=============================================================================
