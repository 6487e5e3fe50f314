--------------------------- MODULE MCPostGISLayer ---------------------------
(***************************************************************************)
(* Two threads over one data source: the first draws the layers a1 and a2, *)
(* whose connections are shared and handed on, the second b1, which takes  *)
(* part in this, and b2, which is never to share its connection.           *)
(***************************************************************************)
EXTENDS PostGISLayer, TLC

CONSTANTS t1, t2, a1, a2, b1, b2, db

MCThreads == {t1, t2}
MCLayers == {a1, a2, b1, b2}
MCThreadOf == a1 :> t1 @@ a2 :> t1 @@ b1 :> t2 @@ b2 :> t2
MCConnectionOf == [l \in MCLayers |-> db]
MCModes == a1 :> "unrecognised" @@ a2 :> "DEFER" @@ b1 :> "NORMAL" @@ b2 :> "ALWAYS"

HandleSymmetry == Permutations(Handles)
=============================================================================
