---------------------------- MODULE MCErrorList -----------------------------
(***************************************************************************)
(* The first thread sets errors beyond the limit on the chain, the others  *)
(* one each, so that the list is reordered all the time.  Which address an *)
(* entry has makes no difference.                                          *)
(***************************************************************************)
EXTENDS ErrorList, TLC

CONSTANTS t1, t2, t3

MCThreads == {t1, t2, t3}
MCMaxStamp == t1 :> 4 @@ t2 :> 1 @@ t3 :> 1

EntrySymmetry == Permutations(Entries)
=============================================================================
