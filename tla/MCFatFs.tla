------------------------------ MODULE MCFatFs ------------------------------
(***************************************************************************)
(* FatFs for TLC.                                                          *)
(***************************************************************************)
EXTENDS FatFs

MCNames == {"a", "d"}

(* Bound: a behaviour is followed through one power loss or through leaks  *)
(* of clusters, not through both and not past a file written over.         *)
UpToDamage == events = {"lost clusters"} \/ events \subseteq {"power loss"}
=============================================================================
