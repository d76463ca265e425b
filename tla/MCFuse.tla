------------------------------- MODULE MCFuse -------------------------------
(***************************************************************************)
(* The FUSE front end for TLC: paths of names of which some begin others.  *)
(***************************************************************************)
EXTENDS MCPaths

(* Four names in a tree of which none begins another, so that it is apart. *)
ApartNames == <<<<"x", "x">>, <<"x", "y">>, <<"y", "x">>, <<"y", "y">>>>

FuseTrees == MCTrees({<<"x">>, <<"y">>, <<"x", "y">>}) \cup
               {Beside(ApartNames), Nested(ApartNames)}
FuseNames == {<<"z">>}

ASSUME FuseAssumption ==
  /\ \A tree \in FuseTrees : Proper(tree)
  /\ AllApart(Beside(ApartNames)) /\ AllApart(Nested(ApartNames))
=============================================================================
