------------------------------ MODULE MCPaths -------------------------------
(***************************************************************************)
(* Paths for TLC: directories 1 and 2 lie beside each other or one in the  *)
(* other, each with its entries "." and ".."; files are 11 and 12.         *)
(***************************************************************************)
EXTENDS Paths

AnEntry(name, kind, at) == [name |-> name, kind |-> kind, at |-> at]
Dots(at, up) == <<AnEntry(<<".">>, "dir", at), AnEntry(<<".", ".">>, "dir", up)>>

Tree(root, first, second) ==
  [d \in -1 .. 2 |-> CASE d = -1 -> <<>> [] d = 0 -> root
                       [] d = 1 -> first [] d = 2 -> second]

Beside(n) ==
  Tree(<<AnEntry(n[1], "dir", 1), AnEntry(n[2], "dir", 2)>>,
       Dots(1, -1) \o <<AnEntry(n[3], "file", 11)>>,
       Dots(2, -1) \o <<AnEntry(n[4], "file", 12)>>)

Nested(n) ==
  Tree(<<AnEntry(n[1], "dir", 1), AnEntry(n[2], "file", 11)>>,
       Dots(1, -1) \o <<AnEntry(n[3], "dir", 2)>>,
       Dots(2, 1) \o <<AnEntry(n[4], "file", 12)>>)

(* A disk that was just formatted.                                         *)
EmptyTree == [d \in -1 .. 0 |-> <<>>]

MCTrees(names) ==
  {EmptyTree} \cup
    UNION {{Beside(n), Nested(n)} : n \in {m \in [1 .. 4 -> names] : m[1] # m[2]}}

Strings(chars, n) == UNION {[1 .. k -> chars] : k \in 0 .. n}

MCCharacters == {"/", ".", "x", "y", "z"}
=============================================================================
