--------------------------- MODULE MCDataStructs ---------------------------
(* Two lists and a map of three ids that collide in the smallest table, two  *)
(* of them also in the next.  Any free node is as good as another.           *)
EXTENDS DataStructs, TLC

CONSTANTS k1, k2, k3

MCHash == (k1 :> 0) @@ (k2 :> 2) @@ (k3 :> 4)

SomeNode == Permutations(Nodes)
=============================================================================
