---------------------------- MODULE MCVariables ----------------------------
(* Variables.tla for TLC. *)
EXTENDS Variables, TLC

CONSTANTS v1, v2, v3, v4, n1, n2, n3, c1, c2

FourNodes == {v1, v2, v3, v4}
ThreeNames == {n1, n2, n3}
TwoValues == {c1, c2}
NamesAndValues == Names \union Values

(* Memory for one variable is as good as another; so is a name, and so is  *)
(* a value: no definition or property singles one out.                     *)
Alike == Permutations(Nodes) \union Permutations(Names) \union Permutations(Values)

(* States that differ in the last instruction only are one: each step is   *)
(* checked all the same.                                                   *)
ListsOnly == <<heap, status>>
=============================================================================
