------------------------------ MODULE DataValues ------------------------------
(***************************************************************************)
(* The objects a program handles, as far as composite data tells them      *)
(* apart: integers, truth values, handles of an internal part, tuples,     *)
(* identifiers, and the two pointers that are no object.                   *)
(***************************************************************************)
EXTENDS Integers, Sequences

Num(n) == <<"num", n>>
Bool(b) == <<"bool", b>>
Ref(r) == <<"ref", r>>
Tuple(s) == <<"tuple", s>>
Id(x) == <<"id", x>>
Freed == <<"freed">>
Null == <<"null">>

(* objects_eq compares integers and truth values by value, identifiers by  *)
(* name, whatever the value of the variable, and none with the other; two  *)
(* handles of composite data are never equal, not even copies of one.      *)
ObjectsEq(a, b) == a = b /\ a[1] \in {"num", "bool", "id"}
=============================================================================
