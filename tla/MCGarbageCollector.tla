------------------------- MODULE MCGarbageCollector -------------------------
(* GarbageCollector.tla for TLC: programs that make three plain objects,   *)
(* or two instances of classes with destructors, or one of each.           *)
EXTENDS GarbageCollector

CONSTANTS o1, o2, o3, f1, f2

MixedObjects == {o1, f1}
MixedFinal == {f1}
MixedPrograms == {MixedObjects}

AllObjects == {o1, o2, o3, f1, f2}
AllFinal == {f1, f2}
AllPrograms == {{o1, o2, o3}, {f1, f2}}
=============================================================================
